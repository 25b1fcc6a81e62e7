---------------------------- MODULE MemPathProofs ----------------------------
(***************************************************************************)
(* Proofs about the way to the memory: the core's bus adapter, for every   *)
(* set of requests, every timing of the bus and a reset at any cycle; the  *)
(* RAM behind both halves of the crossbar, for every set of its words and  *)
(* of payloads; and the benches of the bus, for every set of addresses no  *)
(* two of which are one word, every bytes and every number of calls.       *)
(***************************************************************************)
EXTENDS MCMemPath, TLAPS

-----------------------------------------------------------------------------
(* The adapter. *)

(* A beat the bus holds has been acknowledged to the adapter, and stays so *)
(* until the transfer has ended.                                           *)
HeldIsAcknowledged ==
  /\ aw # NoBeat => ack_awvalid
  /\ w # NoBeat => ack_wvalid
  /\ ar # NoBeat => ack_arvalid

(* While mem_valid is up, xfer_done is the first cycle of a second word:   *)
(* the acknowledgement of the first one still masks the request.           *)
DoneIsMasked ==
  mem_valid /\ xfer_done => ~writing /\ secondword /\ ack_arvalid /\ ar = NoBeat

IInv == TypeOK /\ BeatsAreTheTransfers /\ HeldIsAcknowledged /\ DoneIsMasked

LEMMA InitIInv == Init => IInv
BY NoBeatAssumption
   DEF Init, IInv, TypeOK, Beat, BeatsAreTheTransfers, HeldIsAcknowledged, DoneIsMasked

LEMMA ResetIInv == IInv /\ Reset => IInv'
BY NoBeatAssumption
   DEF Reset, IInv, TypeOK, Beat, BeatsAreTheTransfers, HeldIsAcknowledged, DoneIsMasked

LEMMA CycleIInv == IInv /\ AnyCycle => IInv'
<1>. SUFFICES ASSUME IInv,
                     NEW awready \in BOOLEAN, NEW wready \in BOOLEAN, NEW arready \in BOOLEAN,
                     NEW b \in BOOLEAN, NEW r \in BOOLEAN,
                     Bus(awready, wready, arready, b, r), Adapter(awready, wready, arready),
                     NEW valid \in BOOLEAN, NEW wr \in BOOLEAN, NEW second \in BOOLEAN,
                     NEW req \in Request, Core(valid, wr, req, second)
              PROVE  IInv'
  BY DEF AnyCycle, Cycle
<1>. USE NoBeatAssumption
<1>1. CASE ~mem_valid
  <2>1. aw = NoBeat /\ w = NoBeat /\ ar = NoBeat /\ ~bvalid /\ ~rvalid
    BY <1>1 DEF IInv, BeatsAreTheTransfers, TypeOK
  <2>2. aw' = NoBeat /\ w' = NoBeat /\ ar' = NoBeat /\ ~bvalid' /\ ~rvalid' /\ ~xfer_done'
    BY <1>1, <2>1 DEF Bus, takes, awvalid, wvalid, arvalid, bready, rready, Adapter, mem_done,
       mem_ready
  <2>3. bvalid' \in BOOLEAN /\ rvalid' \in BOOLEAN /\ xfer_done' \in BOOLEAN
    BY DEF Bus, Adapter, mem_done
  <2>4. ~ack_awvalid' /\ ~ack_wvalid' /\ ~ack_arvalid'
    BY <1>1 DEF Adapter, next_ack, forgets
  <2>5. ack_awvalid' \in BOOLEAN /\ ack_wvalid' \in BOOLEAN /\ ack_arvalid' \in BOOLEAN
    BY DEF Adapter, next_ack
  <2>. QED
    BY <2>2, <2>3, <2>4, <2>5
    DEF Core, IInv, TypeOK, Beat, BeatsAreTheTransfers, HeldIsAcknowledged, DoneIsMasked
<1>2. CASE mem_valid /\ ~mem_done
  BY <1>2 DEF Core, holds, IInv, TypeOK, Beat, BeatsAreTheTransfers, HeldIsAcknowledged,
     DoneIsMasked, Bus, takes, awvalid, wvalid, arvalid, bready, rready, Adapter, mem_done,
     mem_ready, next_ack, forgets
<1>3. CASE mem_done
  BY <1>3 DEF Core, may_follow, IInv, TypeOK, Beat, BeatsAreTheTransfers, HeldIsAcknowledged,
     DoneIsMasked, Bus, takes, awvalid, wvalid, arvalid, bready, rready, Adapter, mem_done,
     mem_ready, next_ack, forgets
<1>. QED BY <1>1, <1>2, <1>3

LEMMA Inductive == Spec => []IInv
<1>1. IInv /\ UNCHANGED vars => IInv'
  BY DEF vars, core, adapter, bus, IInv, TypeOK, BeatsAreTheTransfers, HeldIsAcknowledged,
     DoneIsMasked
<1>2. IInv /\ [Next]_vars => IInv'
  BY <1>1, ResetIInv, CycleIInv DEF Next
<1>. QED BY <1>2, InitIInv, PTL DEF Spec

-----------------------------------------------------------------------------
(* Every variable keeps its type, an answer is only owed for beats that    *)
(* are held, and a second word is only ever read (l.565-641, 2768-2808).   *)
THEOREM TypeCorrect == Spec => []TypeOK
<1>1. IInv => TypeOK
  BY DEF IInv
<1>. QED BY <1>1, Inductive, PTL

(* What the bus holds is the transfer the core waits for, whatever the     *)
(* acknowledgements were when resetn rose (l.2790-2808).                   *)
THEOREM NoStrayBeat == Spec => []BeatsAreTheTransfers
<1>1. IInv => BeatsAreTheTransfers
  BY DEF IInv
<1>. QED BY <1>1, Inductive, PTL

(* mem_ready ends a transfer only when the bus has all of it and has       *)
(* answered it, a write with a write response and a read with read data    *)
(* (l.2785).                                                               *)
THEOREM NoEarlyReady == Spec => []ReadyMeansDone
<1>1. IInv => ReadyMeansDone
  BY DEF IInv, TypeOK, BeatsAreTheTransfers, ReadyMeansDone, mem_done, mem_ready
<1>. QED BY <1>1, Inductive, PTL

(* All of what the run checks of a state (l.2731-2808).                    *)
THEOREM TransferInvariant == Spec => []TransferInv
BY TypeCorrect, NoStrayBeat, NoEarlyReady, PTL DEF TransferInv

(* An offered beat is never withdrawn or changed before it is accepted,    *)
(* except by reset (l.2773-2783).                                          *)
THEOREM OffersStand == Spec => ValidHolds
<1>1. ASSUME IInv, AnyCycle
      PROVE  /\ awvalid => aw' # NoBeat \/ (awvalid' /\ request' = request)
             /\ wvalid  => w'  # NoBeat \/ (wvalid'  /\ request' = request)
             /\ arvalid => ar' # NoBeat \/ (arvalid' /\ request' = request)
  <2>. SUFFICES ASSUME
           NEW awready \in BOOLEAN, NEW wready \in BOOLEAN, NEW arready \in BOOLEAN,
           NEW b \in BOOLEAN, NEW r \in BOOLEAN,
           Bus(awready, wready, arready, b, r), Adapter(awready, wready, arready),
           NEW valid \in BOOLEAN, NEW wr \in BOOLEAN, NEW second \in BOOLEAN,
           NEW req \in Request, Core(valid, wr, req, second)
         PROVE
           /\ awvalid => aw' # NoBeat \/ (awvalid' /\ request' = request)
           /\ wvalid  => w'  # NoBeat \/ (wvalid'  /\ request' = request)
           /\ arvalid => ar' # NoBeat \/ (arvalid' /\ request' = request)
    BY <1>1 DEF AnyCycle, Cycle
  <2>1. IInv
    BY <1>1
  <2>2. mem_done => ~awvalid /\ ~wvalid /\ ~arvalid
    BY <2>1 DEF IInv, TypeOK, BeatsAreTheTransfers, HeldIsAcknowledged, mem_done, mem_ready,
       awvalid, wvalid, arvalid
  <2>3. ASSUME ~mem_done
        PROVE  /\ awvalid => aw' # NoBeat \/ (awvalid' /\ request' = request)
               /\ wvalid  => w'  # NoBeat \/ (wvalid'  /\ request' = request)
               /\ arvalid => ar' # NoBeat \/ (arvalid' /\ request' = request)
    BY <2>1, <2>3, NoBeatAssumption
    DEF IInv, TypeOK, BeatsAreTheTransfers, HeldIsAcknowledged, mem_done, mem_ready, awvalid,
        wvalid, arvalid, Core, holds, Bus, takes, bready, rready, Adapter, next_ack
  <2>. QED BY <2>2, <2>3
<1>2. IInv /\ [Next]_vars
      => [\/ Reset
          \/ /\ awvalid => aw' # NoBeat \/ (awvalid' /\ request' = request)
             /\ wvalid  => w'  # NoBeat \/ (wvalid'  /\ request' = request)
             /\ arvalid => ar' # NoBeat \/ (arvalid' /\ request' = request)]_vars
  BY <1>1 DEF Next
<1>. QED BY <1>2, Inductive, PTL DEF Spec, ValidHolds

-----------------------------------------------------------------------------
(* The RAM. *)

(* The invariants of the halves, at the addresses of the RAM.              *)
WP == INSTANCE XbarWriteProofs
RP == INSTANCE XbarReadProofs WITH MissAddr <- Addr

(* The model and the invariants speak of the same crossbar: two instances  *)
(* of a module define the same.                                            *)
LEMMA SameWriteInit == W!Init => WP!Init
BY DEF
       W!Init, WP!Init, W!Masters, WP!Masters, W!NoRequest, WP!NoRequest, W!IdleSlave,
       WP!IdleSlave, W!OKAY, WP!OKAY, W!SLAVE_ERR, WP!SLAVE_ERR, W!RealSlaves, WP!RealSlaves

LEMMA SameWriteNext == W!Next <=> WP!Next
BY DEF
       W!Masters, WP!Masters, W!Beat, WP!Beat, W!MasterState, WP!MasterState, W!NoRequest,
       WP!NoRequest, W!NewRequests, WP!NewRequests, W!Busy, WP!Busy, W!SlaveState,
       WP!SlaveState, W!IdleSlave, WP!IdleSlave, W!Init, WP!Init, W!Requests, WP!Requests,
       W!w_open, WP!w_open, W!w_arb, WP!w_arb, W!w_grant_eff, WP!w_grant_eff, W!cur_awready,
       WP!cur_awready, W!cur_wready, WP!cur_wready, W!m_awready, WP!m_awready, W!m_wready,
       WP!m_wready, W!m_bvalid, WP!m_bvalid, W!aw_fire, WP!aw_fire, W!w_fire, WP!w_fire,
       W!aw_ready_c, WP!aw_ready_c, W!w_ready_c, WP!w_ready_c, W!cur_awaddr, WP!cur_awaddr,
       W!cur_wdata, WP!cur_wdata, W!w_miss, WP!w_miss, W!slv_awvalid, WP!slv_awvalid,
       W!slv_wvalid, WP!slv_wvalid, W!slv_bready, WP!slv_bready, W!w_slave_b, WP!w_slave_b,
       W!UpdateGrant, WP!UpdateGrant, W!WIdle, WP!WIdle, W!local_target, WP!local_target,
       W!w_both_issued, WP!w_both_issued, W!WIssue, WP!WIssue, W!WWaitB, WP!WWaitB,
       W!resp_code, WP!resp_code, W!WResp, WP!WResp, W!WritePath, WP!WritePath, W!NextBeat,
       WP!NextBeat, W!MasterNext, WP!MasterNext, W!MasterEdge, WP!MasterEdge, W!SlaveResp,
       WP!SlaveResp, W!do_write, WP!do_write, W!FastNext, WP!FastNext, W!aw_held,
       WP!aw_held, W!w_held, WP!w_held, W!SlowCommits, WP!SlowCommits, W!SlowNext,
       WP!SlowNext, W!Commits, WP!Commits, W!SlaveEdge, WP!SlaveEdge, W!SlowSelected,
       WP!SlowSelected, W!Input, WP!Input, W!Next, WP!Next, W!OKAY, WP!OKAY, W!SLVERR,
       WP!SLVERR, W!DECERR, WP!DECERR, W!Resp, WP!Resp, W!RealSlaves, WP!RealSlaves,
       W!XBAR_CSR, WP!XBAR_CSR, W!SLAVE_ERR, WP!SLAVE_ERR, W!Targets, WP!Targets,
       W!AddrSpace, WP!AddrSpace, W!REGION_ROM, WP!REGION_ROM, W!REGION_RAM, WP!REGION_RAM,
       W!REGION_PERIPH, WP!REGION_PERIPH, W!Peripherals, WP!Peripherals, W!decode_addr,
       WP!decode_addr

LEMMA SameReadInit == R!Init => RP!Init
BY DEF
       R!Init, RP!Init, R!Masters, RP!Masters, R!NoRead, RP!NoRead, R!IdleSlave,
       RP!IdleSlave, R!OKAY, RP!OKAY, R!SLAVE_ERR, RP!SLAVE_ERR, R!RealSlaves,
       RP!RealSlaves, R!Zero, RP!Zero

LEMMA SameReadEdge == R!ReadEdge => RP!ReadEdge
BY DEF
       R!Masters, RP!Masters, R!Value, RP!Value, R!Zero, RP!Zero, R!Location, RP!Location,
       R!ReadMaster, RP!ReadMaster, R!NoRead, RP!NoRead, R!NewReads, RP!NewReads,
       R!ReadSlave, RP!ReadSlave, R!IdleSlave, RP!IdleSlave, R!Init, RP!Init,
       R!ReadRequests, RP!ReadRequests, R!r_open, RP!r_open, R!r_arb, RP!r_arb,
       R!r_grant_eff, RP!r_grant_eff, R!m_arready, RP!m_arready, R!m_rvalid, RP!m_rvalid,
       R!cur_arvalid, RP!cur_arvalid, R!cur_araddr, RP!cur_araddr, R!r_miss, RP!r_miss,
       R!slv_arvalid, RP!slv_arvalid, R!slv_rready, RP!slv_rready, R!UpdateGrant,
       RP!UpdateGrant, R!RIdle, RP!RIdle, R!RIssue, RP!RIssue, R!r_slave_r, RP!r_slave_r,
       R!RWaitR, RP!RWaitR, R!csr_data, RP!csr_data, R!RResp, RP!RResp, R!ReadPath,
       RP!ReadPath, R!ReadMasterNext, RP!ReadMasterNext, R!ReadMasterEdge,
       RP!ReadMasterEdge, R!FastReadNext, RP!FastReadNext, R!SlowReadNext, RP!SlowReadNext,
       R!ReadSlaveEdge, RP!ReadSlaveEdge, R!SlowSelected, RP!SlowSelected, R!Input,
       RP!Input, R!ReadEdge, RP!ReadEdge, R!OKAY, RP!OKAY, R!SLVERR, RP!SLVERR, R!DECERR,
       RP!DECERR, R!Resp, RP!Resp, R!RealSlaves, RP!RealSlaves, R!XBAR_CSR, RP!XBAR_CSR,
       R!SLAVE_ERR, RP!SLAVE_ERR, R!Targets, RP!Targets, R!AddrSpace, RP!AddrSpace,
       R!REGION_ROM, RP!REGION_ROM, R!REGION_RAM, RP!REGION_RAM, R!REGION_PERIPH,
       RP!REGION_PERIPH, R!Peripherals, RP!Peripherals, R!decode_addr, RP!decode_addr,
       R!CsrWord, RP!CsrWord

(* The addresses of the RAM are what the proofs of the halves assume.      *)
LEMMA Assumed ==
  /\ WP!AddrAssumption /\ WP!NoneAssumption /\ WP!SetAssumption
  /\ RP!ReadAddrAssumption /\ RP!ReadNoneAssumption /\ RP!ReadSetAssumption
BY RamAssumption
DEF WP!AddrAssumption, WP!NoneAssumption, WP!SetAssumption, RP!ReadAddrAssumption,
    RP!ReadNoneAssumption, RP!ReadSetAssumption, AddrSpace, WP!AddrSpace, RP!AddrSpace, Resp,
    WP!Resp, RP!Resp, OKAY, SLVERR, DECERR, WP!OKAY, WP!SLVERR, WP!DECERR, RP!OKAY, RP!SLVERR,
    RP!DECERR, RealSlaves, WP!RealSlaves, RP!RealSlaves

LEMMA HalvesInit == XbarRamInit => WP!IInv /\ RP!IInv
BY Assumed, SameWriteInit, SameReadInit, WP!InitIInv, RP!InitIInv DEF XbarRamInit

(* What the RAM needs to know of the write half at any moment: the latches *)
(* hold the write of the master that owns the grant, and it is for the RAM.*)
WriteHalf ==
  /\ mst \in [Masters -> W!MasterState]
  /\ w_state \in {"IDLE", "ISSUE", "WAIT_B", "RESP"} /\ w_grant \in Masters
  /\ s_bvalid \in BOOLEAN /\ (s_bvalid => w_state = "RESP")
  /\ \A m \in Masters : /\ mst[m].aw = "off" <=> mst[m].w = "off"
                        /\ W!Busy(m) => mst[m].addr \in Addr /\ mst[m].data \in Data
  /\ w_state # "IDLE" =>
       /\ mst[w_grant].aw = "sent" /\ mst[w_grant].w = "sent"
       /\ w_addr_lat = mst[w_grant].addr /\ w_data_lat = mst[w_grant].data
       /\ w_addr_lat \in Addr /\ w_data_lat \in Data /\ w_sel = "RAM"

(* And of the read half.                                                   *)
ReadHalf ==
  /\ rmst \in [Masters -> R!ReadMaster]
  /\ r_state \in {"IDLE", "ISSUE", "WAIT_R", "RESP"} /\ r_grant \in Masters
  /\ s_rvalid \in BOOLEAN /\ (s_rvalid => r_state = "RESP")
  /\ \A m \in Masters : Reads(m) => rmst[m].addr \in Addr
  /\ r_state # "IDLE" =>
       /\ rmst[r_grant].ar = "sent" /\ r_addr_lat = rmst[r_grant].addr
       /\ r_addr_lat \in Addr /\ r_sel = "RAM"
  /\ rslv["RAM"].r # None => r_state = "WAIT_R"

(* It follows from the halves' own invariants.                             *)
LEMMA WriteHalfHolds == ASSUME WP!IInv PROVE WriteHalf
<1>1. \A a \in Addr : WP!decode_addr(a) = "RAM"
  BY RamAssumption
  DEF decode_addr, WP!decode_addr, REGION_ROM, REGION_RAM, REGION_PERIPH, Peripherals, XBAR_CSR,
      SLAVE_ERR, WP!REGION_ROM, WP!REGION_RAM, WP!REGION_PERIPH, WP!Peripherals, WP!XBAR_CSR,
      WP!SLAVE_ERR
<1>. QED
  BY <1>1
  DEF WP!IInv, WP!TypeOK, WP!MastersOK, WP!PipelineOK, WP!LatchedBeatsAreTheOwners, WP!WStates,
      WP!MasterState, WP!Beat, WP!Masters, WriteHalf, Masters, W!Masters, W!MasterState, W!Beat,
      W!Busy

LEMMA ReadHalfHolds == RP!IInv => ReadHalf
<1>1. \A a \in Addr : RP!decode_addr(a) = "RAM"
  BY RamAssumption
  DEF decode_addr, RP!decode_addr, REGION_ROM, REGION_RAM, REGION_PERIPH, Peripherals, XBAR_CSR,
      SLAVE_ERR, RP!REGION_ROM, RP!REGION_RAM, RP!REGION_PERIPH, RP!Peripherals, RP!XBAR_CSR,
      RP!SLAVE_ERR
<1>2. "RAM" \in RP!RealSlaves
  BY DEF RP!RealSlaves
<1>. QED
  BY <1>1, <1>2
  DEF RP!IInv, RP!TypeOK, RP!ReadersOK, RP!PipelineOK, RP!SlavesOK, RP!ReadInFlightIsTheOwners,
      RP!RStates, RP!ReadMaster, RP!Masters, ReadHalf, Reads, Masters, W!Masters, R!ReadMaster

LEMMA ReadHalfNext == RP!IInv' => ReadHalf'
BY ReadHalfHolds, PTL

-----------------------------------------------------------------------------
(* The inductive invariant of the RAM.                                     *)

RamTypes ==
  /\ ram \in [Addr -> Data] /\ ram_q \in Value /\ result \in Value
  /\ current \in [Masters -> SUBSET Data] /\ own \in [Masters -> [Addr -> Value]]

(* A write has happened once the crossbar waits for its response.          *)
Written ==
  /\ w_state = "ISSUE" => ~w_issued_aw /\ ~w_issued_w
  /\ w_state \in {"WAIT_B", "RESP"} => ram[w_addr_lat] = w_data_lat

(* The word still is what its last writer wrote, unless that master has    *)
(* another write of the word on its way.                                   *)
Kept ==
  \A m \in Masters, a \in Addr :
    own[m][a] # None => ram[a] = own[m][a] \/ (W!Busy(m) /\ mst[m].addr = a)

(* The present value is one the reader may see, and the only one while     *)
(* what it wrote there stands.                                             *)
Seen ==
  \A m \in Masters :
    Reads(m) =>
      /\ ram[rmst[m].addr] \in current[m]
      /\ own[m][rmst[m].addr] # None => current[m] = {own[m][rmst[m].addr]}

(* So is the value on its way from the RAM to the reader.                  *)
Carried ==
  /\ rslv["RAM"].r # None => ram_q \in current[r_grant]
  /\ r_state = "RESP" => result \in current[r_grant]

OneAccess == \A m \in Masters : /\ Reads(m) <=> current[m] # {}
                                /\ ~(Reads(m) /\ W!Busy(m))

RamIInv == /\ WP!IInv /\ RP!IInv
           /\ RamTypes /\ Written /\ Kept /\ Seen /\ Carried /\ OneAccess

LEMMA InitRam == XbarRamInit => RamIInv
<1>. SUFFICES ASSUME XbarRamInit PROVE RamIInv
  OBVIOUS
<1>1. RamTypes
  BY DEF XbarRamInit, RamTypes, Value
<1>2. Written /\ Kept /\ Seen /\ Carried /\ OneAccess
  BY DEF XbarRamInit, W!Init, R!Init, Written, Kept, Seen, Carried, OneAccess, Reads, W!Busy,
     W!NoRequest, R!NoRead, R!IdleSlave, R!RealSlaves, Masters, W!Masters, R!Masters
<1>. QED BY <1>1, <1>2, HalvesInit DEF RamIInv

-----------------------------------------------------------------------------
(* One edge of each half. *)

(* Both halves keep their own invariants.                                  *)
LEMMA HalvesNext == ASSUME WP!IInv, RP!IInv, W!Next, R!ReadEdge PROVE WP!IInv' /\ RP!IInv'
<1>1. WP!IInv'
  BY Assumed, SameWriteNext, WP!NextIInv
<1>2. last_decerr_waddr' \in {last_decerr_waddr} \union Addr
  <2>1. PICK awready \in BOOLEAN, wready \in BOOLEAN, cur_bready \in BOOLEAN :
          W!WritePath(awready, wready, cur_bready)
    BY DEF W!Next, W!Input
  <2>2. W!aw_fire => W!cur_awaddr \in Addr
    <3>1. W!w_grant_eff \in Masters
      BY WriteHalfHolds DEF W!w_grant_eff, W!w_arb, WriteHalf, Masters, W!Masters
    <3>. QED BY <3>1, WriteHalfHolds DEF W!aw_fire, W!cur_awaddr, WriteHalf, W!Busy
  <2>. QED BY <2>1, <2>2 DEF W!WritePath, W!WIdle, W!WIssue, W!WWaitB, W!WResp, W!w_miss
<1>3. RP!Next
  BY <1>2, SameReadEdge DEF RP!Next
<1>. QED BY <1>1, <1>3, Assumed, RP!NextIInv

(* A master that gives up its write, or moves on to another, has been      *)
(* answered, and Taken says so.                                            *)
LEMMA WriterStep ==
  ASSUME WriteHalf, W!Next, NEW m \in Masters
  PROVE  /\ Taken(m) => m = w_grant /\ w_state = "RESP"
         /\ W!Busy(m) /\ ~Taken(m) => W!Busy(m)' /\ mst'[m].addr = mst[m].addr
<1>1. PICK cur_bready \in BOOLEAN : W!MasterEdge(cur_bready) /\ (cur_bready \/ s_bvalid)
  BY DEF W!Next, W!Input, WriteHalf
<1>2. mst'[m] \in W!MasterNext(m, cur_bready)
  BY <1>1 DEF W!MasterEdge, Masters, W!Masters
<1>3. CASE W!m_bvalid(m) /\ cur_bready
  <2>1. mst'[m] \in {W!NoRequest} \union W!NewRequests
    BY <1>2, <1>3 DEF W!MasterNext
  <2>2. mst'[m].aw # "sent"
    BY <2>1 DEF W!NoRequest, W!NewRequests
  <2>3. m = w_grant /\ w_state = "RESP"
    BY <1>3 DEF W!m_bvalid, WriteHalf
  <2>. QED BY <2>2, <2>3 DEF Taken, WriteHalf
<1>4. CASE ~(W!m_bvalid(m) /\ cur_bready) /\ W!Busy(m)
  <2>1. PICK addr \in W!NextBeat(mst[m].aw, W!m_awready(m)),
             data \in W!NextBeat(mst[m].w, W!m_wready(m)) :
          mst'[m] = [aw |-> addr, w |-> data, addr |-> mst[m].addr, data |-> mst[m].data]
    BY <1>2, <1>4 DEF W!MasterNext
  <2>2. addr # "off"
    BY <1>4 DEF W!NextBeat, W!Busy
  <2>3. ASSUME mst[m].aw = "sent", mst[m].w = "sent" PROVE mst'[m] = mst[m]
    <3>1. addr = mst[m].aw /\ data = mst[m].w
      BY <2>3 DEF W!NextBeat
    <3>2. mst[m] \in W!MasterState
      BY DEF WriteHalf
    <3>. QED BY <2>1, <3>1, <3>2 DEF W!MasterState
  <2>4. ~Taken(m)
    BY <2>3 DEF Taken
  <2>. QED BY <2>1, <2>2, <2>4 DEF W!Busy
<1>. QED BY <1>3, <1>4 DEF Taken

(* The RAM is written on the one cycle in which the write is issued, by    *)
(* the owner of the grant; what is written then stays until the answer.    *)
LEMMA WriteSide ==
  ASSUME WriteHalf, Written, W!Next, RamTypes, RamEdge
  PROVE  Written' /\ (do_write => w_state = "ISSUE")
<1>1. PICK awready \in BOOLEAN, wready \in BOOLEAN, cur_bready \in BOOLEAN :
        /\ W!WritePath(awready, wready, cur_bready)
        /\ ~W!SlowSelected => awready /\ wready
  BY DEF W!Next, W!Input
<1>2. do_write => w_state = "ISSUE"
  BY DEF do_write, W!do_write, W!slv_awvalid
<1>3. CASE w_state = "IDLE"
  <2>1. W!WIdle
    BY <1>1, <1>3 DEF W!WritePath, W!WIssue, W!WWaitB, W!WResp
  <2>2. w_state' \in {"IDLE", "ISSUE"}
    BY <2>1 DEF W!WIdle
  <2>3. w_state' = "ISSUE" => ~w_issued_aw' /\ ~w_issued_w'
    BY <2>1 DEF W!WIdle
  <2>. QED BY <1>2, <2>2, <2>3 DEF Written
<1>4. CASE w_state = "ISSUE"
  <2>1. W!WIssue(awready, wready)
    BY <1>1, <1>4 DEF W!WritePath, W!WIdle, W!WWaitB, W!WResp
  <2>2. awready /\ wready /\ ~W!local_target
    BY <1>1, <1>4, RamAssumption
    DEF W!SlowSelected, WriteHalf, W!local_target, W!SLAVE_ERR, W!XBAR_CSR
  <2>3. w_state' = "WAIT_B" /\ w_addr_lat' = w_addr_lat /\ w_data_lat' = w_data_lat
    BY <2>1, <2>2 DEF W!WIssue, W!w_both_issued
  <2>4. do_write
    BY <1>4 DEF do_write, W!do_write, W!slv_awvalid, W!slv_wvalid, Written, WriteHalf
  <2>5. ram' = [ram EXCEPT ![w_addr_lat] = w_data_lat]
    BY <2>4 DEF RamEdge, next_ram
  <2>6. ram'[w_addr_lat] = w_data_lat
    BY <1>4, <2>5 DEF WriteHalf, RamTypes
  <2>. QED BY <1>2, <2>3, <2>6 DEF Written
<1>5. CASE w_state \in {"WAIT_B", "RESP"}
  <2>1. W!WWaitB \/ W!WResp(cur_bready)
    BY <1>1, <1>5 DEF W!WritePath, W!WIdle, W!WIssue
  <2>2. w_state' # "ISSUE" /\ w_addr_lat' = w_addr_lat /\ w_data_lat' = w_data_lat
    BY <1>5, <2>1 DEF W!WWaitB, W!WResp
  <2>3. ram' = ram
    BY <1>2, <1>5 DEF RamEdge, next_ram
  <2>. QED BY <1>2, <1>5, <2>2, <2>3 DEF Written
<1>. QED BY <1>3, <1>4, <1>5 DEF WriteHalf
(* A read goes on, or is a new one, of which current holds one value.      *)
GoesOn(m) == Reads(m) /\ rmst'[m].addr = rmst[m].addr /\ ~(R!m_rvalid(m) /\ rmst'[m].ar = "valid")

LEMMA CurrentStep ==
  ASSUME RamTypes, RamEdge, NEW m \in Masters, rmst'[m].ar # "off"
  PROVE  current'[m] = {ram'[rmst'[m].addr]} \union (IF GoesOn(m) THEN current[m] ELSE {})
BY DEF RamEdge, GoesOn

(* While the read half is busy, the reader is the owner of the grant, and  *)
(* what it may see grows.                                                  *)
LEMMA OwnerReads ==
  ASSUME ReadHalf, ReadHalf', RamTypes, RamEdge, R!ReadEdge, r_state # "IDLE", r_state' # "IDLE"
  PROVE  /\ r_grant' = r_grant /\ Reads(r_grant)
         /\ current[r_grant] \subseteq current'[r_grant]
<1>1. PICK arready \in BOOLEAN, cur_rready \in BOOLEAN : R!ReadPath(arready, cur_rready)
  BY DEF R!ReadEdge, R!Input
<1>2. r_grant' = r_grant /\ r_addr_lat' = r_addr_lat
  BY <1>1 DEF R!ReadPath, R!RIdle, R!RIssue, R!RWaitR, R!RResp, R!UpdateGrant, R!r_open
<1>3. rmst'[r_grant].ar = "sent" /\ rmst'[r_grant].addr = rmst[r_grant].addr
  BY <1>2 DEF ReadHalf
<1>4. Reads(r_grant) /\ GoesOn(r_grant)
  BY <1>3 DEF ReadHalf, Reads, GoesOn
<1>5. r_grant \in Masters
  BY DEF ReadHalf
<1>. QED BY <1>2, <1>3, <1>4, <1>5, CurrentStep

(* The value leaves the RAM as the read is issued, and the read half as it *)
(* answers; at both moments the reader may see it.                         *)
LEMMA CarriedStep ==
  ASSUME ReadHalf, ReadHalf', RamTypes, Seen, Carried, RamEdge, R!ReadEdge
  PROVE  Carried'
<1>1. PICK arready \in BOOLEAN, respond \in BOOLEAN, cur_rready \in BOOLEAN :
        R!ReadPath(arready, cur_rready) /\ R!ReadSlaveEdge(arready, respond)
  BY DEF R!ReadEdge, R!Input
<1>2. ASSUME rslv'["RAM"].r # None PROVE ram_q' \in current'[r_grant']
  <2>1. do_read
    <3>1. rslv'["RAM"] = R!FastReadNext("RAM")
      BY <1>1, RamAssumption DEF R!ReadSlaveEdge, R!RealSlaves
    <3>. QED BY <1>2, <3>1 DEF R!FastReadNext, do_read
  <2>2. ram_q' = ram[r_addr_lat] /\ r_state = "ISSUE"
    BY <2>1 DEF RamEdge, next_q, do_read, R!slv_arvalid
  <2>3. r_state' # "IDLE"
    BY <1>2 DEF ReadHalf
  <2>4. Reads(r_grant) /\ r_addr_lat = rmst[r_grant].addr /\ r_grant \in Masters
    BY <2>2 DEF ReadHalf, Reads
  <2>5. ram[r_addr_lat] \in current[r_grant]
    BY <2>4 DEF Seen
  <2>. QED BY <2>2, <2>3, <2>5, OwnerReads
<1>3. ASSUME r_state' = "RESP" PROVE result' \in current'[r_grant']
  <2>1. CASE r_state = "WAIT_R"
    <3>1. R!RWaitR
      BY <1>1, <2>1 DEF R!ReadPath, R!RIdle, R!RIssue, R!RResp
    <3>2. R!r_slave_r # None /\ r_sel = "RAM"
      BY <1>3, <2>1, <3>1 DEF R!RWaitR, ReadHalf
    <3>3. rslv["RAM"].r # None
      BY <3>2 DEF R!r_slave_r, R!RealSlaves
    <3>4. result' = ram_q
      BY <2>1, <3>2 DEF RamEdge, next_result
    <3>. QED BY <1>3, <2>1, <3>3, <3>4, OwnerReads DEF Carried
  <2>2. CASE r_state = "RESP"
    <3>1. result' = result
      BY <2>2 DEF RamEdge, next_result
    <3>. QED BY <1>3, <2>2, <3>1, OwnerReads DEF Carried
  <2>3. CASE r_state \in {"IDLE", "ISSUE"}
    <3>1. R!RIdle \/ R!RIssue(arready)
      BY <1>1, <2>3 DEF R!ReadPath, R!RWaitR, R!RResp
    <3>2. r_state = "ISSUE" => r_sel \notin {R!SLAVE_ERR, R!XBAR_CSR}
      BY DEF ReadHalf, R!SLAVE_ERR, R!XBAR_CSR
    <3>. QED BY <1>3, <2>3, <3>1, <3>2 DEF R!RIdle, R!RIssue
  <2>. QED BY <2>1, <2>2, <2>3 DEF ReadHalf
<1>. QED BY <1>2, <1>3 DEF Carried

-----------------------------------------------------------------------------
(* One edge of both. *)

LEMMA TypesStep ==
  ASSUME WriteHalf, ReadHalf, ReadHalf', RamTypes, Written, RamEdge, W!Next PROVE RamTypes'
<1>1. ram' \in [Addr -> Data]
  BY WriteSide DEF RamEdge, next_ram, RamTypes, WriteHalf
<1>2. ram_q' \in Value
  BY DEF RamEdge, next_q, RamTypes, Value, do_read, R!slv_arvalid, ReadHalf
<1>3. result' \in Value
  BY DEF RamEdge, next_result, RamTypes
<1>4. \A m \in Masters : rmst'[m].ar # "off" => ram'[rmst'[m].addr] \in Data
  BY <1>1 DEF ReadHalf, Reads
<1>5. current' \in [Masters -> SUBSET Data]
  BY <1>4 DEF RamEdge, RamTypes
<1>6. \A m \in Masters : Taken(m) => mst[m].data \in Data
  BY DEF Taken, WriteHalf
<1>7. own' \in [Masters -> [Addr -> Value]]
  BY <1>6 DEF RamEdge, RamTypes, Value
<1>. QED BY <1>1, <1>2, <1>3, <1>5, <1>7 DEF RamTypes

LEMMA OwnStep ==
  ASSUME RamTypes, RamEdge, NEW m \in Masters, NEW a \in Addr
  PROVE  own'[m][a] = IF do_write /\ w_addr_lat = a /\ w_grant # m THEN None
                      ELSE IF Taken(m) /\ mst[m].addr = a THEN mst[m].data ELSE own[m][a]
BY DEF RamEdge

LEMMA KeptStep ==
  ASSUME WriteHalf, RamTypes, Written, Kept, RamEdge, W!Next PROVE Kept'
<1>. SUFFICES ASSUME NEW m \in Masters, NEW a \in Addr, own'[m][a] # None
              PROVE  ram'[a] = own'[m][a] \/ (W!Busy(m)' /\ mst'[m].addr = a)
  BY DEF Kept, W!Busy
<1>1. ~(do_write /\ w_addr_lat = a /\ w_grant # m)
  BY OwnStep
<1>2. ram'[a] = IF do_write /\ w_addr_lat = a THEN w_data_lat ELSE ram[a]
  BY DEF RamEdge, next_ram, RamTypes
<1>3. CASE Taken(m) /\ mst[m].addr = a
  <2>1. m = w_grant /\ w_state = "RESP" /\ ~do_write
    BY <1>3, WriterStep, WriteSide
  <2>2. own'[m][a] = w_data_lat /\ w_addr_lat = a
    BY <1>1, <1>3, <2>1, OwnStep DEF WriteHalf
  <2>. QED BY <1>2, <2>1, <2>2 DEF Written
<1>4. CASE ~(Taken(m) /\ mst[m].addr = a)
  <2>1. own'[m][a] = own[m][a]
    BY <1>1, <1>4, OwnStep
  <2>2. ram[a] = own[m][a] \/ (W!Busy(m) /\ mst[m].addr = a)
    BY <2>1 DEF Kept
  <2>3. CASE W!Busy(m) /\ mst[m].addr = a
    BY <1>4, <2>3, WriterStep
  <2>4. CASE do_write /\ w_addr_lat = a
    <3>1. W!Busy(m) /\ mst[m].addr = a
      BY <1>1, <2>4, WriteSide DEF WriteHalf, W!Busy
    <3>. QED BY <2>3, <3>1
  <2>5. CASE ram[a] = own[m][a] /\ ~(do_write /\ w_addr_lat = a)
    BY <1>2, <2>1, <2>5
  <2>. QED BY <2>2, <2>3, <2>4, <2>5
<1>. QED BY <1>3, <1>4

LEMMA ReaderStep ==
  ASSUME WriteHalf, ReadHalf, ReadHalf', RamTypes, RamTypes', Written, Kept, Kept', Seen,
         OneAccess, OneAtATime, RamEdge, W!Next
  PROVE  Seen' /\ OneAccess'
<1>1. ASSUME NEW m \in Masters PROVE ~(Reads(m)' /\ W!Busy(m)')
  BY <1>1 DEF OneAtATime, Reads, W!Busy
<1>2. ASSUME NEW m \in Masters, Reads(m)'
      PROVE  /\ ram'[rmst'[m].addr] \in current'[m]
             /\ own'[m][rmst'[m].addr] # None => current'[m] = {own'[m][rmst'[m].addr]}
  <2>. DEFINE a == rmst'[m].addr
  <2>1. a \in Addr
    BY <1>2 DEF ReadHalf
  <2>2. current'[m] = {ram'[a]} \union (IF GoesOn(m) THEN current[m] ELSE {})
    BY <1>2, CurrentStep DEF Reads
  <2>3. own'[m][a] # None => ram'[a] = own'[m][a]
    BY <1>1, <1>2, <2>1 DEF Kept, W!Busy
  <2>4. ASSUME GoesOn(m), own'[m][a] # None PROVE current[m] = {own'[m][a]}
    <3>1. ~Taken(m)
      BY <2>4 DEF GoesOn, OneAccess, Taken
    <3>2. own'[m][a] = own[m][a]
      BY <2>1, <2>4, <3>1, OwnStep
    <3>. QED BY <2>4, <3>2 DEF GoesOn, Seen
  <2>. QED BY <2>2, <2>3, <2>4
<1>3. ASSUME NEW m \in Masters PROVE Reads(m)' <=> current'[m] # {}
  <2>1. CASE rmst'[m].ar = "off"
    BY <2>1 DEF RamEdge, Reads
  <2>2. CASE rmst'[m].ar # "off"
    BY <1>2, <2>2 DEF Reads
  <2>. QED BY <2>1, <2>2
<1>4. Seen'
  BY <1>2 DEF Seen, Reads
<1>. QED BY <1>1, <1>3, <1>4 DEF OneAccess, Reads, W!Busy

LEMMA NextRam == RamIInv /\ XbarRamNext => RamIInv'
<1>. SUFFICES ASSUME RamIInv, XbarRamNext PROVE RamIInv'
  OBVIOUS
<1>1. WP!IInv' /\ RP!IInv'
  BY HalvesNext DEF RamIInv, XbarRamNext
<1>2. WriteHalf /\ ReadHalf
  BY WriteHalfHolds, ReadHalfHolds DEF RamIInv
<1>4. ReadHalf'
  BY <1>1, ReadHalfNext
<1>5. RamTypes'
  BY <1>2, <1>4, TypesStep DEF RamIInv, XbarRamNext
<1>6. Written'
  BY <1>2, WriteSide DEF RamIInv, XbarRamNext
<1>7. Kept'
  BY <1>2, KeptStep DEF RamIInv, XbarRamNext
<1>8. Seen' /\ OneAccess'
  BY <1>2, <1>4, <1>5, <1>7, ReaderStep DEF RamIInv, XbarRamNext
<1>9. Carried'
  BY <1>2, <1>4, CarriedStep DEF RamIInv, XbarRamNext
<1>. QED BY <1>1, <1>5, <1>6, <1>7, <1>8, <1>9 DEF RamIInv

(* What a reader is shown is one of the values it may see.                 *)
LEMMA RamInvHolds == RamIInv => RamInv
<1>. SUFFICES ASSUME RamIInv PROVE RamInv
  OBVIOUS
<1>1. ReadHalf
  BY ReadHalfHolds DEF RamIInv
<1>2. ASSUME s_rvalid PROVE result \in current[r_grant] /\ Reads(r_grant) /\ r_grant \in Masters
  BY <1>1, <1>2 DEF ReadHalf, RamIInv, Carried, Reads
<1>3. ReadIsCurrent
  BY <1>2 DEF ReadIsCurrent, R!m_rvalid
<1>4. ReadsOwnWrite
  BY <1>2 DEF ReadsOwnWrite, R!m_rvalid, RamIInv, Seen
<1>5. s_rvalid => result # None
  BY <1>2, RamAssumption DEF RamIInv, RamTypes
<1>6. XbarRamTypeOK
  BY <1>5 DEF XbarRamTypeOK, RamIInv, RamTypes, OneAccess
<1>. QED BY <1>3, <1>4, <1>6 DEF RamInv

LEMMA StutterRam ==
  ASSUME RamIInv, UNCHANGED memoryVars PROVE RamIInv'
<1>1. UNCHANGED WP!vars /\ UNCHANGED RP!vars
  BY DEF memoryVars, WP!vars, WP!xbarVars, RP!vars, RP!readVars
<1>2. WP!IInv' /\ RP!IInv'
  BY <1>1, Assumed, WP!NextIInv, RP!NextIInv DEF RamIInv
<1>. QED
  BY <1>2
  DEF RamIInv, memoryVars, ramVars, RamTypes, Written, Kept, Seen, Carried, OneAccess, Reads,
      W!Busy

-----------------------------------------------------------------------------
(* A read returns a value the word had while the read was outstanding, and *)
(* a master that was answered its write reads it back unless the other one *)
(* has written since, whatever the two halves of the crossbar do at once   *)
(* (axi_lite_xbar.v:226-546, sram.v:27-51).                                *)
THEOREM RamIsCurrent == XbarRamSpec => []RamInv
<1>1. UNCHANGED xbarRamVars => UNCHANGED memoryVars
  BY DEF xbarRamVars, memoryVars, W!vars, W!xbarVars, R!readVars
<1>2. RamIInv /\ [XbarRamNext]_xbarRamVars => RamIInv'
  BY <1>1, NextRam, StutterRam
<1>. QED BY <1>2, InitRam, RamInvHolds, PTL DEF XbarRamSpec

(* The same of the half of the checked model in which the RAM runs.        *)
THEOREM MemoryInvariant == MCSpec => []MemoryInv
<1>. DEFINE I == half = "memory" => RamIInv
<1>1. MCInit => I
  BY InitRam DEF MCInit
<1>2. ASSUME I, [MCNext]_MCVars PROVE I'
  <2>. SUFFICES ASSUME half' = "memory" PROVE RamIInv'
    OBVIOUS
  <2>1. CASE MemoryStep
    BY <1>2, <2>1, NextRam DEF MemoryStep
  <2>2. CASE BenchStep
    BY <2>2 DEF BenchStep
  <2>3. ASSUME half' = half, UNCHANGED memoryVars PROVE RamIInv'
    BY <1>2, <2>3, StutterRam
  <2>4. CASE CoreStep(Next)
    BY <2>4 DEF CoreStep
  <2>5. CASE UNCHANGED MCVars
    <3>1. half' = half /\ UNCHANGED memoryVars
      BY <2>5 DEF MCVars
    <3>. QED BY <2>3, <3>1
  <2>. QED BY <1>2, <2>1, <2>2, <2>4, <2>5 DEF MCNext
<1>3. I => MemoryInv
  BY RamInvHolds DEF MemoryInv
<1>. HIDE DEF I
<1>. QED BY <1>1, <1>2, <1>3, PTL DEF MCSpec

-----------------------------------------------------------------------------
(* The benches.  A call on the crossbar is one access of one half, the     *)
(* other half rests.  WriteAt and ReadAt say how far it is, in edges, and  *)
(* so bound the clocks a call has taken.                                   *)
OnBus == dut = "xbar_testtop"

WriteAt == CASE w_state = "IDLE" -> 0 [] w_state = "ISSUE" -> 1 [] w_state = "WAIT_B" -> 2
             [] OTHER -> IF s_bvalid THEN 4 ELSE 3
ReadAt  == CASE r_state = "IDLE" -> 0 [] r_state = "ISSUE" -> 1 [] r_state = "WAIT_R" -> 2
             [] OTHER -> IF s_rvalid THEN 4 ELSE 3

Requesting(m) == mst[m].aw = "valid" \/ mst[m].w = "valid"

WriteRests ==
  /\ w_state = "IDLE" /\ ~w_have_aw /\ ~w_have_w /\ s_bvalid = FALSE
  /\ \A s \in RealSlaves : slv[s].b = None
ReadRests ==
  /\ r_state = "IDLE" /\ s_rvalid = FALSE
  /\ \A s \in RealSlaves : rslv[s].r = None

(* A write of d to a is on its way for m, a read of a for s0.              *)
WriteCode(a) == CASE decode_addr(a) = SLAVE_ERR -> DECERR
                  [] decode_addr(a) = XBAR_CSR  -> SLVERR
                  [] OTHER -> OKAY
ReadCode(a) == IF decode_addr(a) = SLAVE_ERR THEN DECERR ELSE OKAY

WriteOnWay(m, a, d) ==
  /\ w_state \in {"IDLE", "ISSUE", "WAIT_B", "RESP"} /\ ~w_have_aw /\ ~w_have_w
  /\ w_state # "IDLE" =>
       w_grant = m /\ w_addr_lat = a /\ w_data_lat = d /\ w_sel = decode_addr(a)
  /\ w_state = "ISSUE" => ~w_issued_aw /\ ~w_issued_w
  /\ w_state = "WAIT_B" => decode_addr(a) \in RealSlaves
  /\ s_bvalid \in BOOLEAN /\ (s_bvalid => w_state = "RESP")
  /\ \A s \in RealSlaves :
       slv[s].b = IF w_state = "WAIT_B" /\ s = decode_addr(a) THEN OKAY ELSE None
  /\ w_state = "RESP" /\ (s_bvalid \/ decode_addr(a) \in RealSlaves) => s_bresp = WriteCode(a)

ReadOnWay(a) ==
  /\ r_state \in {"IDLE", "ISSUE", "WAIT_R", "RESP"}
  /\ r_state # "IDLE" => r_grant = "s0" /\ r_addr_lat = a /\ r_sel = decode_addr(a)
  /\ r_state = "ISSUE" => ~r_issued_ar
  /\ r_state = "WAIT_R" => decode_addr(a) \in RealSlaves /\ ram_q = mem[Bench!cell(a)]
  /\ s_rvalid \in BOOLEAN /\ (s_rvalid => r_state = "RESP")
  /\ \A s \in RealSlaves :
       rslv[s].r = IF r_state = "WAIT_R" /\ s = decode_addr(a)
                   THEN [from |-> s, at |-> a] ELSE None
  /\ r_state = "RESP" /\ decode_addr(a) \in RealSlaves =>
       /\ s_rdata = [from |-> decode_addr(a), at |-> a] /\ result = mem[Bench!cell(a)]
       /\ s_rresp = OKAY
  /\ s_rvalid => s_rresp = ReadCode(a)
  /\ s_rvalid /\ decode_addr(a) = SLAVE_ERR => s_rdata.from = "ZERO" /\ s_rdata.at = None
  /\ s_rvalid /\ decode_addr(a) = XBAR_CSR =>
       /\ s_rdata.from \notin RealSlaves
       /\ s_rdata.at = IF CsrWord(a) = 1 THEN last_decerr_raddr ELSE last_decerr_waddr

Landed(a) == decode_addr(a) \in RealSlaves /\ w_state \in {"WAIT_B", "RESP"}
Missed(a) == decode_addr(a) = SLAVE_ERR /\ w_state # "IDLE"
ReadMissed(a) == decode_addr(a) = SLAVE_ERR /\ r_state # "IDLE"

(* Every mapped word is what the bench expects, but for the one write that *)
(* is on its way.                                                          *)
Stored == \A b \in Bench!Reach : Bench!Mapped(b) => mem[Bench!cell(b)] = expected[b]
StoredBut(a, d) ==
  /\ \A b \in Bench!Reach \ {a} : Bench!Mapped(b) => mem[Bench!cell(b)] = expected[b]
  /\ Landed(a) => mem[Bench!cell(a)] = d

Holds(m, a, d) == /\ mst[m].aw = "valid" /\ mst[m].w = "valid"
                  /\ mst[m].addr = a /\ mst[m].data = d
Recorded == last_decerr_waddr = missed.w /\ last_decerr_raddr = missed.r

BusRests == WriteRests /\ ReadRests /\ ~Requesting("s0") /\ ~Requesting("s1")
            /\ rmst["s0"].ar # "valid" /\ rmst["s1"].ar # "valid"
NobodyReads == ReadRests /\ rmst["s0"].ar # "valid" /\ rmst["s1"].ar # "valid"

Judged ==
  /\ OnBus => BusRests /\ Recorded
  /\ Stored /\ Bench!BenchPasses

SlaveCall ==
  /\ call.op \in {"read", "write"} /\ call.phase = "go"
  /\ call.addr \in Bench!Reach /\ call.clocks = 0 /\ call.moved = 0 /\ call.pulses = 0
  /\ call.op = "write" => Holds("s0", call.addr, call.data)
                          /\ call.data \in Bench!Word
                          /\ (dut # "sram" => call.strb = BenchLanes)
  /\ call.op = "read" => rmst["s0"].ar = "valid"
  /\ Stored

OneWrite ==
  /\ call.phase = "go" /\ call.addr \in Bench!Reach /\ call.data \in Bench!Word
  /\ Holds("s0", call.addr, call.data) /\ ~Requesting("s1")
  /\ WriteOnWay("s0", call.addr, call.data) /\ NobodyReads
  /\ StoredBut(call.addr, call.data)
  /\ call.clocks \in Nat /\ call.clocks <= WriteAt
  /\ call.got = s_bvalid /\ (call.got => call.resp = WriteCode(call.addr))
  /\ call.moved = (IF Landed(call.addr) THEN 1 ELSE 0)
  /\ call.pulses = (IF Missed(call.addr) THEN 1 ELSE 0)
  /\ last_decerr_waddr = (IF Missed(call.addr) THEN call.addr ELSE missed.w)
  /\ last_decerr_raddr = missed.r

ReadData(a) == IF decode_addr(a) \in RealSlaves THEN expected[a]
               ELSE IF CsrWord(a) = 1 THEN last_decerr_raddr ELSE last_decerr_waddr
OneRead ==
  /\ call.phase = "go" /\ call.addr \in Bench!Reach
  /\ rmst["s0"].ar = "valid" /\ rmst["s0"].addr = call.addr /\ rmst["s1"].ar # "valid"
  /\ WriteRests /\ ~Requesting("s0") /\ ~Requesting("s1")
  /\ ReadOnWay(call.addr) /\ Stored
  /\ call.clocks \in Nat /\ call.clocks <= ReadAt
  /\ call.got = s_rvalid
  /\ call.got => /\ call.resp = ReadCode(call.addr)
                 /\ decode_addr(call.addr) # SLAVE_ERR => call.data = ReadData(call.addr)
  /\ call.moved = (IF decode_addr(call.addr) \in RealSlaves /\ r_state \in {"WAIT_R", "RESP"}
                   THEN 1 ELSE 0)
  /\ call.pulses = (IF ReadMissed(call.addr) THEN 1 ELSE 0)
  /\ last_decerr_waddr = missed.w
  /\ last_decerr_raddr = (IF ReadMissed(call.addr) THEN call.addr ELSE missed.r)

(* The writes of the arbitration test, s0's and then s1's, which is made   *)
(* twice; or s1's alone.                                                   *)
RawWrites ==
  LET a == call.addr
      d == call.data
      mine == IF Landed(a) THEN 1 ELSE 0
  IN
  /\ call.phase \in {"go", "granted", "s1"} /\ (call.op = "s1" => call.phase = "s1")
  /\ a \in Bench!Reach /\ Bench!Mapped(a) /\ d \in Bench!Word /\ call.resp = OKAY
  /\ Holds("s1", a, d) /\ NobodyReads /\ Recorded
  /\ call.clocks \in Nat
  /\ call.phase = "go" =>
       /\ mst["s0"].aw = "valid" /\ mst["s0"].w = "valid"
       /\ mst["s0"].addr \in Bench!Reach /\ Bench!Mapped(mst["s0"].addr)
       /\ mst["s0"].data \in Bench!Word
       /\ WriteOnWay("s0", mst["s0"].addr, mst["s0"].data)
       /\ StoredBut(mst["s0"].addr, mst["s0"].data)
       /\ call.moved = 0 /\ call.clocks <= WriteAt
  /\ call.phase # "go" =>
       /\ ~Requesting("s0") /\ WriteOnWay("s1", a, d) /\ StoredBut(a, d)
       /\ call.moved = mine + (IF call.op = "contend" /\ call.phase = "s1" THEN 1 ELSE 0)
       /\ call.clocks <= WriteAt + (IF call.phase = "granted" THEN 5 ELSE 10)

MState == [aw : Bench!W!Beat, w : Bench!W!Beat,
           addr : Bench!Reach \union {None}, data : Bench!Word \union {None}]
CallFields == {"op", "addr", "data", "strb", "got", "resp", "clocks", "moved", "pulses",
               "phase", "ok"}
BenchTypes ==
  /\ dut \in Bench!Duts
  /\ expected \in [Bench!Reach -> Bench!Word]
  /\ mem \in [{Bench!cell(a) : a \in Bench!Reach} -> Bench!Word]
  /\ mst \in [{"s0", "s1"} -> MState]
  /\ rmst \in [{"s0", "s1"} -> [ar : {"off", "valid", "sent"}, addr : Bench!Reach \union {None}]]
  /\ missed \in [w : Bench!Reach \union {None}, r : Bench!Reach \union {None}]
  /\ DOMAIN call = CallFields
  /\ call.op \in {"none", "read", "write", "contend", "s1"}
  /\ call.got \in BOOLEAN

BenchState ==
  /\ BenchTypes
  /\ call.phase = "done" => Judged
  /\ call.phase # "done" =>
       /\ ~OnBus => SlaveCall
       /\ OnBus /\ call.op = "write" => OneWrite
       /\ OnBus /\ call.op = "read" => OneRead
       /\ OnBus /\ call.op \notin {"write", "read"} => RawWrites

BenchIInv == half = "bench" => BenchState

-----------------------------------------------------------------------------
(* The modules of the benches name slaves, codes and fields as AddrMap does. *)
LEMMA SameNames ==
  /\ Bench!RealSlaves = RealSlaves /\ Bench!W!RealSlaves = RealSlaves
  /\ Bench!R!RealSlaves = RealSlaves
  /\ Bench!OKAY = OKAY /\ Bench!SLVERR = SLVERR /\ Bench!DECERR = DECERR
  /\ Bench!W!OKAY = OKAY /\ Bench!W!SLVERR = SLVERR /\ Bench!W!DECERR = DECERR
  /\ Bench!R!OKAY = OKAY /\ Bench!R!SLVERR = SLVERR /\ Bench!R!DECERR = DECERR
  /\ Bench!SLAVE_ERR = SLAVE_ERR /\ Bench!XBAR_CSR = XBAR_CSR
  /\ Bench!W!SLAVE_ERR = SLAVE_ERR /\ Bench!W!XBAR_CSR = XBAR_CSR
  /\ Bench!R!SLAVE_ERR = SLAVE_ERR /\ Bench!R!XBAR_CSR = XBAR_CSR
  /\ \A a : /\ Bench!decode_addr(a) = decode_addr(a) /\ Bench!W!decode_addr(a) = decode_addr(a)
           /\ Bench!R!decode_addr(a) = decode_addr(a)
           /\ Bench!CsrWord(a) = CsrWord(a) /\ Bench!R!CsrWord(a) = CsrWord(a)
<1>1. ASSUME NEW a
      PROVE  /\ Bench!decode_addr(a) = decode_addr(a) /\ Bench!W!decode_addr(a) = decode_addr(a)
             /\ Bench!R!decode_addr(a) = decode_addr(a)
  BY DEF Bench!decode_addr, Bench!W!decode_addr, Bench!R!decode_addr, decode_addr,
     Bench!REGION_ROM, Bench!REGION_RAM, Bench!REGION_PERIPH, Bench!Peripherals, Bench!XBAR_CSR,
     Bench!SLAVE_ERR, Bench!W!REGION_ROM, Bench!W!REGION_RAM, Bench!W!REGION_PERIPH,
     Bench!W!Peripherals, Bench!W!XBAR_CSR, Bench!W!SLAVE_ERR, Bench!R!REGION_ROM,
     Bench!R!REGION_RAM, Bench!R!REGION_PERIPH, Bench!R!Peripherals, Bench!R!XBAR_CSR,
     Bench!R!SLAVE_ERR, REGION_ROM, REGION_RAM, REGION_PERIPH, Peripherals, XBAR_CSR, SLAVE_ERR
<1>. QED
  BY <1>1
  DEF Bench!RealSlaves, Bench!W!RealSlaves, Bench!R!RealSlaves, RealSlaves, Bench!OKAY,
      Bench!SLVERR, Bench!DECERR, Bench!W!OKAY, Bench!W!SLVERR, Bench!W!DECERR, Bench!R!OKAY,
      Bench!R!SLVERR, Bench!R!DECERR, OKAY, SLVERR, DECERR, Bench!SLAVE_ERR, Bench!XBAR_CSR,
      Bench!W!SLAVE_ERR, Bench!W!XBAR_CSR, Bench!R!SLAVE_ERR, Bench!R!XBAR_CSR, SLAVE_ERR,
      XBAR_CSR, Bench!CsrWord, Bench!R!CsrWord, CsrWord

(* The response codes are not None, and a target is a slave or one of two. *)
LEMMA Codes ==
  /\ OKAY # None /\ SLVERR # None /\ DECERR # None
  /\ SLAVE_ERR \notin RealSlaves /\ XBAR_CSR \notin RealSlaves /\ SLAVE_ERR # XBAR_CSR
  /\ \A t \in Targets : t \in RealSlaves \/ t = SLAVE_ERR \/ t = XBAR_CSR
BY RamAssumption DEF Resp, OKAY, SLVERR, DECERR, SLAVE_ERR, XBAR_CSR, RealSlaves, Targets

-----------------------------------------------------------------------------
(* One edge of the write half for the writer m.                            *)
LEMMA WriteEdge ==
  ASSUME NEW m \in {"s0", "s1"}, NEW a, NEW d, WriteOnWay(m, a, d),
         mst[m].aw = "valid", mst[m].w = "valid", mst[m].addr = a, mst[m].data = d,
         m = "s1" => ~Requesting("s0"), decode_addr(a) \in Targets, Bench!XbarEdge
  PROVE  /\ w_state' = CASE w_state = "IDLE" -> "ISSUE"
                         [] w_state = "ISSUE" -> IF decode_addr(a) \in RealSlaves
                                                 THEN "WAIT_B" ELSE "RESP"
                         [] w_state = "WAIT_B" -> "RESP"
                         [] OTHER -> IF s_bvalid THEN "IDLE" ELSE "RESP"
         /\ s_bvalid' = (w_state = "RESP" /\ ~s_bvalid)
         /\ ~w_have_aw' /\ ~w_have_w'
         /\ last_decerr_waddr' = (IF w_state = "IDLE" /\ decode_addr(a) = SLAVE_ERR
                                  THEN a ELSE last_decerr_waddr)
         /\ decerr_irq_w' = (w_state = "IDLE" /\ decode_addr(a) = SLAVE_ERR)
         /\ w_state' # "IDLE" => w_grant' = m /\ w_addr_lat' = a /\ w_data_lat' = d
                                 /\ w_sel' = decode_addr(a)
         /\ w_state' = "ISSUE" => ~w_issued_aw' /\ ~w_issued_w'
         /\ w_state' = "RESP" /\ (s_bvalid' \/ decode_addr(a) \in RealSlaves) =>
              s_bresp' = WriteCode(a)
<1>. USE SameNames, Codes
     DEF WriteOnWay, WriteCode, Bench!XbarEdge, Bench!W!WritePath, Bench!W!local_target,
         Bench!W!UpdateGrant, Bench!W!w_open
<1>1. CASE w_state = "IDLE"
  <2>1. Bench!W!WIdle /\ Bench!W!w_arb = m /\ Bench!W!w_grant_eff = m
    BY <1>1 DEF Bench!W!WIdle, Bench!W!WIssue, Bench!W!WWaitB, Bench!W!WResp, Bench!W!w_arb,
        Bench!W!w_grant_eff, Bench!W!w_open, Bench!W!Requests, Requesting
  <2>2. Bench!W!aw_fire /\ Bench!W!w_fire
    BY <1>1, <2>1 DEF Bench!W!aw_fire, Bench!W!w_fire, Bench!W!cur_awready, Bench!W!cur_wready
  <2>. QED
    BY <1>1, <2>1, <2>2 DEF Bench!W!WIdle, Bench!W!aw_ready_c, Bench!W!w_ready_c, Bench!W!w_miss,
       Bench!W!cur_awaddr, Bench!W!cur_wdata
<1>2. CASE w_state = "ISSUE"
  <2>1. Bench!W!WIssue(TRUE, TRUE)
    BY <1>2 DEF Bench!W!WIdle, Bench!W!WWaitB, Bench!W!WResp
  <2>. QED BY <1>2, <2>1 DEF Bench!W!WIssue, Bench!W!w_both_issued
<1>3. CASE w_state = "WAIT_B"
  <2>1. Bench!W!WWaitB /\ Bench!W!w_slave_b = OKAY
    BY <1>3 DEF Bench!W!WIdle, Bench!W!WIssue, Bench!W!WResp, Bench!W!w_slave_b
  <2>. QED BY <1>3, <2>1 DEF Bench!W!WWaitB
<1>4. CASE w_state = "RESP"
  <2>1. Bench!W!WResp(TRUE)
    BY <1>4 DEF Bench!W!WIdle, Bench!W!WIssue, Bench!W!WWaitB
  <2>. QED BY <1>4, <2>1 DEF Bench!W!WResp, Bench!W!resp_code
<1>. QED BY <1>1, <1>2, <1>3, <1>4

(* The fake slaves on that edge.                                           *)
LEMMA WriteLands ==
  ASSUME NEW m \in {"s0", "s1"}, NEW a, NEW d, WriteOnWay(m, a, d), Bench!XbarEdge
  PROVE  /\ \A s \in RealSlaves :
              (Bench!W!do_write(s) <=> w_state = "ISSUE" /\ s = decode_addr(a))
         /\ \A s \in RealSlaves :
              slv'[s].b = IF w_state = "ISSUE" /\ s = decode_addr(a) THEN OKAY ELSE None
         /\ mem' = IF w_state = "ISSUE" /\ decode_addr(a) \in RealSlaves
                   THEN [mem EXCEPT ![Bench!cell(a)] = d] ELSE mem
<1>1. ASSUME NEW s \in RealSlaves
      PROVE  Bench!W!do_write(s) <=> w_state = "ISSUE" /\ s = decode_addr(a)
  BY DEF Bench!W!do_write, Bench!W!slv_awvalid, Bench!W!slv_wvalid, WriteOnWay
<1>2. ASSUME NEW s \in RealSlaves
      PROVE  slv'[s].b = IF w_state = "ISSUE" /\ s = decode_addr(a) THEN OKAY ELSE None
  BY <1>1, SameNames DEF Bench!XbarEdge
<1>3. mem' = IF w_state = "ISSUE" /\ decode_addr(a) \in RealSlaves
             THEN [mem EXCEPT ![Bench!cell(a)] = d] ELSE mem
  <2>1. CASE w_state = "ISSUE" /\ decode_addr(a) \in RealSlaves
    <3>1. \E s \in RealSlaves : Bench!W!do_write(s)
      BY <1>1, <2>1
    <3>2. w_addr_lat = a /\ w_data_lat = d
      BY <2>1 DEF WriteOnWay
    <3>. QED BY <2>1, <3>1, <3>2, SameNames DEF Bench!XbarEdge, Bench!next_fake
  <2>2. CASE ~(w_state = "ISSUE" /\ decode_addr(a) \in RealSlaves)
    <3>1. ~\E s \in RealSlaves : Bench!W!do_write(s)
      BY <1>1, <2>2
    <3>. QED BY <2>2, <3>1, SameNames DEF Bench!XbarEdge, Bench!next_fake
  <2>. QED BY <2>1, <2>2
<1>. QED BY <1>1, <1>2, <1>3

(* So the write goes on, or ends.                                          *)
LEMMA WriteGoesOn ==
  ASSUME NEW m \in {"s0", "s1"}, NEW a, NEW d, WriteOnWay(m, a, d),
         mst[m].aw = "valid", mst[m].w = "valid", mst[m].addr = a, mst[m].data = d,
         m = "s1" => ~Requesting("s0"), decode_addr(a) \in Targets, Bench!XbarEdge
  PROVE  IF w_state = "RESP" /\ s_bvalid THEN WriteRests'
         ELSE /\ WriteOnWay(m, a, d)'
              /\ WriteAt \in 0 .. 4 /\ WriteAt' \in 0 .. 4 /\ WriteAt' >= WriteAt + 1
<1>. USE WriteEdge, WriteLands DEF WriteOnWay
<1>1. CASE w_state = "RESP" /\ s_bvalid
  BY <1>1 DEF WriteRests
<1>2. CASE ~(w_state = "RESP" /\ s_bvalid)
  <2>1. WriteOnWay(m, a, d)'
    BY <1>2
  <2>2. WriteAt \in 0 .. 4 /\ WriteAt' \in 0 .. 4 /\ WriteAt' >= WriteAt + 1
    <3>. HIDE WriteEdge, WriteLands DEF WriteOnWay
    <3>1. WriteOnWay(m, a, d) /\ WriteOnWay(m, a, d)'
      BY <2>1
    <3>2. /\ w_state = "IDLE" => w_state' = "ISSUE" /\ ~s_bvalid'
          /\ w_state = "ISSUE" => w_state' \in {"WAIT_B", "RESP"} /\ ~s_bvalid'
          /\ w_state = "WAIT_B" => w_state' = "RESP" /\ ~s_bvalid'
          /\ w_state = "RESP" => w_state' = "RESP" /\ s_bvalid' /\ ~s_bvalid
      BY <1>2, WriteEdge
    <3>. QED BY <3>1, <3>2 DEF WriteAt, WriteOnWay
  <2>. QED BY <1>2, <2>1, <2>2
<1>. QED BY <1>1, <1>2

(* Without a request the write half rests.                                 *)
LEMMA WriteStays ==
  ASSUME WriteRests, ~Requesting("s0"), ~Requesting("s1"), Bench!XbarEdge
  PROVE  /\ WriteRests' /\ last_decerr_waddr' = last_decerr_waddr /\ ~decerr_irq_w'
         /\ \A s \in RealSlaves : ~Bench!W!do_write(s)
         /\ mem' = mem
<1>. USE DEF WriteRests, Bench!XbarEdge
<1>1. ASSUME NEW s \in RealSlaves PROVE ~Bench!W!do_write(s)
  BY DEF Bench!W!do_write, Bench!W!slv_awvalid
<1>2. mem' = mem /\ \A s \in RealSlaves : slv'[s].b = None
  BY <1>1, SameNames DEF Bench!next_fake
<1>3. Bench!W!WIdle
  BY DEF Bench!W!WritePath, Bench!W!WIssue, Bench!W!WWaitB, Bench!W!WResp
<1>4. ~Bench!W!aw_fire /\ ~Bench!W!w_fire
  BY DEF Bench!W!aw_fire, Bench!W!w_fire, Bench!W!w_grant_eff, Bench!W!w_open, Bench!W!w_arb,
     Bench!W!Requests, Requesting
<1>. QED
  BY <1>1, <1>2, <1>3, <1>4
  DEF Bench!W!WIdle, Bench!W!aw_ready_c, Bench!W!w_ready_c, Bench!W!w_miss

(* The same of the read half, for the one master that reads.               *)
LEMMA ReadEdge ==
  ASSUME NEW a \in BenchAddr, ReadOnWay(a), rmst["s0"].ar = "valid", rmst["s0"].addr = a,
         decode_addr(a) \in Targets, Bench!XbarEdge
  PROVE  /\ r_state = "IDLE" => r_state' = "ISSUE"
         /\ r_state = "ISSUE" => r_state' = IF decode_addr(a) \in RealSlaves
                                           THEN "WAIT_R" ELSE "RESP"
         /\ r_state = "WAIT_R" => r_state' = "RESP"
         /\ r_state = "RESP" => r_state' = IF s_rvalid THEN "IDLE" ELSE "RESP"
         /\ s_rvalid' = (r_state = "RESP" /\ ~s_rvalid)
         /\ last_decerr_raddr' = (IF r_state = "IDLE" /\ decode_addr(a) = SLAVE_ERR
                                  THEN a ELSE last_decerr_raddr)
         /\ decerr_irq_r' = (r_state = "IDLE" /\ decode_addr(a) = SLAVE_ERR)
         /\ r_state' # "IDLE" => r_grant' = "s0" /\ r_addr_lat' = a /\ r_sel' = decode_addr(a)
         /\ r_state' = "ISSUE" => ~r_issued_ar'
         /\ r_state = "WAIT_R" => /\ s_rdata' = [from |-> decode_addr(a), at |-> a]
                                 /\ s_rresp' = OKAY
         /\ r_state = "RESP" /\ decode_addr(a) \in RealSlaves =>
              s_rdata' = s_rdata /\ s_rresp' = s_rresp
         /\ s_rvalid' => s_rresp' = ReadCode(a)
         /\ s_rvalid' /\ decode_addr(a) = SLAVE_ERR => s_rdata'.from = "ZERO" /\ s_rdata'.at = None
         /\ s_rvalid' /\ decode_addr(a) = XBAR_CSR =>
              /\ s_rdata'.from \notin RealSlaves
              /\ s_rdata'.at = IF CsrWord(a) = 1 THEN last_decerr_raddr ELSE last_decerr_waddr
<1>. USE SameNames, Codes
     DEF ReadOnWay, ReadCode, Bench!XbarEdge, Bench!R!ReadPath, Bench!R!UpdateGrant, Bench!R!r_open
<1>1. CASE r_state = "IDLE"
  <2>1. Bench!R!RIdle /\ Bench!R!r_arb = "s0" /\ Bench!R!r_grant_eff = "s0"
    BY <1>1 DEF Bench!R!RIdle, Bench!R!RIssue, Bench!R!RWaitR, Bench!R!RResp, Bench!R!r_arb,
        Bench!R!r_grant_eff, Bench!R!ReadRequests
  <2>. QED
    BY <1>1, <2>1 DEF Bench!R!RIdle, Bench!R!cur_arvalid, Bench!R!cur_araddr, Bench!R!r_miss
<1>2. CASE r_state = "ISSUE"
  <2>1. Bench!R!RIssue(TRUE)
    BY <1>2 DEF Bench!R!RIdle, Bench!R!RWaitR, Bench!R!RResp
  <2>. QED BY <1>2, <2>1 DEF Bench!R!RIssue
<1>3. CASE r_state = "WAIT_R"
  <2>1. Bench!R!RWaitR
    BY <1>3 DEF Bench!R!RIdle, Bench!R!RIssue, Bench!R!RResp
  <2>2. Bench!R!r_slave_r = [from |-> decode_addr(a), at |-> a] /\ Bench!R!r_slave_r # None
    BY <1>3, BenchAssumption DEF Bench!R!r_slave_r
  <2>. QED BY <1>3, <2>1, <2>2 DEF Bench!R!RWaitR
<1>4. CASE r_state = "RESP"
  <2>1. Bench!R!RResp(TRUE)
    BY <1>4 DEF Bench!R!RIdle, Bench!R!RIssue, Bench!R!RWaitR
  <2>2. "ZERO" \notin RealSlaves /\ "LAST_RADDR" \notin RealSlaves /\ "LAST_WADDR" \notin RealSlaves
    BY DEF RealSlaves
  <2>3. CASE decode_addr(a) \in RealSlaves
    BY <1>4, <2>1, <2>3 DEF Bench!R!RResp
  <2>4. CASE decode_addr(a) = SLAVE_ERR
    <3>1. s_rvalid' = (~s_rvalid)
      BY <1>4, <2>1 DEF Bench!R!RResp
    <3>2. ~s_rvalid => s_rdata' = Bench!R!Zero /\ s_rresp' = DECERR
      BY <1>4, <2>1, <2>4 DEF Bench!R!RResp
    <3>3. Bench!R!Zero.from = "ZERO" /\ Bench!R!Zero.at = None
      BY DEF Bench!R!Zero
    <3>. QED BY <1>4, <2>1, <2>4, <3>1, <3>2, <3>3 DEF Bench!R!RResp
  <2>5. CASE decode_addr(a) = XBAR_CSR
    <3>1. s_rvalid' = (~s_rvalid)
      BY <1>4, <2>1 DEF Bench!R!RResp
    <3>2. ~s_rvalid => s_rdata' = Bench!R!csr_data /\ s_rresp' = OKAY
      BY <1>4, <2>1, <2>5 DEF Bench!R!RResp
    <3>3. /\ Bench!R!csr_data.from \notin RealSlaves
          /\ Bench!R!csr_data.at = IF CsrWord(a) = 1 THEN last_decerr_raddr ELSE last_decerr_waddr
      BY <1>4, <2>2 DEF Bench!R!csr_data
    <3>. QED BY <1>4, <2>1, <2>5, <3>1, <3>2, <3>3 DEF Bench!R!RResp
  <2>. QED BY <2>3, <2>4, <2>5
<1>. QED BY <1>1, <1>2, <1>3, <1>4

LEMMA ReadFetches ==
  ASSUME NEW a \in BenchAddr, ReadOnWay(a), Bench!XbarEdge
  PROVE  /\ \A s \in RealSlaves :
              (Bench!R!slv_arvalid(s) <=> r_state = "ISSUE" /\ s = decode_addr(a))
         /\ \A s \in RealSlaves :
              rslv'[s].r = IF r_state = "ISSUE" /\ s = decode_addr(a)
                           THEN [from |-> s, at |-> a] ELSE None
         /\ r_state = "ISSUE" /\ decode_addr(a) \in RealSlaves => ram_q' = mem[Bench!cell(a)]
         /\ result' = IF r_state = "WAIT_R" THEN ram_q ELSE result
<1>1. ASSUME NEW s \in RealSlaves
      PROVE  Bench!R!slv_arvalid(s) <=> r_state = "ISSUE" /\ s = decode_addr(a)
  BY DEF Bench!R!slv_arvalid, ReadOnWay
<1>2. ASSUME NEW s \in RealSlaves
      PROVE  rslv'[s].r = IF r_state = "ISSUE" /\ s = decode_addr(a)
                          THEN [from |-> s, at |-> a] ELSE None
  BY <1>1, SameNames DEF Bench!XbarEdge, Bench!R!FastReadNext, Bench!R!Location, ReadOnWay
<1>3. ASSUME r_state = "ISSUE", decode_addr(a) \in RealSlaves PROVE ram_q' = mem[Bench!cell(a)]
  <2>1. \E s \in RealSlaves : Bench!R!slv_arvalid(s)
    BY <1>1, <1>3
  <2>2. r_addr_lat = a
    BY <1>3 DEF ReadOnWay
  <2>. QED BY <2>1, <2>2, SameNames DEF Bench!XbarEdge
<1>. QED BY <1>1, <1>2, <1>3 DEF Bench!XbarEdge

LEMMA ReadGoesOn ==
  ASSUME NEW a \in BenchAddr, ReadOnWay(a), rmst["s0"].ar = "valid", rmst["s0"].addr = a,
         decode_addr(a) \in Targets, Bench!XbarEdge, UNCHANGED <<mem, dut, last_decerr_waddr>>
  PROVE  IF r_state = "RESP" /\ s_rvalid THEN ReadRests'
         ELSE /\ ReadOnWay(a)'
              /\ ReadAt \in 0 .. 4 /\ ReadAt' \in 0 .. 4 /\ ReadAt' >= ReadAt + 1
<1>1. CASE r_state = "RESP" /\ s_rvalid
  BY <1>1, ReadEdge, ReadFetches DEF ReadRests
<1>2. CASE ~(r_state = "RESP" /\ s_rvalid)
  <2>1. /\ r_state = "IDLE" => r_state' = "ISSUE" /\ ~s_rvalid'
        /\ r_state = "ISSUE" => r_state' \in {"WAIT_R", "RESP"} /\ ~s_rvalid'
        /\ r_state = "WAIT_R" => r_state' = "RESP" /\ ~s_rvalid'
        /\ r_state = "RESP" => r_state' = "RESP" /\ s_rvalid' /\ ~s_rvalid
    BY <1>2, ReadEdge
  <2>2. Bench!cell(a)' = Bench!cell(a)
    BY DEF Bench!cell
  <2>3. r_state' = "RESP" /\ r_state = "RESP" => last_decerr_raddr' = last_decerr_raddr
    BY ReadEdge
  <2>4. ReadOnWay(a)'
    BY <1>2, <2>1, <2>2, <2>3, ReadEdge, ReadFetches DEF ReadOnWay
  <2>5. ReadAt \in 0 .. 4 /\ ReadAt' \in 0 .. 4 /\ ReadAt' >= ReadAt + 1
    BY <1>2, <2>1, <2>4 DEF ReadAt, ReadOnWay
  <2>. QED BY <1>2, <2>4, <2>5
<1>. QED BY <1>1, <1>2

LEMMA ReadStays ==
  ASSUME ReadRests, rmst["s0"].ar # "valid", rmst["s1"].ar # "valid", Bench!XbarEdge
  PROVE  /\ ReadRests' /\ last_decerr_raddr' = last_decerr_raddr /\ ~decerr_irq_r'
         /\ \A s \in RealSlaves : ~Bench!R!slv_arvalid(s)
<1>. USE DEF ReadRests, Bench!XbarEdge
<1>1. ASSUME NEW s \in RealSlaves PROVE ~Bench!R!slv_arvalid(s)
  BY DEF Bench!R!slv_arvalid
<1>2. \A s \in RealSlaves : rslv'[s].r = None
  BY <1>1, SameNames DEF Bench!R!FastReadNext
<1>3. Bench!R!RIdle
  BY DEF Bench!R!ReadPath, Bench!R!RIssue, Bench!R!RWaitR, Bench!R!RResp
<1>4. ~Bench!R!cur_arvalid
  BY DEF Bench!R!cur_arvalid, Bench!R!r_grant_eff, Bench!R!r_open, Bench!R!r_arb,
     Bench!R!ReadRequests
<1>. QED BY <1>1, <1>2, <1>3, <1>4 DEF Bench!R!RIdle, Bench!R!r_miss

(* What passes to the slaves on an edge is counted.                        *)
LEMMA Passes ==
  ASSUME Bench!XbarEdge
  PROVE  /\ \A m \in {"s0", "s1"} : \A a, d :
              WriteOnWay(m, a, d) /\ NobodyReads =>
                Bench!transfers = IF w_state = "ISSUE" /\ decode_addr(a) \in RealSlaves
                                  THEN 1 ELSE 0
         /\ \A a \in BenchAddr :
              ReadOnWay(a) /\ WriteRests /\ ~Requesting("s0") /\ ~Requesting("s1") =>
                Bench!transfers = IF r_state = "ISSUE" /\ decode_addr(a) \in RealSlaves
                                  THEN 1 ELSE 0
<1>. USE SameNames DEF Bench!transfers, Bench!Count
<1>1. ASSUME NEW m \in {"s0", "s1"}, NEW a, NEW d, WriteOnWay(m, a, d), NobodyReads
      PROVE  Bench!transfers = IF w_state = "ISSUE" /\ decode_addr(a) \in RealSlaves
                               THEN 1 ELSE 0
  <2>1. \A s \in RealSlaves : ~Bench!R!slv_arvalid(s)
    BY <1>1, ReadStays DEF NobodyReads
  <2>2. \A s \in RealSlaves : Bench!W!do_write(s) <=> w_state = "ISSUE" /\ s = decode_addr(a)
    BY <1>1, WriteLands
  <2>. QED BY <2>1, <2>2
<1>2. ASSUME NEW a \in BenchAddr, ReadOnWay(a), WriteRests, ~Requesting("s0"), ~Requesting("s1")
      PROVE  Bench!transfers = IF r_state = "ISSUE" /\ decode_addr(a) \in RealSlaves
                               THEN 1 ELSE 0
  <2>1. \A s \in RealSlaves : ~Bench!W!do_write(s)
    BY <1>2, WriteStays
  <2>2. \A s \in RealSlaves : Bench!R!slv_arvalid(s) <=> r_state = "ISSUE" /\ s = decode_addr(a)
    BY <1>2, ReadFetches
  <2>. QED BY <2>1, <2>2
<1>. QED BY <1>1, <1>2

-----------------------------------------------------------------------------
(* Addresses: what is behind them, and that no two are the same word.      *)
LEMMA Cells ==
  ASSUME dut \in Bench!Duts
  PROVE  /\ \A a \in Bench!Reach : decode_addr(a) \in Targets
         /\ OnBus => /\ Bench!Reach = BenchAddr
                     /\ \A a : /\ Bench!Target(a) = decode_addr(a)
                              /\ Bench!Mapped(a) <=> decode_addr(a) \in RealSlaves
         /\ ~OnBus => \A a : Bench!Target(a) \in {"ROM", "RAM"} /\ Bench!Mapped(a)
         /\ \A a, b \in Bench!Reach :
              Bench!Mapped(a) /\ Bench!Mapped(b) /\ Bench!cell(a) = Bench!cell(b) => a = b
<1>. USE SameNames
<1>1. Bench!Reach = IF OnBus THEN BenchAddr ELSE BenchWordAddr
  BY DEF Bench!Reach, OnBus
<1>2. ASSUME NEW a \in Bench!Reach PROVE decode_addr(a) \in Targets
  <2>1. a \in AddrSpace
    BY <1>1, BenchAssumption
  <2>2. a.page \in 0 .. 15
    BY <2>1 DEF AddrSpace
  <2>3. ASSUME a.page <= 7 PROVE Peripherals[a.page + 1] \in Targets
    BY <2>2, <2>3 DEF Peripherals, Targets, RealSlaves, XBAR_CSR
  <2>. QED BY <2>3 DEF decode_addr, Targets, RealSlaves, SLAVE_ERR
<1>3. ASSUME OnBus
      PROVE  \A a : /\ Bench!Target(a) = decode_addr(a)
                   /\ Bench!Mapped(a) <=> decode_addr(a) \in RealSlaves
  BY <1>3 DEF OnBus, Bench!Target, Bench!Mapped
<1>4. ASSUME ~OnBus PROVE \A a : Bench!Target(a) \in {"ROM", "RAM"} /\ Bench!Mapped(a)
  BY <1>4 DEF OnBus, Bench!Target, Bench!Mapped, RealSlaves
<1>5. ASSUME NEW a \in Bench!Reach, NEW b \in Bench!Reach, Bench!Mapped(a), Bench!Mapped(b),
             Bench!cell(a) = Bench!cell(b)
      PROVE  a = b
  <2>1. CASE OnBus
    <3>1. decode_addr(a) = decode_addr(b) /\ a.word % 16 = b.word % 16
      BY <1>5, <2>1 DEF Bench!cell, OnBus
    <3>2. a \in BenchAddr /\ b \in BenchAddr
      BY <1>1, <1>5, <2>1
    <3>3. decode_addr(a) \in RealSlaves
      BY <1>5, <2>1 DEF OnBus, Bench!Mapped, Bench!Target
    <3>. QED BY <3>1, <3>2, <3>3, BenchAssumption
  <2>2. CASE ~OnBus
    <3>1. dut \in {"fake_axi_lite_slave", "sram", "boot_rom"}
      BY <2>2 DEF OnBus, Bench!Duts
    <3>2. a.word % 16 = b.word % 16
      BY <1>5, <3>1 DEF Bench!cell
    <3>. QED BY <1>1, <2>2, <3>2, BenchAssumption
  <2>. QED BY <2>1, <2>2
<1>. QED BY <1>1, <1>2, <1>3, <1>4, <1>5

LEMMA SameDut ==
  ASSUME UNCHANGED dut
  PROVE  /\ Bench!Reach' = Bench!Reach /\ (OnBus' <=> OnBus)
         /\ \A a : /\ Bench!cell(a)' = Bench!cell(a) /\ Bench!Target(a)' = Bench!Target(a)
                  /\ (Bench!Mapped(a)' <=> Bench!Mapped(a))
BY DEF Bench!Reach, OnBus, Bench!cell, Bench!Target, Bench!Mapped

LEMMA BeatsChange ==
  ASSUME mst \in [{"s0", "s1"} -> MState], NEW m \in {"s0", "s1"},
         NEW x \in Bench!W!Beat, NEW y \in Bench!W!Beat
  PROVE  [mst EXCEPT ![m].aw = x, ![m].w = y] \in [{"s0", "s1"} -> MState]
<1>1. mst[m] \in MState
  OBVIOUS
<1>2. [mst[m] EXCEPT !.aw = x, !.w = y] \in MState
  BY <1>1 DEF MState
<1>3. [mst EXCEPT ![m].aw = x, ![m].w = y] = [mst EXCEPT ![m] = [mst[m] EXCEPT !.aw = x, !.w = y]]
  OBVIOUS
<1>. QED BY <1>2, <1>3

(* What a bench knows of a whole word it has written.                      *)
LEMMA Known ==
  ASSUME OnBus, NEW a, NEW d \in Bench!Word
  PROVE  Bench!Know(a, d, BenchLanes) =
           IF decode_addr(a) \in RealSlaves THEN [expected EXCEPT ![a] = d] ELSE expected
<1>1. ASSUME NEW old PROVE [l \in BenchLanes |-> IF l \in BenchLanes THEN d[l] ELSE old[l]] = d
  BY DEF Bench!Word
<1>. QED BY <1>1, SameNames DEF Bench!Know, OnBus, Bench!Target

(* The words behind a write that goes on, and behind one that ends.        *)
LEMMA StoredGoesOn ==
  ASSUME BenchTypes, OnBus, NEW a \in Bench!Reach, NEW d \in Bench!Word, StoredBut(a, d),
         mem' = IF w_state = "ISSUE" /\ decode_addr(a) \in RealSlaves
                THEN [mem EXCEPT ![Bench!cell(a)] = d] ELSE mem,
         Landed(a)' => w_state = "ISSUE" \/ Landed(a),
         UNCHANGED <<dut, expected>>
  PROVE  StoredBut(a, d)'
<1>1. mem \in [{Bench!cell(b) : b \in Bench!Reach} -> Bench!Word]
  BY DEF BenchTypes
<1>2. ASSUME NEW b \in Bench!Reach, b # a, Bench!Mapped(b)
      PROVE  mem'[Bench!cell(b)] = expected[b]
  <2>1. mem[Bench!cell(b)] = expected[b]
    BY <1>2 DEF StoredBut
  <2>2. CASE w_state = "ISSUE" /\ decode_addr(a) \in RealSlaves
    <3>1. Bench!Mapped(a)
      BY <2>2, SameNames DEF OnBus, Bench!Mapped, Bench!Target
    <3>2. Bench!cell(a) # Bench!cell(b)
      BY <1>2, <3>1, Cells DEF BenchTypes
    <3>. QED BY <1>1, <2>1, <2>2, <3>2
  <2>. QED BY <2>1, <2>2
<1>3. ASSUME Landed(a)' PROVE mem'[Bench!cell(a)] = d
  <2>1. decode_addr(a) \in RealSlaves
    BY <1>3 DEF Landed
  <2>. QED BY <1>1, <1>3, <2>1 DEF StoredBut, Landed
<1>. QED BY <1>2, <1>3, SameDut DEF StoredBut

LEMMA StoredEnds ==
  ASSUME BenchTypes, OnBus, NEW a \in Bench!Reach, NEW d \in Bench!Word, StoredBut(a, d),
         w_state = "RESP", UNCHANGED <<dut, mem>>, expected' = Bench!Know(a, d, BenchLanes)
  PROVE  Stored'
<1>1. ASSUME NEW b \in Bench!Reach, Bench!Mapped(b) PROVE mem[Bench!cell(b)] = expected'[b]
  <2>1. expected \in [Bench!Reach -> Bench!Word]
    BY DEF BenchTypes
  <2>2. decode_addr(b) \in RealSlaves
    BY <1>1, SameNames DEF OnBus, Bench!Mapped, Bench!Target
  <2>3. CASE b = a
    BY <2>1, <2>2, <2>3, Known DEF StoredBut, Landed
  <2>4. CASE b # a
    BY <1>1, <2>1, <2>4, Known DEF StoredBut
  <2>. QED BY <2>3, <2>4
<1>. QED BY <1>1, SameDut DEF Stored

(* The crossbar of the benches, a write of s0: one edge.                   *)
LEMMA WriteStep ==
  ASSUME BenchTypes, OnBus, call.op = "write", call.phase # "done", OneWrite, Bench!OnXbar
  PROVE  BenchState'
<1>. PICK a : a = call.addr
  OBVIOUS
<1>. PICK d : d = call.data
  OBVIOUS
<1>. DEFINE last == w_state = "RESP" /\ s_bvalid
            real == decode_addr(a) \in RealSlaves
<1>1. /\ a \in Bench!Reach /\ d \in Bench!Word /\ a \in BenchAddr /\ decode_addr(a) \in Targets
      /\ WriteOnWay("s0", a, d) /\ Holds("s0", a, d) /\ ~Requesting("s1") /\ NobodyReads
      /\ StoredBut(a, d)
  BY Cells DEF BenchTypes, OneWrite
<1>2. /\ Bench!XbarEdge /\ UNCHANGED dut
      /\ Bench!DriveWrite(Bench!xbar_awready, Bench!xbar_wready, s_bvalid', s_bresp',
                          Bench!transfers, Bench!pulse)
  BY DEF Bench!OnXbar
<1>3. mst["s0"].aw = "valid" /\ mst["s0"].w = "valid" /\ mst["s0"].addr = a /\ mst["s0"].data = d
  BY <1>1 DEF Holds
<1>4. IF last THEN WriteRests'
      ELSE /\ WriteOnWay("s0", a, d)'
           /\ WriteAt \in 0 .. 4 /\ WriteAt' \in 0 .. 4 /\ WriteAt' >= WriteAt + 1
  BY <1>1, <1>2, <1>3, WriteGoesOn
<1>5. /\ ReadRests' /\ last_decerr_raddr' = last_decerr_raddr /\ ~decerr_irq_r'
  BY <1>1, <1>2, ReadStays DEF NobodyReads
<1>6. /\ w_state' = "IDLE" <=> last
      /\ s_bvalid' = (w_state = "RESP" /\ ~s_bvalid)
      /\ ~w_have_aw' /\ ~w_have_w'
      /\ last_decerr_waddr' = (IF w_state = "IDLE" /\ decode_addr(a) = SLAVE_ERR
                               THEN a ELSE last_decerr_waddr)
      /\ decerr_irq_w' = (w_state = "IDLE" /\ decode_addr(a) = SLAVE_ERR)
      /\ w_state' = "RESP" /\ s_bvalid' => s_bresp' = WriteCode(a)
      /\ w_state = "ISSUE" => w_state' = IF real THEN "WAIT_B" ELSE "RESP"
      /\ w_state = "IDLE" => w_state' = "ISSUE"
      /\ w_state \in {"WAIT_B", "RESP"} /\ ~last => w_state' = "RESP"
  BY <1>1, <1>2, <1>3, WriteEdge DEF WriteOnWay
<1>7. /\ mst' = [mst EXCEPT !["s0"].aw = IF last THEN "sent" ELSE "valid",
                            !["s0"].w = IF last THEN "sent" ELSE "valid"]
      /\ UNCHANGED rmst
  BY <1>2, <1>3, <1>6
  DEF Bench!DriveWrite, Bench!Taken, Bench!xbar_awready, Bench!xbar_wready
<1>8. call' = [call EXCEPT !.got = call.got \/ s_bvalid',
                           !.resp = IF s_bvalid' THEN s_bresp' ELSE call.resp,
                           !.data = d, !.ok = last /\ (call.got \/ s_bvalid'),
                           !.moved = call.moved + Bench!transfers,
                           !.pulses = call.pulses + Bench!pulse, !.clocks = call.clocks + 1,
                           !.phase = IF (last /\ (call.got \/ s_bvalid'))
                                        \/ call.clocks + 1 = BenchTimeout
                                     THEN "done" ELSE "go"]
  BY <1>2, <1>3, <1>6
  DEF Bench!DriveWrite, Bench!Taken, Bench!xbar_awready, Bench!xbar_wready, Bench!Sampled,
      Bench!finished
<1>9. call'.phase \in {"done", "go"} /\ (call'.phase = "done" <=> last)
  <2>1. call.got = s_bvalid /\ call.clocks \in Nat /\ call.clocks <= WriteAt
    BY DEF OneWrite
  <2>2. ~last => call.clocks + 1 # BenchTimeout
    BY <1>4, <2>1, BenchAssumption
  <2>. QED BY <1>6, <1>8, <2>1, <2>2 DEF BenchTypes
<1>10. mem' = IF w_state = "ISSUE" /\ real THEN [mem EXCEPT ![Bench!cell(a)] = d] ELSE mem
  BY <1>1, <1>2, WriteLands
<1>11. expected' = IF last THEN Bench!Know(a, d, BenchLanes) ELSE expected
  BY <1>9 DEF Bench!OnXbar
<1>12. missed' = IF last /\ decode_addr(a) = SLAVE_ERR
                 THEN [w |-> a, r |-> missed.r] ELSE missed
  <2>1. missed' = IF call'.phase = "done" /\ Bench!Target(call.addr) = SLAVE_ERR
                  THEN [w |-> IF call.op = "write" THEN call.addr ELSE missed.w,
                        r |-> IF call.op = "read" THEN call.addr ELSE missed.r]
                  ELSE missed
    BY SameNames DEF Bench!OnXbar
  <2>2. Bench!Target(a) = decode_addr(a)
    BY SameNames DEF OnBus, Bench!Target
  <2>. QED BY <1>9, <2>1, <2>2
<1>13. BenchTypes'
  <2>1. /\ expected' \in [Bench!Reach -> Bench!Word]
        /\ mem' \in [{Bench!cell(b) : b \in Bench!Reach} -> Bench!Word]
    BY <1>1, <1>10, <1>11, Known DEF BenchTypes
  <2>2. mst' \in [{"s0", "s1"} -> MState]
    BY <1>7, BeatsChange DEF BenchTypes, Bench!W!Beat
  <2>6. MState' = MState
    BY <1>2, SameDut DEF MState, Bench!W!Beat, Bench!Word
  <2>3. missed' \in [w : Bench!Reach \union {None}, r : Bench!Reach \union {None}]
    BY <1>1, <1>12 DEF BenchTypes
  <2>4. /\ DOMAIN call' = DOMAIN call /\ call'.op = "write" /\ call'.got \in BOOLEAN
    BY <1>6, <1>8 DEF BenchTypes, WriteOnWay
  <2>5. {Bench!cell(b) : b \in Bench!Reach}' = {Bench!cell(b) : b \in Bench!Reach}
    BY <1>2, SameDut
  <2>. QED BY <1>2, <1>7, <2>1, <2>2, <2>3, <2>4, <2>5, <2>6, SameDut DEF BenchTypes
<1>14. /\ call'.op = "write" /\ call'.addr = a /\ call'.data = d
       /\ call'.got = (call.got \/ s_bvalid') /\ call'.ok = (last /\ (call.got \/ s_bvalid'))
       /\ call'.resp = IF s_bvalid' THEN s_bresp' ELSE call.resp
       /\ call'.moved = call.moved + Bench!transfers
       /\ call'.pulses = call.pulses + Bench!pulse /\ call'.clocks = call.clocks + 1
  BY <1>8 DEF BenchTypes
<1>15. /\ Bench!transfers = IF w_state = "ISSUE" /\ real THEN 1 ELSE 0
       /\ Bench!pulse = IF w_state = "IDLE" /\ decode_addr(a) = SLAVE_ERR THEN 1 ELSE 0
  BY <1>1, <1>2, <1>5, <1>6, Passes DEF Bench!pulse, Bench!Count
<1>16. /\ call.got = s_bvalid /\ (call.got => call.resp = WriteCode(a))
       /\ call.clocks \in Nat /\ call.clocks <= WriteAt
       /\ call.moved = (IF Landed(a) THEN 1 ELSE 0) /\ call.pulses = (IF Missed(a) THEN 1 ELSE 0)
       /\ last_decerr_waddr = (IF Missed(a) THEN a ELSE missed.w)
       /\ last_decerr_raddr = missed.r
  BY DEF OneWrite
<1>17. CASE ~last
  <2>1. WriteOnWay("s0", a, d)' /\ call'.clocks \in Nat /\ call'.clocks <= WriteAt'
    BY <1>4, <1>14, <1>16, <1>17
  <2>2. Holds("s0", a, d)' /\ ~Requesting("s1")' /\ NobodyReads'
    <3>1. mst'["s0"] = [mst["s0"] EXCEPT !.aw = "valid", !.w = "valid"] /\ mst'["s1"] = mst["s1"]
      BY <1>7, <1>17 DEF BenchTypes
    <3>2. mst["s0"] \in MState
      BY DEF BenchTypes
    <3>3. Holds("s0", a, d)'
      BY <1>1, <3>1, <3>2 DEF Holds, MState
    <3>4. ~Requesting("s1")'
      BY <1>1, <3>1 DEF Requesting
    <3>5. NobodyReads'
      BY <1>1, <1>5, <1>7 DEF NobodyReads
    <3>. QED BY <3>3, <3>4, <3>5
  <2>3. StoredBut(a, d)'
    <3>1. Landed(a)' => w_state = "ISSUE" \/ Landed(a)
      BY <1>1, <1>6 DEF Landed, WriteOnWay
    <3>. QED BY <1>1, <1>2, <1>10, <1>11, <1>17, <3>1, StoredGoesOn
  <2>4. /\ call'.got = s_bvalid' /\ (call'.got => call'.resp = WriteCode(a))
    BY <1>1, <1>6, <1>14, <1>16, <1>17 DEF WriteOnWay, BenchTypes
  <2>5. /\ call'.moved = (IF Landed(a)' THEN 1 ELSE 0)
        /\ call'.pulses = (IF Missed(a)' THEN 1 ELSE 0)
        /\ last_decerr_waddr' = (IF Missed(a)' THEN a ELSE missed.w)
    BY <1>1, <1>6, <1>14, <1>15, <1>16, <1>17 DEF Landed, Missed, WriteOnWay
  <2>6. missed' = missed /\ last_decerr_raddr' = missed.r
    BY <1>5, <1>12, <1>16, <1>17
  <2>7. OneWrite'
    BY <1>1, <1>2, <1>9, <1>14, <1>17, <2>1, <2>2, <2>3, <2>4, <2>5, <2>6, SameDut
    DEF OneWrite, Bench!Word
  <2>8. OnBus'
    BY <1>2, SameDut
  <2>. QED BY <1>9, <1>13, <1>14, <1>17, <2>7, <2>8 DEF BenchState
<1>18. CASE last
  <2>1. BusRests' /\ Recorded'
    <3>1. WriteRests' /\ ReadRests'
      BY <1>4, <1>5, <1>18
    <3>2. ~Requesting("s0")' /\ ~Requesting("s1")'
      BY <1>1, <1>7, <1>18 DEF Requesting, BenchTypes, MState
    <3>3. rmst'["s0"].ar # "valid" /\ rmst'["s1"].ar # "valid"
      BY <1>1, <1>7 DEF NobodyReads
    <3>4. Recorded'
      BY <1>5, <1>6, <1>12, <1>16, <1>18 DEF Recorded, Missed, BenchTypes
    <3>. QED BY <3>1, <3>2, <3>3, <3>4 DEF BusRests
  <2>2. Stored'
    BY <1>1, <1>2, <1>10, <1>11, <1>18, StoredEnds
  <2>3. Bench!BenchPasses'
    <3>1. call'.ok
      BY <1>14, <1>16, <1>18
    <3>2. call'.resp = Bench!RespOf(a)'
      <4>1. call'.resp = WriteCode(a)
        BY <1>6, <1>14, <1>16, <1>18
      <4>2. Bench!Target(a)' = decode_addr(a) /\ dut' # "boot_rom"
        BY <1>2, SameNames DEF OnBus, Bench!Target
      <4>. QED BY <1>14, <4>1, <4>2, SameNames, Codes DEF WriteCode, Bench!RespOf
    <3>3. \A b \in Bench!Reach' : Bench!Mapped(b)' => mem'[Bench!cell(b)'] = expected'[b]
      BY <2>2 DEF Stored
    <3>4. call'.pulses = IF Bench!Target(a)' = SLAVE_ERR THEN 1 ELSE 0
      <4>1. Bench!Target(a)' = decode_addr(a)
        BY <1>2, SameNames DEF OnBus, Bench!Target
      <4>. QED BY <1>14, <1>15, <1>16, <1>18, <4>1 DEF Missed
    <3>5. call'.moved = IF Bench!Mapped(a)' THEN 1 ELSE 0
      <4>1. Bench!Mapped(a)' <=> real
        BY <1>2, SameNames DEF OnBus, Bench!Target, Bench!Mapped
      <4>. QED BY <1>14, <1>15, <1>16, <1>18, <4>1 DEF Landed
    <3>. QED BY <1>9, <1>14, <3>1, <3>2, <3>3, <3>4, <3>5, SameNames DEF Bench!BenchPasses
  <2>4. Judged'
    BY <2>1, <2>2, <2>3 DEF Judged
  <2>. QED BY <1>9, <1>13, <1>18, <2>4 DEF BenchState
<1>. QED BY <1>17, <1>18

(* A read: one edge.                                                       *)
LEMMA ReadStep ==
  ASSUME BenchTypes, OnBus, call.op = "read", call.phase # "done", OneRead, Bench!OnXbar
  PROVE  BenchState'
<1>. PICK a : a = call.addr
  OBVIOUS
<1>. DEFINE last == r_state = "RESP" /\ s_rvalid
            real == decode_addr(a) \in RealSlaves
            data == IF s_rdata'.from \in RealSlaves THEN result' ELSE s_rdata'.at
<1>1. /\ a \in Bench!Reach /\ a \in BenchAddr /\ decode_addr(a) \in Targets
      /\ ReadOnWay(a) /\ rmst["s0"].ar = "valid" /\ rmst["s0"].addr = a /\ rmst["s1"].ar # "valid"
      /\ WriteRests /\ ~Requesting("s0") /\ ~Requesting("s1") /\ Stored
  BY Cells DEF BenchTypes, OneRead
<1>2. /\ Bench!XbarEdge /\ UNCHANGED dut
      /\ Bench!DriveRead(Bench!xbar_arready, s_rvalid', s_rresp', Bench!xbar_rdata,
                         Bench!transfers, Bench!pulse)
  BY DEF Bench!OnXbar
<1>3. /\ WriteRests' /\ last_decerr_waddr' = last_decerr_waddr /\ ~decerr_irq_w' /\ mem' = mem
  BY <1>1, <1>2, WriteStays
<1>4. IF last THEN ReadRests'
      ELSE /\ ReadOnWay(a)'
           /\ ReadAt \in 0 .. 4 /\ ReadAt' \in 0 .. 4 /\ ReadAt' >= ReadAt + 1
  BY <1>1, <1>2, <1>3, ReadGoesOn
<1>5. /\ r_state' = "IDLE" <=> last
      /\ s_rvalid' = (r_state = "RESP" /\ ~s_rvalid)
      /\ last_decerr_raddr' = (IF r_state = "IDLE" /\ decode_addr(a) = SLAVE_ERR
                               THEN a ELSE last_decerr_raddr)
      /\ decerr_irq_r' = (r_state = "IDLE" /\ decode_addr(a) = SLAVE_ERR)
      /\ r_state = "ISSUE" => r_state' = IF real THEN "WAIT_R" ELSE "RESP"
      /\ r_state = "IDLE" => r_state' = "ISSUE"
      /\ r_state \in {"WAIT_R", "RESP"} /\ ~last => r_state' = "RESP"
  BY <1>1, <1>2, ReadEdge DEF ReadOnWay
<1>6. /\ rmst' = [rmst EXCEPT !["s0"].ar = IF last THEN "sent" ELSE "valid"]
      /\ UNCHANGED mst
  BY <1>1, <1>2, <1>5 DEF Bench!DriveRead, Bench!Taken, Bench!xbar_arready
<1>7. call' = [call EXCEPT !.got = call.got \/ s_rvalid',
                           !.resp = IF s_rvalid' THEN s_rresp' ELSE call.resp,
                           !.data = IF s_rvalid' THEN data ELSE call.data,
                           !.ok = last /\ (call.got \/ s_rvalid'),
                           !.moved = call.moved + Bench!transfers,
                           !.pulses = call.pulses + Bench!pulse, !.clocks = call.clocks + 1,
                           !.phase = IF (last /\ (call.got \/ s_rvalid'))
                                        \/ call.clocks + 1 = BenchTimeout
                                     THEN "done" ELSE "go"]
  BY <1>1, <1>2, <1>5, SameNames
  DEF Bench!DriveRead, Bench!Taken, Bench!xbar_arready, Bench!xbar_rdata, Bench!Sampled
<1>8. /\ call'.op = "read" /\ call'.addr = a
      /\ call'.data = IF s_rvalid' THEN data ELSE call.data
      /\ call'.got = (call.got \/ s_rvalid') /\ call'.ok = (last /\ (call.got \/ s_rvalid'))
      /\ call'.resp = IF s_rvalid' THEN s_rresp' ELSE call.resp
      /\ call'.moved = call.moved + Bench!transfers
      /\ call'.pulses = call.pulses + Bench!pulse /\ call'.clocks = call.clocks + 1
      /\ DOMAIN call' = DOMAIN call
  BY <1>7 DEF BenchTypes
<1>9. /\ call.got = s_rvalid
      /\ call.got => /\ call.resp = ReadCode(a)
                     /\ decode_addr(a) # SLAVE_ERR => call.data = ReadData(a)
      /\ call.clocks \in Nat /\ call.clocks <= ReadAt
      /\ call.moved = (IF real /\ r_state \in {"WAIT_R", "RESP"} THEN 1 ELSE 0)
      /\ call.pulses = (IF ReadMissed(a) THEN 1 ELSE 0)
      /\ last_decerr_waddr = missed.w
      /\ last_decerr_raddr = (IF ReadMissed(a) THEN a ELSE missed.r)
  BY DEF OneRead
<1>10. call'.phase \in {"done", "go"} /\ (call'.phase = "done" <=> last)
  <2>1. ~last => call.clocks + 1 # BenchTimeout
    BY <1>4, <1>9, BenchAssumption
  <2>. QED BY <1>5, <1>7, <1>9, <2>1 DEF BenchTypes
<1>11. expected' = expected
  BY DEF Bench!OnXbar
<1>12. missed' = IF last /\ decode_addr(a) = SLAVE_ERR
                 THEN [w |-> missed.w, r |-> a] ELSE missed
  <2>1. missed' = IF call'.phase = "done" /\ Bench!Target(call.addr) = SLAVE_ERR
                  THEN [w |-> IF call.op = "write" THEN call.addr ELSE missed.w,
                        r |-> IF call.op = "read" THEN call.addr ELSE missed.r]
                  ELSE missed
    BY SameNames DEF Bench!OnXbar
  <2>2. Bench!Target(a) = decode_addr(a)
    BY SameNames DEF OnBus, Bench!Target
  <2>. QED BY <1>10, <2>1, <2>2
<1>13. BenchTypes'
  <2>1. rmst' \in [{"s0", "s1"} -> [ar : {"off", "valid", "sent"}, addr : Bench!Reach \union {None}]]
    BY <1>6 DEF BenchTypes
  <2>2. missed' \in [w : Bench!Reach \union {None}, r : Bench!Reach \union {None}]
    BY <1>1, <1>12 DEF BenchTypes
  <2>3. call'.got \in BOOLEAN
    BY <1>5, <1>8 DEF BenchTypes
  <2>4. MState' = MState
    BY <1>2, SameDut DEF MState, Bench!W!Beat, Bench!Word
  <2>5. {Bench!cell(b) : b \in Bench!Reach}' = {Bench!cell(b) : b \in Bench!Reach}
    BY <1>2, SameDut
  <2>. QED BY <1>2, <1>3, <1>6, <1>8, <1>11, <2>1, <2>2, <2>3, <2>4, <2>5, SameDut DEF BenchTypes
<1>14. Stored' /\ OnBus'
  BY <1>1, <1>2, <1>3, <1>11, SameDut DEF Stored
<1>15. /\ Bench!transfers = IF r_state = "ISSUE" /\ real THEN 1 ELSE 0
       /\ Bench!pulse = IF r_state = "IDLE" /\ decode_addr(a) = SLAVE_ERR THEN 1 ELSE 0
  BY <1>1, <1>2, <1>3, <1>5, Passes DEF Bench!pulse, Bench!Count
<1>16. ~Requesting("s0")' /\ ~Requesting("s1")' /\ rmst'["s1"].ar # "valid"
       /\ rmst'["s0"].ar = (IF last THEN "sent" ELSE "valid") /\ rmst'["s0"].addr = a
  BY <1>1, <1>6 DEF Requesting, BenchTypes
<1>17. CASE ~last
  <2>1. ReadOnWay(a)' /\ call'.clocks \in Nat /\ call'.clocks <= ReadAt'
    BY <1>4, <1>8, <1>9, <1>17
  <2>2. call'.got = s_rvalid'
    BY <1>1, <1>5, <1>8, <1>9, <1>17 DEF ReadOnWay, BenchTypes
  <2>3. ASSUME s_rvalid', decode_addr(a) # SLAVE_ERR PROVE data = ReadData(a)'
    <3>1. CASE real
      <4>1. s_rdata'.from = decode_addr(a) /\ result' = mem'[Bench!cell(a)']
        BY <2>1, <2>3, <3>1 DEF ReadOnWay
      <4>2. Bench!Mapped(a)'
        BY <1>14, <3>1, SameNames DEF OnBus, Bench!Mapped, Bench!Target
      <4>3. mem'[Bench!cell(a)'] = expected'[a]
        BY <1>1, <1>2, <1>14, <4>2, SameDut DEF Stored
      <4>. QED BY <3>1, <4>1, <4>3 DEF ReadData
    <3>2. CASE decode_addr(a) = XBAR_CSR
      BY <2>1, <2>3, <3>2, Codes DEF ReadOnWay, ReadData
    <3>. QED BY <1>1, <2>3, <3>1, <3>2, Codes
  <2>4. call'.got => /\ call'.resp = ReadCode(a)
                     /\ decode_addr(a) # SLAVE_ERR => call'.data = ReadData(a)'
    BY <1>8, <2>1, <2>2, <2>3 DEF ReadOnWay
  <2>5. /\ call'.moved = (IF real /\ r_state' \in {"WAIT_R", "RESP"} THEN 1 ELSE 0)
        /\ call'.pulses = (IF ReadMissed(a)' THEN 1 ELSE 0)
        /\ last_decerr_raddr' = (IF ReadMissed(a)' THEN a ELSE missed.r)
    BY <1>1, <1>5, <1>8, <1>9, <1>15, <1>17 DEF ReadMissed, ReadOnWay
  <2>6. missed' = missed /\ last_decerr_waddr' = missed.w
    BY <1>3, <1>9, <1>12, <1>17
  <2>7. OneRead'
    BY <1>1, <1>2, <1>3, <1>8, <1>10, <1>14, <1>16, <1>17, <2>1, <2>2, <2>4, <2>5, <2>6, SameDut
    DEF OneRead
  <2>. QED BY <1>8, <1>10, <1>13, <1>14, <1>17, <2>7 DEF BenchState
<1>18. CASE last
  <2>1. BusRests' /\ Recorded'
    BY <1>3, <1>4, <1>5, <1>9, <1>12, <1>16, <1>18 DEF BusRests, Recorded, ReadMissed, BenchTypes
  <2>2. call'.ok /\ call'.resp = ReadCode(a)
    BY <1>5, <1>8, <1>9, <1>18
  <2>3. Bench!Target(a)' = decode_addr(a) /\ (Bench!Mapped(a)' <=> real) /\ dut' # "boot_rom"
    BY <1>14, SameNames DEF OnBus, Bench!Target, Bench!Mapped
  <2>4. ASSUME decode_addr(a) # SLAVE_ERR PROVE call'.data = Bench!DataOf(a)'
    <3>1. call'.data = ReadData(a)
      BY <1>5, <1>8, <1>9, <1>18, <2>4
    <3>2. missed' = missed /\ last_decerr_raddr = missed.r /\ last_decerr_waddr = missed.w
      BY <1>9, <1>12, <2>4 DEF ReadMissed
    <3>. QED BY <1>11, <2>3, <3>1, <3>2, SameNames DEF ReadData, Bench!DataOf
  <2>5. Bench!BenchPasses'
    <3>1. call'.resp = Bench!RespOf(a)'
      BY <1>8, <2>2, <2>3, SameNames, Codes DEF ReadCode, Bench!RespOf
    <3>2. \A b \in Bench!Reach' : Bench!Mapped(b)' => mem'[Bench!cell(b)'] = expected'[b]
      BY <1>14 DEF Stored
    <3>3. call'.pulses = IF Bench!Target(a)' = SLAVE_ERR THEN 1 ELSE 0
      BY <1>8, <1>9, <1>15, <1>18, <2>3 DEF ReadMissed
    <3>4. call'.moved = IF Bench!Mapped(a)' THEN 1 ELSE 0
      BY <1>8, <1>9, <1>15, <1>18, <2>3
    <3>. QED BY <1>8, <1>10, <2>2, <2>3, <2>4, <3>1, <3>2, <3>3, <3>4, SameNames
         DEF Bench!BenchPasses
  <2>6. Judged'
    BY <1>14, <2>1, <2>5 DEF Judged
  <2>. QED BY <1>10, <1>13, <1>18, <2>6 DEF BenchState
<1>. QED BY <1>17, <1>18

(* The arbitration test: one edge of the write that is on its way, s0's or *)
(* s1's.                                                                   *)
LEMMA RawFacts ==
  ASSUME BenchTypes, OnBus, Bench!RawEdge, NEW m \in {"s0", "s1"}, NEW a \in Bench!Reach,
         NEW d \in Bench!Word, decode_addr(a) \in RealSlaves, WriteOnWay(m, a, d),
         Holds(m, a, d), m = "s1" => ~Requesting("s0"), NobodyReads, StoredBut(a, d)
  PROVE  /\ UNCHANGED <<dut, rmst, missed>> /\ OnBus'
         /\ IF w_state = "RESP" /\ s_bvalid THEN WriteRests'
            ELSE /\ WriteOnWay(m, a, d)'
                 /\ WriteAt \in 0 .. 4 /\ WriteAt' \in 0 .. 4 /\ WriteAt' >= WriteAt + 1
         /\ NobodyReads' /\ UNCHANGED <<last_decerr_waddr, last_decerr_raddr>>
         /\ mem' \in [{Bench!cell(b) : b \in Bench!Reach} -> Bench!Word]
         /\ w_state = "RESP" => mem' = mem
         /\ UNCHANGED expected => StoredBut(a, d)'
         /\ w_state' = "IDLE" <=> w_state = "RESP" /\ s_bvalid
         /\ s_bvalid' => s_bresp' = OKAY
         /\ Bench!transfers = IF w_state = "ISSUE" THEN 1 ELSE 0
         /\ w_state' \in {"WAIT_B", "RESP"} <=>
              w_state \in {"ISSUE", "WAIT_B", "RESP"} /\ ~(w_state = "RESP" /\ s_bvalid)
         /\ Bench!W!m_bvalid(m) <=> w_state = "RESP" /\ s_bvalid
<1>1. /\ Bench!XbarEdge /\ UNCHANGED <<dut, rmst, missed>> /\ OnBus'
      /\ decode_addr(a) \in Targets
  BY SameDut DEF Bench!RawEdge, Targets
<1>2. mst[m].aw = "valid" /\ mst[m].w = "valid" /\ mst[m].addr = a /\ mst[m].data = d
  BY DEF Holds
<1>3. IF w_state = "RESP" /\ s_bvalid THEN WriteRests'
      ELSE /\ WriteOnWay(m, a, d)'
           /\ WriteAt \in 0 .. 4 /\ WriteAt' \in 0 .. 4 /\ WriteAt' >= WriteAt + 1
  BY <1>1, <1>2, WriteGoesOn
<1>4. NobodyReads' /\ last_decerr_raddr' = last_decerr_raddr
  BY <1>1, ReadStays DEF NobodyReads
<1>5. mem' = IF w_state = "ISSUE" THEN [mem EXCEPT ![Bench!cell(a)] = d] ELSE mem
  BY <1>1, WriteLands
<1>6. mem' \in [{Bench!cell(b) : b \in Bench!Reach} -> Bench!Word]
  BY <1>5 DEF BenchTypes
<1>7. /\ w_state' = "IDLE" <=> w_state = "RESP" /\ s_bvalid
      /\ w_state' \in {"WAIT_B", "RESP"} <=>
           w_state \in {"ISSUE", "WAIT_B", "RESP"} /\ ~(w_state = "RESP" /\ s_bvalid)
      /\ last_decerr_waddr' = last_decerr_waddr
  BY <1>1, <1>2, WriteEdge, Codes DEF WriteOnWay
<1>8. s_bvalid' => s_bresp' = OKAY
  <2>1. s_bvalid' => w_state' = "RESP"
    BY <1>1, <1>2, WriteEdge DEF WriteOnWay
  <2>2. WriteCode(a) = OKAY
    BY Codes DEF WriteCode
  <2>. QED BY <1>1, <1>2, <2>1, <2>2, WriteEdge
<1>9. Bench!transfers = IF w_state = "ISSUE" THEN 1 ELSE 0
  BY <1>1, Passes
<1>10. ASSUME UNCHANGED expected PROVE StoredBut(a, d)'
  <2>1. Landed(a)' => w_state = "ISSUE" \/ Landed(a)
    BY <1>7 DEF Landed
  <2>. QED BY <1>1, <1>5, <1>10, <2>1, StoredGoesOn
<1>11. Bench!W!m_bvalid(m) <=> w_state = "RESP" /\ s_bvalid
  BY DEF Bench!W!m_bvalid, WriteOnWay
<1>. QED BY <1>1, <1>3, <1>4, <1>5, <1>6, <1>7, <1>8, <1>9, <1>10, <1>11

(* A write of s1 can begin where another one has ended.                    *)
LEMMA NextWrite ==
  ASSUME WriteRests', NEW a, NEW d
  PROVE  WriteOnWay("s1", a, d)' /\ WriteAt' = 0 /\ ~Landed(a)'
BY DEF WriteRests, WriteOnWay, WriteAt, Landed

LEMMA RawCall ==
  ASSUME BenchTypes, NEW phase, NEW ok, NEW moved, Bench!Advance(phase, ok, moved)
  PROVE  /\ call'.op = call.op /\ call'.addr = call.addr /\ call'.data = call.data
         /\ call'.got = call.got /\ DOMAIN call' = DOMAIN call /\ call'.ok = ok
         /\ call'.moved = call.moved + moved /\ call'.clocks = call.clocks + 1
         /\ call'.phase = IF call.clocks + 1 = BenchTimeout THEN "done" ELSE phase
         /\ call'.resp = IF s_bvalid' THEN s_bresp' ELSE call.resp
BY DEF BenchTypes, Bench!Advance

LEMMA RawTypes ==
  ASSUME BenchTypes, UNCHANGED <<dut, rmst, missed>>,
         mem' \in [{Bench!cell(b) : b \in Bench!Reach} -> Bench!Word],
         expected' \in [Bench!Reach -> Bench!Word], DOMAIN call' = DOMAIN call,
         call'.op = call.op, call'.got = call.got,
         UNCHANGED mst \/ Bench!Quiet("s0") \/ Bench!Quiet("s1")
  PROVE  BenchTypes'
<1>1. mst' \in [{"s0", "s1"} -> MState]
  BY BeatsChange DEF BenchTypes, Bench!Quiet, Bench!W!Beat
<1>2. MState' = MState
  BY SameDut DEF MState, Bench!W!Beat, Bench!Word
<1>3. {Bench!cell(b) : b \in Bench!Reach}' = {Bench!cell(b) : b \in Bench!Reach}
  BY SameDut
<1>. QED BY <1>1, <1>2, <1>3, SameDut DEF BenchTypes

LEMMA GoStep ==
  ASSUME BenchTypes, OnBus, call.op \in {"contend", "s1"}, call.phase = "go", RawWrites,
         Bench!RawEdge
  PROVE  BenchState'
<1>. PICK a : a = mst["s0"].addr
  OBVIOUS
<1>. PICK d : d = mst["s0"].data
  OBVIOUS
<1>. PICK a1 : a1 = call.addr
  OBVIOUS
<1>. PICK dd : dd = call.data
  OBVIOUS
<1>. DEFINE last == w_state = "RESP" /\ s_bvalid
<1>1. /\ a \in Bench!Reach /\ d \in Bench!Word /\ Holds("s0", a, d) /\ Bench!Mapped(a)
      /\ a1 \in Bench!Reach /\ dd \in Bench!Word /\ Holds("s1", a1, dd) /\ Bench!Mapped(a1)
      /\ WriteOnWay("s0", a, d) /\ NobodyReads /\ StoredBut(a, d) /\ Recorded
      /\ call.op = "contend" /\ call.clocks \in Nat /\ call.clocks <= WriteAt
      /\ call.moved = 0 /\ call.resp = OKAY
  BY DEF RawWrites, Holds
<1>2. decode_addr(a) \in RealSlaves
  BY <1>1, SameNames DEF OnBus, Bench!Mapped, Bench!Target
<1>3. /\ UNCHANGED <<dut, rmst, missed>> /\ OnBus'
      /\ IF last THEN WriteRests'
         ELSE /\ WriteOnWay("s0", a, d)'
              /\ WriteAt \in 0 .. 4 /\ WriteAt' \in 0 .. 4 /\ WriteAt' >= WriteAt + 1
      /\ NobodyReads' /\ UNCHANGED <<last_decerr_waddr, last_decerr_raddr>>
      /\ mem' \in [{Bench!cell(b) : b \in Bench!Reach} -> Bench!Word]
      /\ last => mem' = mem
      /\ UNCHANGED expected => StoredBut(a, d)'
      /\ s_bvalid' => s_bresp' = OKAY
      /\ Bench!W!m_bvalid("s0") <=> last
  BY <1>1, <1>2, RawFacts
<1>4. Recorded'
  BY <1>1, <1>3 DEF Recorded
<1>5. Bench!Mapped(a)' /\ Bench!Mapped(a1)'
  BY <1>1, <1>3, SameDut
<1>6. CASE ~last
  <2>1. UNCHANGED <<mst, expected>> /\ Bench!Advance("go", FALSE, 0)
    BY <1>3, <1>6 DEF Bench!RawEdge
  <2>2. /\ call'.op = call.op /\ call'.addr = a1 /\ call'.data = dd /\ call'.moved = 0
        /\ call'.clocks = call.clocks + 1 /\ call'.resp = OKAY /\ call'.phase = "go"
        /\ DOMAIN call' = DOMAIN call /\ call'.got = call.got
    <3>1. call.clocks + 1 # BenchTimeout
      BY <1>1, <1>3, <1>6, BenchAssumption
    <3>2. /\ call'.op = call.op /\ call'.addr = call.addr /\ call'.data = call.data
          /\ DOMAIN call' = DOMAIN call /\ call'.got = call.got
          /\ call'.moved = call.moved + 0 /\ call'.clocks = call.clocks + 1
          /\ call'.phase = IF call.clocks + 1 = BenchTimeout THEN "done" ELSE "go"
          /\ call'.resp = IF s_bvalid' THEN s_bresp' ELSE call.resp
      BY <2>1, RawCall
    <3>. QED BY <1>1, <1>3, <3>1, <3>2
  <2>3. BenchTypes'
    BY <1>3, <2>1, <2>2, RawTypes DEF BenchTypes
  <2>4. RawWrites'
    BY <1>1, <1>3, <1>4, <1>5, <1>6, <2>1, <2>2, SameDut DEF RawWrites, Holds, Bench!Word
  <2>. QED BY <1>1, <1>3, <2>2, <2>3, <2>4 DEF BenchState
<1>7. CASE last
  <2>1. /\ Bench!Quiet("s0") /\ expected' = Bench!Know(a, d, BenchLanes)
        /\ Bench!Advance("granted", FALSE, 0)
    BY <1>3, <1>7 DEF Bench!RawEdge
  <2>2. /\ call'.op = call.op /\ call'.addr = a1 /\ call'.data = dd /\ call'.moved = 0
        /\ call'.clocks = call.clocks + 1 /\ call'.resp = OKAY /\ call'.phase = "granted"
        /\ DOMAIN call' = DOMAIN call /\ call'.got = call.got /\ call'.clocks <= 5
    <3>1. call.clocks <= 4
      BY <1>1, <1>7 DEF WriteAt
    <3>2. /\ call'.op = call.op /\ call'.addr = call.addr /\ call'.data = call.data
          /\ DOMAIN call' = DOMAIN call /\ call'.got = call.got
          /\ call'.moved = call.moved + 0 /\ call'.clocks = call.clocks + 1
          /\ call'.phase = IF call.clocks + 1 = BenchTimeout THEN "done" ELSE "granted"
          /\ call'.resp = IF s_bvalid' THEN s_bresp' ELSE call.resp
      BY <2>1, RawCall
    <3>3. call.clocks + 1 # BenchTimeout
      BY <1>1, <3>1, BenchAssumption
    <3>. QED BY <1>1, <1>3, <3>1, <3>2, <3>3
  <2>3. BenchTypes'
    <3>1. expected' \in [Bench!Reach -> Bench!Word]
      BY <1>1, <2>1, Known DEF BenchTypes
    <3>. QED BY <1>3, <2>1, <2>2, <3>1, RawTypes DEF BenchTypes
  <2>4. WriteOnWay("s1", a1, dd)' /\ WriteAt' = 0 /\ ~Landed(a1)'
    BY <1>3, <1>7, NextWrite
  <2>5. StoredBut(a1, dd)'
    <3>1. Stored'
      BY <1>1, <1>3, <1>7, <2>1, StoredEnds
    <3>. QED BY <2>4, <3>1 DEF Stored, StoredBut
  <2>6. Holds("s1", a1, dd)' /\ ~Requesting("s0")'
    BY <1>1, <2>1 DEF Holds, Requesting, Bench!Quiet, BenchTypes, MState
  <2>7. RawWrites'
    BY <1>1, <1>3, <1>4, <1>5, <2>2, <2>4, <2>5, <2>6, SameDut DEF RawWrites, Bench!Word
  <2>. QED BY <1>1, <1>3, <2>2, <2>3, <2>7 DEF BenchState
<1>. QED BY <1>6, <1>7

(* s1's write, the first or the second time it is made.                    *)
LEMMA SecondStep ==
  ASSUME BenchTypes, OnBus, call.op \in {"contend", "s1"}, call.phase \in {"granted", "s1"},
         RawWrites, Bench!RawEdge
  PROVE  BenchState'
<1>. PICK a : a = call.addr
  OBVIOUS
<1>. PICK d : d = call.data
  OBVIOUS
<1>. DEFINE last == w_state = "RESP" /\ s_bvalid
            begun == IF call.phase = "granted" THEN 5 ELSE 10
            before == IF call.op = "contend" /\ call.phase = "s1" THEN 1 ELSE 0
            landed == w_state \in {"WAIT_B", "RESP"}
<1>1. /\ a \in Bench!Reach /\ d \in Bench!Word /\ Holds("s1", a, d) /\ Bench!Mapped(a)
      /\ WriteOnWay("s1", a, d) /\ NobodyReads /\ StoredBut(a, d) /\ Recorded
      /\ ~Requesting("s0") /\ call.clocks \in Nat /\ call.clocks <= WriteAt + begun
      /\ call.resp = OKAY /\ (call.op = "s1" => call.phase = "s1")
      /\ call.moved = (IF Landed(a) THEN 1 ELSE 0) + before
  BY DEF RawWrites
<1>2. decode_addr(a) \in RealSlaves
  BY <1>1, SameNames DEF OnBus, Bench!Mapped, Bench!Target
<1>3. /\ UNCHANGED <<dut, rmst, missed>> /\ OnBus'
      /\ IF last THEN WriteRests'
         ELSE /\ WriteOnWay("s1", a, d)'
              /\ WriteAt \in 0 .. 4 /\ WriteAt' \in 0 .. 4 /\ WriteAt' >= WriteAt + 1
      /\ NobodyReads' /\ UNCHANGED <<last_decerr_waddr, last_decerr_raddr>>
      /\ mem' \in [{Bench!cell(b) : b \in Bench!Reach} -> Bench!Word]
      /\ last => mem' = mem
      /\ UNCHANGED expected => StoredBut(a, d)'
      /\ w_state' = "IDLE" <=> last
      /\ s_bvalid' => s_bresp' = OKAY
      /\ Bench!transfers = IF w_state = "ISSUE" THEN 1 ELSE 0
      /\ w_state' \in {"WAIT_B", "RESP"} <=>
           w_state \in {"ISSUE", "WAIT_B", "RESP"} /\ ~(w_state = "RESP" /\ s_bvalid)
      /\ Bench!W!m_bvalid("s1") <=> last
  BY <1>1, <1>2, RawFacts
<1>4. Recorded' /\ Bench!Mapped(a)'
  BY <1>1, <1>3, SameDut DEF Recorded
<1>5. Bench!xbar_awready <=> last
  BY <1>3 DEF Bench!xbar_awready, WriteRests
<1>6. WriteAt \in 0 .. 4 /\ call.clocks + 1 \in Nat /\ (~last => call.clocks + 1 # BenchTimeout)
  BY <1>1, <1>3, BenchAssumption DEF WriteAt, WriteOnWay
<1>7. CASE ~last
  <2>1. /\ UNCHANGED <<mst, expected>> /\ Bench!Advance(call.phase, FALSE, Bench!transfers)
    BY <1>3, <1>5, <1>7 DEF Bench!RawEdge
  <2>2. /\ call'.op = call.op /\ call'.addr = a /\ call'.data = d
        /\ DOMAIN call' = DOMAIN call /\ call'.got = call.got
        /\ call'.moved = call.moved + Bench!transfers /\ call'.clocks = call.clocks + 1
        /\ call'.phase = IF call.clocks + 1 = BenchTimeout THEN "done" ELSE call.phase
        /\ call'.resp = IF s_bvalid' THEN s_bresp' ELSE call.resp
    BY <2>1, RawCall
  <2>3. BenchTypes'
    BY <1>3, <2>1, <2>2, RawTypes DEF BenchTypes
  <2>4. call'.phase = call.phase /\ call'.resp = OKAY /\ call'.clocks <= WriteAt' + begun
    BY <1>1, <1>3, <1>6, <1>7, <2>2
  <2>5. call'.moved = (IF Landed(a)' THEN 1 ELSE 0) + before
    BY <1>1, <1>2, <1>3, <1>7, <2>2 DEF Landed, WriteOnWay
  <2>6. Holds("s1", a, d)' /\ ~Requesting("s0")' /\ StoredBut(a, d)' /\ WriteOnWay("s1", a, d)'
    BY <1>1, <1>3, <1>7, <2>1 DEF Holds, Requesting
  <2>7. RawWrites'
    BY <1>1, <1>3, <1>4, <1>6, <2>2, <2>4, <2>5, <2>6, SameDut DEF RawWrites, Bench!Word
  <2>. QED BY <1>3, <2>2, <2>3, <2>4, <2>7 DEF BenchState
<1>8. CASE last /\ call.phase = "granted"
  <2>1. /\ UNCHANGED <<mst, expected>> /\ Bench!Advance("s1", FALSE, Bench!transfers)
    BY <1>5, <1>8 DEF Bench!RawEdge
  <2>2. /\ call'.op = call.op /\ call'.addr = a /\ call'.data = d
        /\ DOMAIN call' = DOMAIN call /\ call'.got = call.got
        /\ call'.moved = call.moved + Bench!transfers /\ call'.clocks = call.clocks + 1
        /\ call'.phase = IF call.clocks + 1 = BenchTimeout THEN "done" ELSE "s1"
        /\ call'.resp = IF s_bvalid' THEN s_bresp' ELSE call.resp
    BY <2>1, RawCall
  <2>3. BenchTypes'
    BY <1>3, <2>1, <2>2, RawTypes DEF BenchTypes
  <2>4. call'.phase = "s1" /\ call'.resp = OKAY /\ call'.clocks <= 10
    BY <1>1, <1>3, <1>6, <1>8, <2>2, BenchAssumption
  <2>5. WriteOnWay("s1", a, d)' /\ WriteAt' = 0 /\ ~Landed(a)'
    BY <1>3, <1>8, NextWrite
  <2>6. call'.moved = 1 /\ call.op = "contend"
    BY <1>1, <1>2, <1>3, <1>8, <2>2 DEF Landed
  <2>7. Holds("s1", a, d)' /\ ~Requesting("s0")' /\ StoredBut(a, d)'
    BY <1>1, <1>3, <2>1 DEF Holds, Requesting
  <2>8. RawWrites'
    BY <1>1, <1>3, <1>4, <1>6, <2>2, <2>4, <2>5, <2>6, <2>7, SameDut DEF RawWrites, Bench!Word
  <2>. QED BY <1>3, <2>2, <2>3, <2>4, <2>8 DEF BenchState
<1>9. CASE last /\ call.phase = "s1"
  <2>1. /\ Bench!Quiet("s1") /\ expected' = Bench!Know(a, d, BenchLanes)
        /\ Bench!Advance("done", TRUE, 0)
    BY <1>3, <1>9 DEF Bench!RawEdge
  <2>2. /\ call'.op = call.op /\ call'.addr = a /\ call'.ok
        /\ DOMAIN call' = DOMAIN call /\ call'.got = call.got
        /\ call'.moved = call.moved + 0 /\ call'.phase = "done"
        /\ call'.resp = IF s_bvalid' THEN s_bresp' ELSE call.resp
    BY <2>1, RawCall
  <2>3. BenchTypes'
    <3>1. expected' \in [Bench!Reach -> Bench!Word]
      BY <1>1, <2>1, Known DEF BenchTypes
    <3>. QED BY <1>3, <2>1, <2>2, <3>1, RawTypes DEF BenchTypes
  <2>4. Stored'
    BY <1>1, <1>3, <1>9, <2>1, StoredEnds
  <2>5. BusRests'
    <3>1. ~Requesting("s0")' /\ ~Requesting("s1")'
      BY <1>1, <2>1 DEF Requesting, Bench!Quiet, BenchTypes, MState
    <3>. QED BY <1>3, <1>9, <3>1 DEF BusRests, NobodyReads
  <2>6. Bench!Target(a)' = decode_addr(a) /\ dut' # "boot_rom"
    BY <1>3, SameNames DEF OnBus, Bench!Target
  <2>7. Bench!BenchPasses'
    <3>1. call'.resp = Bench!RespOf(a)'
      BY <1>1, <1>2, <1>3, <2>2, <2>6, SameNames, Codes DEF Bench!RespOf
    <3>2. \A b \in Bench!Reach' : Bench!Mapped(b)' => mem'[Bench!cell(b)'] = expected'[b]
      BY <2>4 DEF Stored
    <3>3. call'.moved = 1 + before
      BY <1>1, <1>2, <1>9, <2>2 DEF Landed
    <3>. QED BY <1>9, <2>2, <3>1, <3>2, <3>3 DEF Bench!BenchPasses
  <2>8. Judged'
    BY <1>4, <2>4, <2>5, <2>7 DEF Judged
  <2>. QED BY <2>2, <2>3, <2>8 DEF BenchState
<1>. QED BY <1>7, <1>8, <1>9

-----------------------------------------------------------------------------
(* A slave on its own answers at the edge.                                 *)
LEMMA SlaveStep ==
  ASSUME BenchTypes, ~OnBus, call.phase # "done", SlaveCall, Bench!OnSlave
  PROVE  BenchState'
<1>. PICK a : a = call.addr
  OBVIOUS
<1>. PICK d : d = call.data
  OBVIOUS
<1>1. /\ a \in Bench!Reach /\ call.clocks = 0 /\ call.moved = 0 /\ call.pulses = 0 /\ Stored
      /\ UNCHANGED <<dut, missed>>
      /\ dut \in {"fake_axi_lite_slave", "sram", "boot_rom"}
  BY DEF SlaveCall, Bench!OnSlave, BenchTypes, OnBus, Bench!Duts
<1>2. /\ \A b : Bench!Target(b)' \in {"ROM", "RAM"} /\ Bench!Mapped(b) /\ Bench!Mapped(b)'
      /\ ~OnBus'
  <2>1. dut' # "xbar_testtop"
    BY <1>1
  <2>. QED BY <2>1, SameNames DEF OnBus, Bench!Target, Bench!Mapped, RealSlaves
<1>3. \A b \in Bench!Reach \ {a} : Bench!cell(b) # Bench!cell(a)
  BY <1>1, <1>2, Cells DEF BenchTypes
<1>4. ASSUME call.op = "write"
      PROVE  /\ Holds("s0", a, d) /\ d \in Bench!Word /\ (dut # "sram" => call.strb = BenchLanes)
             /\ mem' = Bench!next_mem /\ expected' = Bench!Know(a, d, call.strb)
             /\ Bench!DriveWrite(TRUE, TRUE, TRUE, Bench!slave_bresp, 1, 0)
  BY <1>4 DEF SlaveCall, Bench!OnSlave
<1>5. ASSUME call.op = "read"
      PROVE  /\ rmst["s0"].ar = "valid" /\ UNCHANGED <<mem, expected>>
             /\ Bench!DriveRead(TRUE, TRUE, OKAY, mem[Bench!cell(a)], 1, 0)
  BY <1>5, SameNames DEF SlaveCall, Bench!OnSlave
<1>6. /\ mem' \in [{Bench!cell(b) : b \in Bench!Reach} -> Bench!Word]
      /\ expected' \in [Bench!Reach -> Bench!Word]
      /\ \A b \in Bench!Reach : mem'[Bench!cell(b)] = expected'[b]
  <2>1. /\ mem \in [{Bench!cell(b) : b \in Bench!Reach} -> Bench!Word]
        /\ expected \in [Bench!Reach -> Bench!Word]
        /\ \A b \in Bench!Reach : mem[Bench!cell(b)] = expected[b]
    BY <1>1, <1>2 DEF BenchTypes, Stored
  <2>2. CASE call.op = "write" /\ dut = "boot_rom"
    <3>1. mem' = mem /\ expected' = expected
      BY <1>4, <2>2 DEF Bench!next_mem, Bench!Know
    <3>. QED BY <2>1, <3>1
  <2>3. CASE call.op = "write" /\ dut # "boot_rom"
    <3>. DEFINE new == [l \in BenchLanes |-> IF l \in call.strb THEN d[l] ELSE expected[a][l]]
    <3>1. Bench!Target(a) \in Bench!RealSlaves
      BY <1>1, <2>3, SameNames DEF Bench!Target, RealSlaves
    <3>2. expected' = [expected EXCEPT ![a] = new]
      BY <1>1, <1>4, <2>1, <2>3, <3>1 DEF Bench!Know
    <3>3. new \in Bench!Word
      BY <1>1, <1>4, <2>1, <2>3 DEF Bench!Word
    <3>4. mem' = [mem EXCEPT ![Bench!cell(a)] = new]
      <4>1. mem[Bench!cell(a)] = expected[a]
        BY <1>1, <2>1
      <4>2. Bench!next_word(expected[a]) = new
        <5>1. CASE dut = "sram"
          BY <5>1 DEF Bench!next_word
        <5>2. CASE dut # "sram"
          <6>1. new = d
            BY <1>4, <2>3, <5>2 DEF Bench!Word
          <6>. QED BY <5>2, <6>1 DEF Bench!next_word
        <5>. QED BY <5>1, <5>2
      <4>. QED BY <1>4, <2>3, <4>1, <4>2 DEF Bench!next_mem
    <3>. QED BY <1>1, <1>3, <2>1, <3>2, <3>3, <3>4
  <2>4. CASE call.op = "read"
    BY <1>5, <2>1, <2>4
  <2>. QED BY <2>2, <2>3, <2>4 DEF SlaveCall
<1>7. /\ call'.op = call.op /\ call'.addr = a /\ call'.got \in BOOLEAN /\ call'.ok /\ call'.phase = "done"
      /\ call'.moved = 1 /\ call'.pulses = 0 /\ DOMAIN call' = DOMAIN call
      /\ call.op = "write" => call'.resp = Bench!slave_bresp
      /\ call.op = "read" => call'.resp = OKAY /\ call'.data = mem[Bench!cell(a)]
  <2>1. CASE call.op = "write"
    <3>1. call' = [call EXCEPT !.got = TRUE, !.resp = Bench!slave_bresp, !.data = d,
                               !.ok = TRUE, !.moved = call.moved + 1,
                               !.pulses = call.pulses + 0, !.clocks = call.clocks + 1,
                               !.phase = "done"]
      BY <1>4, <2>1
      DEF Bench!DriveWrite, Bench!Taken, Bench!Sampled, Bench!finished, Holds
    <3>. QED BY <1>1, <3>1, <2>1 DEF BenchTypes
  <2>2. CASE call.op = "read"
    <3>1. call' = [call EXCEPT !.got = TRUE, !.resp = OKAY, !.data = mem[Bench!cell(a)],
                               !.ok = TRUE, !.moved = call.moved + 1,
                               !.pulses = call.pulses + 0, !.clocks = call.clocks + 1,
                               !.phase = "done"]
      BY <1>5, <2>2
      DEF Bench!DriveRead, Bench!Taken, Bench!Sampled
    <3>. QED BY <1>1, <3>1, <2>2 DEF BenchTypes
  <2>. QED BY <2>1, <2>2 DEF SlaveCall
<1>8. BenchTypes'
  <2>1. mst' \in [{"s0", "s1"} -> MState] /\ rmst' \in
          [{"s0", "s1"} -> [ar : {"off", "valid", "sent"}, addr : Bench!Reach \union {None}]]
    <3>1. CASE call.op = "write"
      <4>1. /\ mst' = [mst EXCEPT !["s0"].aw = "sent", !["s0"].w = "sent"]
            /\ rmst' = rmst
        BY <1>4, <3>1 DEF Bench!DriveWrite, Bench!Taken, Holds
      <4>. QED BY <4>1, BeatsChange DEF BenchTypes, Bench!W!Beat
    <3>2. CASE call.op = "read"
      <4>1. rmst' = [rmst EXCEPT !["s0"].ar = "sent"] /\ mst' = mst
        BY <1>5, <3>2 DEF Bench!DriveRead, Bench!Taken
      <4>. QED BY <4>1 DEF BenchTypes
    <3>. QED BY <3>1, <3>2 DEF SlaveCall
  <2>2. MState' = MState
    BY <1>1, SameDut DEF MState, Bench!W!Beat, Bench!Word
  <2>3. {Bench!cell(b) : b \in Bench!Reach}' = {Bench!cell(b) : b \in Bench!Reach}
    BY <1>1, SameDut
  <2>. QED BY <1>1, <1>6, <1>7, <2>1, <2>2, <2>3, SameDut DEF BenchTypes
<1>9. Stored'
  BY <1>1, <1>6, SameDut DEF Stored
<1>10. Bench!BenchPasses'
  <2>1. Bench!Target(a)' # SLAVE_ERR /\ Bench!Target(a)' # XBAR_CSR
    <3>1. "ROM" # SLAVE_ERR /\ "RAM" # SLAVE_ERR /\ "ROM" # XBAR_CSR /\ "RAM" # XBAR_CSR
      BY DEF SLAVE_ERR, XBAR_CSR
    <3>. QED BY <1>2, <3>1
  <2>2. call'.resp = Bench!RespOf(a)'
    BY <1>1, <1>7, <2>1, SameNames DEF Bench!RespOf, Bench!slave_bresp, SlaveCall
  <2>3. call.op = "read" => call'.data = Bench!DataOf(a)'
    BY <1>1, <1>2, <1>5, <1>6, <1>7 DEF Bench!DataOf
  <2>4. \A b \in Bench!Reach' : Bench!Mapped(b)' => mem'[Bench!cell(b)'] = expected'[b]
    BY <1>9 DEF Stored
  <2>. QED BY <1>2, <1>7, <2>1, <2>2, <2>3, <2>4, SameNames DEF Bench!BenchPasses, SlaveCall
<1>. QED BY <1>2, <1>7, <1>8, <1>9, <1>10 DEF BenchState, Judged

-----------------------------------------------------------------------------
(* A call begins where the one before has been judged.                     *)
LEMMA Begun ==
  ASSUME BenchState, NEW op, NEW a, NEW d, NEW strb, Bench!Begin(op, a, d, strb)
  PROVE  /\ UNCHANGED <<Bench!busRegs, dut, mem, expected, missed>> /\ Judged
         /\ call'.op = op /\ call'.addr = a /\ call'.data = d /\ call'.strb = strb
         /\ call'.got = FALSE /\ call'.resp = OKAY /\ call'.clocks = 0 /\ call'.moved = 0
         /\ call'.pulses = 0
         /\ op = "s1" => call'.phase = "s1"
         /\ op # "s1" => call'.phase = "go"
         /\ DOMAIN call' = CallFields
         /\ (OnBus' <=> OnBus) /\ Stored'
<1>1. UNCHANGED <<Bench!busRegs, dut, mem, expected, missed>> /\ Judged
  BY DEF Bench!Begin, BenchState
<1>2. call' = [Bench!NoCall EXCEPT !.op = op, !.addr = a, !.data = d, !.strb = strb, !.ok = FALSE,
                                   !.phase = IF op = "s1" THEN "s1" ELSE "go"]
  BY DEF Bench!Begin
<1>3. call' = [op |-> op, addr |-> a, data |-> d, strb |-> strb, got |-> FALSE, resp |-> OKAY,
               clocks |-> 0, moved |-> 0, pulses |-> 0,
               phase |-> IF op = "s1" THEN "s1" ELSE "go", ok |-> FALSE]
  BY <1>2, SameNames DEF Bench!NoCall
<1>4. Stored'
  BY <1>1, SameDut DEF Judged, Stored
<1>. QED BY <1>1, <1>3, <1>4, SameDut DEF CallFields

LEMMA BegunTypes ==
  ASSUME BenchTypes, UNCHANGED <<dut, mem, expected, missed>>,
         mst' \in [{"s0", "s1"} -> MState],
         rmst' \in [{"s0", "s1"} -> [ar : {"off", "valid", "sent"}, addr : Bench!Reach \union {None}]],
         DOMAIN call' = CallFields, call'.op \in {"read", "write", "contend", "s1"},
         call'.got = FALSE
  PROVE  BenchTypes'
<1>1. MState' = MState
  BY SameDut DEF MState, Bench!W!Beat, Bench!Word
<1>2. {Bench!cell(b) : b \in Bench!Reach}' = {Bench!cell(b) : b \in Bench!Reach}
  BY SameDut
<1>. QED BY <1>1, <1>2, SameDut DEF BenchTypes, CallFields

LEMMA Raised ==
  ASSUME BenchTypes, NEW m \in {"s0", "s1"}, NEW a \in Bench!Reach, NEW d \in Bench!Word
  PROVE  /\ Bench!Raise(m, a, d) \in [{"s0", "s1"} -> MState]
         /\ Bench!Raise(m, a, d)[m] = [aw |-> "valid", w |-> "valid", addr |-> a, data |-> d]
         /\ \A n \in {"s0", "s1"} : n # m => Bench!Raise(m, a, d)[n] = mst[n]
BY DEF BenchTypes, Bench!Raise, MState, Bench!W!Beat

(* The bus rests until then.                                               *)
LEMMA RestsOn ==
  ASSUME UNCHANGED <<Bench!busRegs, missed>>
  PROVE  /\ WriteRests => WriteRests' /\ \A m, a, d : WriteOnWay(m, a, d)' /\ ~Landed(a)' /\ ~Missed(a)'
         /\ WriteRests => WriteAt' = 0 /\ s_bvalid' = FALSE
         /\ ReadRests => ReadRests' /\ \A a : ReadOnWay(a)' /\ ~ReadMissed(a)'
         /\ ReadRests => ReadAt' = 0 /\ s_rvalid' = FALSE /\ r_state' = "IDLE"
         /\ Recorded => Recorded'
<1>. USE DEF Bench!busRegs
<1>1. ASSUME WriteRests
      PROVE  /\ WriteRests' /\ \A m, a, d : WriteOnWay(m, a, d)' /\ ~Landed(a)' /\ ~Missed(a)'
             /\ WriteAt' = 0 /\ s_bvalid' = FALSE
  BY <1>1 DEF WriteRests, WriteOnWay, Landed, Missed, WriteAt
<1>2. ASSUME ReadRests
      PROVE  /\ ReadRests' /\ \A a : ReadOnWay(a)' /\ ~ReadMissed(a)'
             /\ ReadAt' = 0 /\ s_rvalid' = FALSE /\ r_state' = "IDLE"
  BY <1>2 DEF ReadRests, ReadOnWay, ReadMissed, ReadAt
<1>3. Recorded => Recorded'
  BY DEF Recorded
<1>. QED BY <1>1, <1>2, <1>3

LEMMA WriteBegins ==
  ASSUME BenchState, NEW a \in Bench!Reach, NEW d \in Bench!Word, NEW strb,
         dut # "sram" => strb = BenchLanes, Bench!Write(a, d, strb)
  PROVE  BenchState'
<1>1. /\ UNCHANGED <<Bench!busRegs, dut, mem, expected, missed>> /\ Judged
      /\ call'.op = "write" /\ call'.addr = a /\ call'.data = d /\ call'.strb = strb
      /\ call'.got = FALSE /\ call'.resp = OKAY /\ call'.clocks = 0 /\ call'.moved = 0
      /\ call'.pulses = 0 /\ call'.phase = "go" /\ DOMAIN call' = CallFields
      /\ (OnBus' <=> OnBus) /\ Stored'
  <2>1. Bench!Begin("write", a, d, strb)
    BY DEF Bench!Write
  <2>2. call'.phase = "go"
    BY <2>1 DEF Bench!Begin, Bench!NoCall
  <2>. QED BY <2>1, <2>2, Begun
<1>2. mst' = Bench!Raise("s0", a, d) /\ rmst' = rmst
  BY DEF Bench!Write
<1>3. /\ mst' \in [{"s0", "s1"} -> MState]
      /\ Holds("s0", a, d)' /\ mst'["s1"] = mst["s1"]
  <2>1. BenchTypes
    BY DEF BenchState
  <2>2. /\ mst' \in [{"s0", "s1"} -> MState]
        /\ mst'["s0"] = [aw |-> "valid", w |-> "valid", addr |-> a, data |-> d]
        /\ mst'["s1"] = mst["s1"]
    BY <1>2, <2>1, Raised
  <2>. QED BY <2>2 DEF Holds
<1>4. BenchTypes'
  BY <1>1, <1>2, <1>3, BegunTypes DEF BenchState, BenchTypes
<1>5. CASE ~OnBus
  <2>1. SlaveCall'
    BY <1>1, <1>3, SameDut DEF SlaveCall, Bench!Word
  <2>. QED BY <1>1, <1>4, <1>5, <2>1 DEF BenchState
<1>6. CASE OnBus
  <2>1. BusRests /\ Recorded
    BY <1>1, <1>6 DEF Judged
  <2>2. /\ WriteOnWay("s0", a, d)' /\ ~Landed(a)' /\ ~Missed(a)' /\ WriteAt' = 0
        /\ s_bvalid' = FALSE /\ ReadRests' /\ Recorded'
    BY <1>1, <2>1, RestsOn DEF BusRests
  <2>3. ~Requesting("s1")' /\ NobodyReads'
    BY <1>2, <1>3, <2>1, <2>2 DEF BusRests, Requesting, NobodyReads
  <2>4. StoredBut(a, d)'
    BY <1>1, <2>2 DEF Stored, StoredBut
  <2>5. OneWrite'
    <3>1. call'.clocks \in Nat /\ call'.clocks <= WriteAt'
      BY <1>1, <2>2
    <3>5. call'.got = s_bvalid'
      BY <1>1, <2>2
    <3>4. /\ call'.moved = (IF Landed(a)' THEN 1 ELSE 0)
          /\ call'.pulses = (IF Missed(a)' THEN 1 ELSE 0)
      BY <1>1, <2>2
    <3>3. /\ last_decerr_waddr' = (IF Missed(a)' THEN a ELSE missed'.w)
          /\ last_decerr_raddr' = missed'.r
      BY <1>1, <2>2 DEF Recorded
    <3>2. a \in Bench!Reach' /\ d \in Bench!Word'
      BY <1>1, SameDut DEF Bench!Word
    <3>. QED BY <1>1, <1>3, <2>2, <2>3, <2>4, <3>1, <3>2, <3>3, <3>4, <3>5 DEF OneWrite
  <2>. QED BY <1>1, <1>4, <1>6, <2>5 DEF BenchState
<1>. QED BY <1>5, <1>6

LEMMA ReadBegins ==
  ASSUME BenchState, NEW a \in Bench!Reach, Bench!Read(a)
  PROVE  BenchState'
<1>1. /\ UNCHANGED <<Bench!busRegs, dut, mem, expected, missed>> /\ Judged
      /\ call'.op = "read" /\ call'.addr = a
      /\ call'.got = FALSE /\ call'.resp = OKAY /\ call'.clocks = 0 /\ call'.moved = 0
      /\ call'.pulses = 0 /\ call'.phase = "go" /\ DOMAIN call' = CallFields
      /\ (OnBus' <=> OnBus) /\ Stored'
  <2>1. Bench!Begin("read", a, None, BenchLanes)
    BY DEF Bench!Read
  <2>. QED BY <2>1, Begun
<1>2. mst' = mst /\ rmst' = [rmst EXCEPT !["s0"] = [ar |-> "valid", addr |-> a]]
  BY DEF Bench!Read
<1>3. /\ rmst' \in [{"s0", "s1"} -> [ar : {"off", "valid", "sent"}, addr : Bench!Reach \union {None}]]
      /\ rmst'["s0"].ar = "valid" /\ rmst'["s0"].addr = a /\ rmst'["s1"] = rmst["s1"]
  BY <1>2 DEF BenchState, BenchTypes
<1>4. BenchTypes'
  BY <1>1, <1>2, <1>3, BegunTypes DEF BenchState, BenchTypes
<1>5. CASE ~OnBus
  <2>1. SlaveCall'
    BY <1>1, <1>3, SameDut DEF SlaveCall
  <2>. QED BY <1>1, <1>4, <1>5, <2>1 DEF BenchState
<1>6. CASE OnBus
  <2>1. BusRests /\ Recorded
    BY <1>1, <1>6 DEF Judged
  <2>2. /\ ReadOnWay(a)' /\ ~ReadMissed(a)' /\ ReadAt' = 0 /\ r_state' = "IDLE"
        /\ s_rvalid' = FALSE /\ WriteRests' /\ Recorded'
    BY <1>1, <2>1, RestsOn DEF BusRests
  <2>3. ~Requesting("s0")' /\ ~Requesting("s1")' /\ rmst'["s1"].ar # "valid"
    BY <1>2, <1>3, <2>1 DEF BusRests, Requesting
  <2>4. OneRead'
    <3>1. call'.clocks \in Nat /\ call'.clocks <= ReadAt'
      BY <1>1, <2>2
    <3>5. call'.got = s_rvalid'
      BY <1>1, <2>2
    <3>4. /\ call'.moved = (IF decode_addr(a) \in RealSlaves /\ r_state' \in {"WAIT_R", "RESP"}
                            THEN 1 ELSE 0)
          /\ call'.pulses = (IF ReadMissed(a)' THEN 1 ELSE 0)
      BY <1>1, <2>2
    <3>3. /\ last_decerr_waddr' = missed'.w
          /\ last_decerr_raddr' = (IF ReadMissed(a)' THEN a ELSE missed'.r)
      BY <1>1, <2>2 DEF Recorded
    <3>2. a \in Bench!Reach'
      BY <1>1, SameDut
    <3>. QED BY <1>1, <1>3, <2>2, <2>3, <3>1, <3>2, <3>3, <3>4, <3>5 DEF OneRead
  <2>. QED BY <1>1, <1>4, <1>6, <2>4 DEF BenchState
<1>. QED BY <1>5, <1>6

LEMMA RawBegins ==
  ASSUME BenchState, Bench!Contend \/ Bench!WriteByS1
  PROVE  BenchState'
<1>1. Bench!Full \subseteq Bench!Word
  BY DEF Bench!Full, Bench!Word
<1>2. CASE Bench!Contend
  <2>1. PICK a0 \in Bench!Reach, a1 \in Bench!Reach, d0 \in Bench!Word, d1_ \in Bench!Word :
          /\ Bench!Mapped(a0) /\ Bench!Mapped(a1) /\ dut = "xbar_testtop"
          /\ Bench!Begin("contend", a1, d1_, BenchLanes)
          /\ mst' = [Bench!Raise("s0", a0, d0) EXCEPT !["s1"] = Bench!Raise("s1", a1, d1_)["s1"]]
          /\ UNCHANGED rmst
    BY <1>1, <1>2 DEF Bench!Contend
  <2>2. /\ UNCHANGED <<Bench!busRegs, dut, mem, expected, missed>> /\ Judged
        /\ call'.op = "contend" /\ call'.addr = a1 /\ call'.data = d1_
        /\ call'.got = FALSE /\ call'.resp = OKAY /\ call'.clocks = 0 /\ call'.moved = 0
        /\ call'.phase = "go" /\ DOMAIN call' = CallFields /\ OnBus' /\ Stored'
    <3>1. Bench!Begin("contend", a1, d1_, BenchLanes) /\ OnBus
      BY <2>1 DEF OnBus
    <3>. QED BY <3>1, Begun
  <2>3. /\ mst' \in [{"s0", "s1"} -> MState]
        /\ mst'["s0"].aw = "valid" /\ mst'["s0"].w = "valid"
        /\ mst'["s0"].addr = a0 /\ mst'["s0"].data = d0 /\ Holds("s1", a1, d1_)'
    <3>. DEFINE one == Bench!Raise("s0", a0, d0)
                other == Bench!Raise("s1", a1, d1_)
    <3>1. BenchTypes
      BY DEF BenchState
    <3>2. /\ one \in [{"s0", "s1"} -> MState] /\ other \in [{"s0", "s1"} -> MState]
          /\ one["s0"] = [aw |-> "valid", w |-> "valid", addr |-> a0, data |-> d0]
          /\ other["s1"] = [aw |-> "valid", w |-> "valid", addr |-> a1, data |-> d1_]
      BY <3>1, Raised
    <3>3. mst' = [one EXCEPT !["s1"] = other["s1"]]
      BY <2>1
    <3>. HIDE DEF one, other
    <3>4. /\ mst' \in [{"s0", "s1"} -> MState]
          /\ mst'["s0"] = one["s0"] /\ mst'["s1"] = other["s1"]
      BY <3>2, <3>3
    <3>. QED BY <3>2, <3>4 DEF Holds
  <2>4. BenchTypes'
    BY <2>1, <2>2, <2>3, BegunTypes DEF BenchState, BenchTypes
  <2>5. BusRests /\ Recorded
    BY <2>1, <2>2 DEF Judged, OnBus
  <2>6. /\ WriteOnWay("s0", a0, d0)' /\ ~Landed(a0)' /\ WriteAt' = 0 /\ ReadRests' /\ Recorded'
    BY <2>2, <2>5, RestsOn DEF BusRests
  <2>7. NobodyReads'
    BY <2>1, <2>5, <2>6 DEF BusRests, NobodyReads
  <2>8. StoredBut(a0, d0)'
    BY <2>2, <2>6 DEF Stored, StoredBut
  <2>9. RawWrites'
    BY <2>1, <2>2, <2>3, <2>6, <2>7, <2>8, SameDut DEF RawWrites, Bench!Word
  <2>. QED BY <2>2, <2>4, <2>9 DEF BenchState
<1>3. CASE Bench!WriteByS1
  <2>1. PICK a \in Bench!Reach, d \in Bench!Word :
          /\ Bench!Mapped(a) /\ dut = "xbar_testtop" /\ Bench!Begin("s1", a, d, BenchLanes)
          /\ mst' = Bench!Raise("s1", a, d) /\ UNCHANGED rmst
    BY <1>1, <1>3 DEF Bench!WriteByS1
  <2>2. /\ UNCHANGED <<Bench!busRegs, dut, mem, expected, missed>> /\ Judged
        /\ call'.op = "s1" /\ call'.addr = a /\ call'.data = d
        /\ call'.got = FALSE /\ call'.resp = OKAY /\ call'.clocks = 0 /\ call'.moved = 0
        /\ call'.phase = "s1" /\ DOMAIN call' = CallFields /\ OnBus' /\ Stored'
    <3>1. Bench!Begin("s1", a, d, BenchLanes) /\ OnBus
      BY <2>1 DEF OnBus
    <3>. QED BY <3>1, Begun
  <2>3. /\ mst' \in [{"s0", "s1"} -> MState] /\ Holds("s1", a, d)' /\ mst'["s0"] = mst["s0"]
    <3>1. BenchTypes
      BY DEF BenchState
    <3>2. /\ mst' \in [{"s0", "s1"} -> MState]
          /\ mst'["s1"] = [aw |-> "valid", w |-> "valid", addr |-> a, data |-> d]
          /\ mst'["s0"] = mst["s0"]
      BY <2>1, <3>1, Raised
    <3>. QED BY <3>2 DEF Holds
  <2>4. BenchTypes'
    BY <2>1, <2>2, <2>3, BegunTypes DEF BenchState, BenchTypes
  <2>5. BusRests /\ Recorded
    BY <2>1, <2>2 DEF Judged, OnBus
  <2>6. /\ WriteOnWay("s1", a, d)' /\ ~Landed(a)' /\ WriteAt' = 0 /\ ReadRests' /\ Recorded'
    BY <2>2, <2>5, RestsOn DEF BusRests
  <2>7. NobodyReads' /\ ~Requesting("s0")'
    BY <2>1, <2>3, <2>5, <2>6 DEF BusRests, NobodyReads, Requesting
  <2>8. StoredBut(a, d)'
    BY <2>2, <2>6 DEF Stored, StoredBut
  <2>9. RawWrites'
    BY <2>1, <2>2, <2>3, <2>6, <2>7, <2>8, SameDut DEF RawWrites, Bench!Word
  <2>. QED BY <2>2, <2>4, <2>9 DEF BenchState
<1>. QED BY <1>2, <1>3

(* After reset the bus rests and every word is what the bench expects.     *)
LEMMA BenchBegins == Bench!BenchInit => BenchState
<1>. SUFFICES ASSUME Bench!BenchInit PROVE BenchState
  OBVIOUS
<1>1. /\ dut \in Bench!Duts /\ missed = [w |-> None, r |-> None] /\ call = Bench!NoCall
      /\ expected \in [Bench!Reach -> Bench!Word]
      /\ mem = [c \in {Bench!cell(a) : a \in Bench!Reach} |->
                 expected[CHOOSE a \in Bench!Reach : Bench!cell(a) = c]]
  BY DEF Bench!BenchInit, Bench!Full, Bench!Word
<1>2. /\ call.op = "none" /\ call.phase = "done" /\ call.ok = TRUE /\ call.got = FALSE
      /\ DOMAIN call = CallFields
  BY <1>1 DEF Bench!NoCall, CallFields
<1>3. WriteRests /\ last_decerr_waddr = None
  BY SameNames DEF Bench!BenchInit, Bench!W!Init, WriteRests, Bench!W!IdleSlave
<1>4. ReadRests /\ last_decerr_raddr = None
  BY SameNames DEF Bench!BenchInit, Bench!R!Init, ReadRests, Bench!R!IdleSlave
<1>5. /\ mst = [m \in {"s0", "s1"} |-> [aw |-> "off", w |-> "off", addr |-> None, data |-> None]]
      /\ rmst = [m \in {"s0", "s1"} |-> [ar |-> "off", addr |-> None]]
  BY DEF Bench!BenchInit, Bench!W!Init, Bench!R!Init, Bench!W!Masters, Bench!R!Masters,
     Bench!W!NoRequest, Bench!R!NoRead
<1>6. BusRests /\ Recorded
  BY <1>1, <1>3, <1>4, <1>5 DEF BusRests, Recorded, Requesting
<1>7. Stored
  <2>1. ASSUME NEW b \in Bench!Reach, Bench!Mapped(b) PROVE mem[Bench!cell(b)] = expected[b]
    <3>. DEFINE a == CHOOSE a \in Bench!Reach : Bench!cell(a) = Bench!cell(b)
    <3>1. a \in Bench!Reach /\ Bench!cell(a) = Bench!cell(b)
      OBVIOUS
    <3>4. mem[Bench!cell(b)] = expected[a]
      BY <1>1
    <3>. HIDE DEF a
    <3>2. Bench!Mapped(a)
      <4>1. CASE OnBus
        <5>1. decode_addr(a) = decode_addr(b)
          BY <3>1, <4>1, SameNames DEF OnBus, Bench!cell
        <5>2. \A x : Bench!Mapped(x) <=> decode_addr(x) \in RealSlaves
          BY <4>1, SameNames DEF OnBus, Bench!Mapped, Bench!Target
        <5>. QED BY <2>1, <5>1, <5>2
      <4>2. CASE ~OnBus
        BY <1>1, <4>2, Cells
      <4>. QED BY <4>1, <4>2
    <3>3. a = b
      BY <1>1, <2>1, <3>1, <3>2, Cells
    <3>. QED BY <3>3, <3>4
  <2>. QED BY <2>1 DEF Stored
<1>8. BenchTypes
  <2>1. mem \in [{Bench!cell(a) : a \in Bench!Reach} -> Bench!Word]
    <3>1. ASSUME NEW c \in {Bench!cell(a) : a \in Bench!Reach} PROVE mem[c] \in Bench!Word
      <4>1. \E a \in Bench!Reach : Bench!cell(a) = c
        OBVIOUS
      <4>2. (CHOOSE a \in Bench!Reach : Bench!cell(a) = c) \in Bench!Reach
        BY <4>1
      <4>. QED BY <1>1, <4>2
    <3>. QED BY <1>1, <3>1
  <2>2. mst \in [{"s0", "s1"} -> MState]
    BY <1>5 DEF MState, Bench!W!Beat
  <2>3. rmst \in [{"s0", "s1"} -> [ar : {"off", "valid", "sent"}, addr : Bench!Reach \union {None}]]
    BY <1>5
  <2>. QED BY <1>1, <1>2, <2>1, <2>2, <2>3 DEF BenchTypes
<1>9. Bench!BenchPasses
  BY <1>2, <1>7 DEF Bench!BenchPasses, Stored
<1>. QED BY <1>2, <1>6, <1>7, <1>8, <1>9 DEF BenchState, Judged

(* What the benches ask after a call, and while two masters write.         *)
LEMMA BenchJudges == BenchState => Bench!BenchPasses /\ Bench!S0Wins
<1>. SUFFICES ASSUME BenchState PROVE Bench!BenchPasses /\ Bench!S0Wins
  OBVIOUS
<1>1. CASE call.phase = "done"
  BY <1>1 DEF BenchState, Judged, Bench!S0Wins
<1>2. CASE call.phase # "done"
  <2>1. Bench!BenchPasses
    BY <1>2 DEF Bench!BenchPasses
  <2>2. ASSUME call.op = "contend", call.phase = "go" PROVE ~Bench!W!m_awready("s1")
    <3>1. OnBus
      BY <1>2, <2>2 DEF BenchState, SlaveCall
    <3>2. RawWrites
      BY <1>2, <2>2, <3>1 DEF BenchState
    <3>3. /\ mst["s0"].aw = "valid"
          /\ WriteOnWay("s0", mst["s0"].addr, mst["s0"].data)
      BY <2>2, <3>2 DEF RawWrites
    <3>. QED
      BY <3>3
      DEF WriteOnWay, Bench!W!m_awready, Bench!W!w_grant_eff, Bench!W!w_open, Bench!W!w_arb,
          Bench!W!Requests, Bench!W!cur_awready
  <2>. QED BY <2>1, <2>2 DEF Bench!S0Wins
<1>. QED BY <1>1, <1>2

LEMMA CallBegins ==
  ASSUME BenchState,
         Bench!XbarCalls \/ Bench!SelfTestCalls \/ Bench!RomCalls \/ Bench!SramCalls
  PROVE  BenchState'
<1>1. Bench!Full \subseteq Bench!Word
  BY DEF Bench!Full, Bench!Word
<1>2. ASSUME NEW where, where = Bench!Reach, Bench!WordCalls(where) PROVE BenchState'
  <2>1. PICK a \in where : Bench!Read(a) \/ \E d \in Bench!Full : Bench!Write(a, d, BenchLanes)
    BY <1>2 DEF Bench!WordCalls
  <2>2. CASE Bench!Read(a)
    BY <1>2, <2>2, ReadBegins
  <2>3. CASE \E d \in Bench!Full : Bench!Write(a, d, BenchLanes)
    BY <1>1, <1>2, <2>3, WriteBegins
  <2>. QED BY <2>1, <2>2, <2>3
<1>3. CASE Bench!XbarCalls
  BY <1>2, <1>3 DEF Bench!XbarCalls, Bench!Reach
<1>4. CASE Bench!SelfTestCalls
  BY <1>2, <1>4 DEF Bench!SelfTestCalls, Bench!Reach
<1>5. CASE Bench!RomCalls
  BY <1>2, <1>5 DEF Bench!RomCalls, Bench!Reach
<1>6. CASE Bench!SramCalls
  <2>1. BenchWordAddr = Bench!Reach /\ dut = "sram"
    BY <1>6 DEF Bench!SramCalls, Bench!Reach
  <2>2. PICK a \in BenchWordAddr :
          Bench!Read(a) \/ \E d \in Bench!Word, strb \in SUBSET BenchLanes :
                             Bench!Write(a, d, strb)
    BY <1>6 DEF Bench!SramCalls
  <2>3. CASE Bench!Read(a)
    BY <2>1, <2>3, ReadBegins
  <2>4. ASSUME NEW d \in Bench!Word, NEW strb, Bench!Write(a, d, strb) PROVE BenchState'
    BY <2>1, <2>4, WriteBegins
  <2>. QED BY <2>2, <2>3, <2>4
<1>. QED BY <1>3, <1>4, <1>5, <1>6

(* Nothing has moved.                                                      *)
LEMMA BenchStutters ==
  ASSUME BenchState,
         UNCHANGED <<Bench!busRegs, mst, rmst, dut, mem, call, expected, missed>>
  PROVE  BenchState'
<1>. USE SameDut DEF Bench!busRegs
<1>1. /\ \A m : Requesting(m)' = Requesting(m)
      /\ \A m, a, d : WriteOnWay(m, a, d)' = WriteOnWay(m, a, d)
      /\ \A a : ReadOnWay(a)' = ReadOnWay(a)
      /\ WriteRests' = WriteRests /\ ReadRests' = ReadRests
      /\ WriteAt' = WriteAt /\ ReadAt' = ReadAt
  BY DEF Requesting, WriteOnWay, ReadOnWay, WriteRests, ReadRests, WriteAt, ReadAt
<1>2. /\ \A a : Landed(a)' = Landed(a) /\ Missed(a)' = Missed(a) /\ ReadMissed(a)' = ReadMissed(a)
      /\ Stored' = Stored /\ \A a, d : StoredBut(a, d)' = StoredBut(a, d)
      /\ \A m, a, d : Holds(m, a, d)' = Holds(m, a, d)
      /\ Recorded' = Recorded /\ Bench!BenchPasses' = Bench!BenchPasses
  BY DEF Landed, Missed, ReadMissed, Stored, StoredBut, Holds, Recorded, Bench!BenchPasses,
     Bench!RespOf, Bench!DataOf
<1>3. BenchTypes'
  <2>1. MState' = MState /\ Bench!Word' = Bench!Word
    BY DEF MState, Bench!W!Beat, Bench!Word
  <2>2. {Bench!cell(b) : b \in Bench!Reach}' = {Bench!cell(b) : b \in Bench!Reach}
    OBVIOUS
  <2>. QED BY <2>1, <2>2 DEF BenchTypes, BenchState, CallFields
<1>4. SlaveCall' = SlaveCall /\ Judged' = Judged
  BY <1>1, <1>2 DEF SlaveCall, Judged, BusRests, Bench!Word
<1>5. OneWrite' = OneWrite
  BY <1>1, <1>2 DEF OneWrite, NobodyReads, Bench!Word
<1>6. OneRead' = OneRead
  BY <1>1, <1>2 DEF OneRead, ReadData
<1>7. RawWrites' = RawWrites
  BY <1>1, <1>2 DEF RawWrites, NobodyReads, Bench!Word
<1>. QED BY <1>3, <1>4, <1>5, <1>6, <1>7 DEF BenchState

(* Every step of a bench.                                                  *)
LEMMA BenchSteps == BenchState /\ Bench!BenchNext => BenchState'
<1>. SUFFICES ASSUME BenchState, Bench!BenchNext PROVE BenchState'
  OBVIOUS
<1>1. CASE Bench!XbarCalls \/ Bench!SelfTestCalls \/ Bench!RomCalls \/ Bench!SramCalls
  BY <1>1, CallBegins
<1>2. CASE Bench!Contend \/ Bench!WriteByS1
  BY <1>2, RawBegins
<1>3. CASE Bench!OnSlave
  <2>1. ~OnBus /\ call.phase # "done"
    BY <1>3 DEF Bench!OnSlave, OnBus
  <2>2. BenchTypes /\ SlaveCall
    BY <2>1 DEF BenchState
  <2>. QED BY <1>3, <2>1, <2>2, SlaveStep
<1>4. CASE Bench!OnXbar
  <2>1. OnBus /\ call.op \in {"write", "read"} /\ call.phase # "done"
    BY <1>4 DEF Bench!OnXbar, OnBus
  <2>2. BenchTypes /\ (call.op = "write" => OneWrite) /\ (call.op = "read" => OneRead)
    BY <2>1 DEF BenchState
  <2>3. CASE call.op = "write"
    BY <1>4, <2>1, <2>2, <2>3, WriteStep
  <2>4. CASE call.op = "read"
    BY <1>4, <2>1, <2>2, <2>4, ReadStep
  <2>. QED BY <2>1, <2>3, <2>4
<1>5. CASE Bench!RawEdge
  <2>1. OnBus /\ call.op \in {"contend", "s1"} /\ call.phase # "done" /\ RawWrites /\ BenchTypes
    BY <1>5 DEF Bench!RawEdge, BenchState, SlaveCall
  <2>2. call.phase \in {"go", "granted", "s1"} /\ (call.op = "s1" => call.phase = "s1")
    BY <2>1 DEF RawWrites
  <2>. QED BY <1>5, <2>1, <2>2, GoStep, SecondStep
<1>6. CASE Bench!Return
  BY <1>6, BenchStutters DEF Bench!Return
<1>. QED BY <1>1, <1>2, <1>3, <1>4, <1>5, <1>6 DEF Bench!BenchNext

(* Whatever calls the benches of the bus make, in any order, their checks  *)
(* pass after each one (on time, the response of the target, the value     *)
(* last written, the miss recorded and signalled once), a call makes one   *)
(* transfer although the driver holds VALID too long, and s0 wins a        *)
(* contended write (axi_lite_xbar/dv/sim_main.cpp:125-279,                 *)
(* axi_lite_bfm.h:41-77).                                                  *)
THEOREM BenchesPass == MCSpec => []BenchInv
<1>1. MCInit => BenchIInv
  BY BenchBegins DEF MCInit, BenchIInv
<1>2. ASSUME BenchIInv, [MCNext]_MCVars PROVE BenchIInv'
  <2>. SUFFICES ASSUME half' = "bench" PROVE BenchState'
    BY DEF BenchIInv
  <2>1. CASE BenchStep
    BY <1>2, <2>1, BenchSteps DEF BenchStep, BenchIInv
  <2>2. CASE MemoryStep
    BY <2>2 DEF MemoryStep
  <2>3. CASE CoreStep(Next)
    BY <2>3 DEF CoreStep
  <2>4. CASE UNCHANGED MCVars
    <3>1. UNCHANGED <<Bench!busRegs, mst, rmst, dut, mem, call, expected, missed>>
      BY <2>4 DEF MCVars, memoryVars, ramVars, benchVars, Bench!busRegs
    <3>2. BenchState
      BY <1>2, <2>4 DEF MCVars, BenchIInv
    <3>. QED BY <3>1, <3>2, BenchStutters
  <2>. QED BY <1>2, <2>1, <2>2, <2>3, <2>4 DEF MCNext
<1>3. BenchIInv => BenchInv
  BY BenchJudges DEF BenchIInv, BenchInv
<1>. QED BY <1>1, <1>2, <1>3, PTL DEF MCSpec

=============================================================================
