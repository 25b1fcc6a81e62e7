------------------------------ MODULE XbarWrite ------------------------------
(***************************************************************************)
(* The write half of the AXI4-Lite crossbar (axi_lite_xbar.v): fixed       *)
(* priority arbitration between two masters, independent latching of the   *)
(* address (AW) and data (W) beats, issue to the decoded slave, response   *)
(* (B) back to the master that owns the grant, and the LAST_DECERR_WADDR   *)
(* diagnostic register with its interrupt pulse.                           *)
(*                                                                         *)
(* One step is one rising edge of clk: the crossbar, both masters and all  *)
(* slaves move together, each reading the values before the edge.          *)
(*                                                                         *)
(* The masters are any AXI4-Lite masters with one outstanding write: AW    *)
(* and W may be raised on different cycles, VALID is held until READY, and *)
(* B is accepted on any later cycle.  The slaves in FastSlaves are the     *)
(* ones of this SoC (always ready, response up for exactly one cycle); all *)
(* others may delay each READY and the response.                           *)
(***************************************************************************)
EXTENDS AddrMap

CONSTANTS
  Addr,        \* addresses the masters write to
  Data,        \* write payloads (WDATA with its WSTRB)
  None,        \* no value: an empty latch or an idle master
  FastSlaves   \* slaves with the always-ready, one-cycle-response timing

Masters == {"s0", "s1"}          \* s0 = CPU, s1 = JTAG bridge

ASSUME AddrAssumption == Addr \subseteq AddrSpace /\ Addr # {}
ASSUME NoneAssumption ==
  None \notin Addr /\ None \notin Data /\ None \notin Resp /\ None \notin Addr \X Data
ASSUME SetAssumption  == FastSlaves \subseteq RealSlaves

VARIABLES
  \* registers of the write path
  w_state, w_grant, w_have_aw, w_have_w, w_issued_aw, w_issued_w,
  w_sel, w_addr_lat, w_data_lat, s_bvalid, s_bresp,
  \* diagnostic CSR
  last_decerr_waddr, decerr_irq_w,
  \* the two masters' write channels, and the slaves' write channels
  mst, slv,
  \* history: last write each slave performed; performed[m]: m's current
  \* write has taken effect
  store, performed

xbarVars == <<w_state, w_grant, w_have_aw, w_have_w, w_issued_aw, w_issued_w,
              w_sel, w_addr_lat, w_data_lat, s_bvalid, s_bresp,
              last_decerr_waddr, decerr_irq_w>>
vars == <<xbarVars, mst, slv, store, performed>>

-----------------------------------------------------------------------------
(* State. *)

WStates == {"IDLE", "ISSUE", "WAIT_B", "RESP"}

(* A channel beat of a master: none wanted, not raised yet, VALID, taken. *)
Beat == {"off", "todo", "valid", "sent"}

MasterState == [aw : Beat, w : Beat, addr : Addr \union {None}, data : Data \union {None}]
NoRequest   == [aw |-> "off", w |-> "off", addr |-> None, data |-> None]
NewRequests ==
  {r \in [aw : {"todo", "valid"}, w : {"todo", "valid"}, addr : Addr, data : Data] :
     "valid" \in {r.aw, r.w}}

Busy(m) == mst[m].aw # "off"

(* aw, w: beats taken and not yet used; b: the response being presented. *)
SlaveState == [aw : Addr \union {None}, w : Data \union {None}, b : Resp \union {None}]
IdleSlave  == [aw |-> None, w |-> None, b |-> None]

TypeOK ==
  /\ w_state \in WStates
  /\ w_grant \in Masters
  /\ w_have_aw \in BOOLEAN /\ w_have_w \in BOOLEAN
  /\ w_issued_aw \in BOOLEAN /\ w_issued_w \in BOOLEAN
  /\ w_sel \in Targets
  /\ w_addr_lat \in Addr \union {None} /\ w_data_lat \in Data \union {None}
  /\ s_bvalid \in BOOLEAN /\ s_bresp \in Resp
  /\ last_decerr_waddr \in Addr \union {None}
  /\ decerr_irq_w \in BOOLEAN
  /\ mst \in [Masters -> MasterState]
  /\ slv \in [RealSlaves -> SlaveState]
  /\ store \in [RealSlaves -> (Addr \X Data) \union {None}]
  /\ performed \in [Masters -> BOOLEAN]
  \* the latches are filled before they are driven to a slave
  /\ w_state # "IDLE" => w_addr_lat # None /\ w_data_lat # None

(* Reset.  The registers that the reset branch leaves alone (w_issued_*, w_sel,  *)
(* the latches, s_bresp) are written before they are read.                 *)
Init ==
  /\ w_state = "IDLE" /\ w_grant = "s0"
  /\ w_have_aw = FALSE /\ w_have_w = FALSE
  /\ w_issued_aw = FALSE /\ w_issued_w = FALSE
  /\ w_sel = SLAVE_ERR /\ w_addr_lat = None /\ w_data_lat = None
  /\ s_bvalid = FALSE /\ s_bresp = OKAY
  /\ last_decerr_waddr = None /\ decerr_irq_w = FALSE
  /\ mst = [m \in Masters |-> NoRequest]
  /\ slv = [s \in RealSlaves |-> IdleSlave]
  /\ store = [s \in RealSlaves |-> None]
  /\ performed = [m \in Masters |-> FALSE]

-----------------------------------------------------------------------------
(* Arbitration and the combinational nets. *)

Requests(m) == mst[m].aw = "valid" \/ mst[m].w = "valid"

(* The operators named Bad... are faulty variants, never part of the model: *)
(* each is a plausible slip that one of the properties must catch.          *)
BadOpenWithoutState == ~w_have_aw /\ ~w_have_w

w_open      == w_state = "IDLE" /\ ~w_have_aw /\ ~w_have_w
w_arb       == IF Requests("s0") \/ ~Requests("s1") THEN "s0" ELSE "s1"
w_grant_eff == IF w_open THEN w_arb ELSE w_grant

cur_awready == w_state = "IDLE" /\ ~w_have_aw
cur_wready  == w_state = "IDLE" /\ ~w_have_w

m_awready(m) == m = w_grant_eff /\ cur_awready
m_wready(m)  == m = w_grant_eff /\ cur_wready
m_bvalid(m)  == m = w_grant /\ s_bvalid

aw_fire    == mst[w_grant_eff].aw = "valid" /\ cur_awready
w_fire     == mst[w_grant_eff].w = "valid" /\ cur_wready
aw_ready_c == w_have_aw \/ aw_fire
w_ready_c  == w_have_w \/ w_fire

cur_awaddr == mst[w_grant_eff].addr
cur_wdata  == mst[w_grant_eff].data

BadMissNeedsBoth == aw_fire /\ w_fire /\ decode_addr(cur_awaddr) = SLAVE_ERR
w_miss == aw_fire /\ decode_addr(cur_awaddr) = SLAVE_ERR

slv_awvalid(s) == w_state = "ISSUE" /\ w_sel = s /\ ~w_issued_aw
slv_wvalid(s)  == w_state = "ISSUE" /\ w_sel = s /\ ~w_issued_w
slv_bready(s)  == w_state = "WAIT_B" /\ w_sel = s

(* The response mux; a target without a slave reads as a constant SLVERR.  *)
w_slave_b == IF w_sel \in RealSlaves THEN slv[w_sel].b ELSE SLVERR

-----------------------------------------------------------------------------
(* The clocked process of the write path, one action per state. *)

UpdateGrant == w_grant' = IF w_open THEN w_arb ELSE w_grant

WIdle ==
  LET both == aw_ready_c /\ w_ready_c IN
  /\ w_state = "IDLE"
  /\ UpdateGrant
  /\ w_addr_lat' = IF aw_fire THEN cur_awaddr ELSE w_addr_lat
  /\ w_sel'      = IF aw_fire THEN decode_addr(cur_awaddr) ELSE w_sel
  /\ w_data_lat' = IF w_fire THEN cur_wdata ELSE w_data_lat
  /\ last_decerr_waddr' = IF w_miss THEN cur_awaddr ELSE last_decerr_waddr
  /\ decerr_irq_w' = w_miss
  /\ w_have_aw' = (aw_ready_c /\ ~both)
  /\ w_have_w'  = (w_ready_c /\ ~both)
  /\ w_state' = IF both THEN "ISSUE" ELSE "IDLE"
  /\ w_issued_aw' = (w_issued_aw /\ ~both)
  /\ w_issued_w'  = (w_issued_w /\ ~both)
  /\ UNCHANGED <<s_bvalid, s_bresp>>

(* Targets without a slave go straight to the response; otherwise each     *)
(* channel is driven until the slave takes it.                             *)
local_target == w_sel \in {SLAVE_ERR, XBAR_CSR}

BadIssuedNextCycle(awready, wready) == w_issued_aw /\ w_issued_w
w_both_issued(awready, wready) == (w_issued_aw \/ awready) /\ (w_issued_w \/ wready)

BadWIssue(awready, wready) ==
  /\ w_state = "ISSUE"
  /\ UpdateGrant
  /\ w_state' = IF local_target THEN "RESP"
                ELSE IF awready /\ wready THEN "WAIT_B" ELSE "ISSUE"
  /\ decerr_irq_w' = FALSE
  /\ UNCHANGED <<w_have_aw, w_have_w, w_issued_aw, w_issued_w, w_sel,
                 w_addr_lat, w_data_lat, s_bvalid, s_bresp, last_decerr_waddr>>

WIssue(awready, wready) ==
  /\ w_state = "ISSUE"
  /\ UpdateGrant
  /\ w_issued_aw' = (w_issued_aw \/ (~local_target /\ awready))
  /\ w_issued_w'  = (w_issued_w \/ (~local_target /\ wready))
  /\ w_state' = IF local_target THEN "RESP"
                ELSE IF w_both_issued(awready, wready) THEN "WAIT_B" ELSE "ISSUE"
  /\ decerr_irq_w' = FALSE
  /\ UNCHANGED <<w_have_aw, w_have_w, w_sel, w_addr_lat, w_data_lat,
                 s_bvalid, s_bresp, last_decerr_waddr>>

WWaitB ==
  /\ w_state = "WAIT_B"
  /\ UpdateGrant
  /\ IF w_slave_b # None
     THEN s_bresp' = w_slave_b /\ w_state' = "RESP"
     ELSE UNCHANGED <<s_bresp, w_state>>
  /\ decerr_irq_w' = FALSE
  /\ UNCHANGED <<w_have_aw, w_have_w, w_issued_aw, w_issued_w, w_sel,
                 w_addr_lat, w_data_lat, s_bvalid, last_decerr_waddr>>

(* The code of a local answer is set once, before the response is shown.   *)
resp_code == IF w_sel = SLAVE_ERR /\ ~s_bvalid THEN DECERR
             ELSE IF w_sel = XBAR_CSR /\ ~s_bvalid THEN SLVERR ELSE s_bresp

WResp(cur_bready) ==
  LET taken == s_bvalid /\ cur_bready IN
  /\ w_state = "RESP"
  /\ UpdateGrant
  /\ s_bresp' = resp_code
  /\ s_bvalid' = ~taken
  /\ w_state' = IF taken THEN "IDLE" ELSE "RESP"
  /\ decerr_irq_w' = FALSE
  /\ UNCHANGED <<w_have_aw, w_have_w, w_issued_aw, w_issued_w, w_sel,
                 w_addr_lat, w_data_lat, last_decerr_waddr>>

WritePath(awready, wready, cur_bready) ==
  \/ WIdle
  \/ WIssue(awready, wready)
  \/ WWaitB
  \/ WResp(cur_bready)

-----------------------------------------------------------------------------
(* Masters.  Whether the owner of the response takes it at this edge is    *)
(* cur_bready.                                                             *)

NextBeat(b, ready) ==
  IF b = "todo" THEN {"todo", "valid"}
  ELSE IF b = "valid" /\ ready THEN {"sent"} ELSE {b}

MasterNext(m, cur_bready) ==
  IF m_bvalid(m) /\ cur_bready
  THEN {NoRequest} \union NewRequests
  ELSE IF ~Busy(m)
  THEN {mst[m]} \union NewRequests
  ELSE {[aw |-> aw, w |-> w, addr |-> mst[m].addr, data |-> mst[m].data] :
          aw \in NextBeat(mst[m].aw, m_awready(m)),
          w  \in NextBeat(mst[m].w, m_wready(m))}

MasterEdge(cur_bready) ==
  \E n0 \in MasterNext("s0", cur_bready), n1 \in MasterNext("s1", cur_bready) :
    mst' = [m \in Masters |-> IF m = "s0" THEN n0 ELSE n1]

-----------------------------------------------------------------------------
(* Slaves. *)

SlaveResp(s) == IF s = "ROM" THEN SLVERR ELSE OKAY

(* do_write = awvalid && wvalid; bvalid is do_write one cycle later.       *)
do_write(s)  == slv_awvalid(s) /\ slv_wvalid(s)
FastNext(s) == [aw |-> None, w |-> None, b |-> IF do_write(s) THEN SlaveResp(s) ELSE None]

(* A slave that takes AW and W when it likes, performs the write some time *)
(* after it has both, and holds its response until BREADY.                 *)
aw_held(s, awready) == IF slv_awvalid(s) /\ awready THEN w_addr_lat ELSE slv[s].aw
w_held(s, wready)   == IF slv_wvalid(s) /\ wready THEN w_data_lat ELSE slv[s].w
SlowCommits(s, awready, wready, respond) ==
  /\ respond /\ slv[s].b = None
  /\ aw_held(s, awready) # None /\ w_held(s, wready) # None
SlowNext(s, awready, wready, respond) ==
  IF SlowCommits(s, awready, wready, respond)
  THEN [aw |-> None, w |-> None, b |-> SlaveResp(s)]
  ELSE [aw |-> aw_held(s, awready), w |-> w_held(s, wready),
        b |-> IF slv_bready(s) THEN None ELSE slv[s].b]

Commits(s, awready, wready, respond) ==
  IF s \in FastSlaves THEN do_write(s) ELSE SlowCommits(s, awready, wready, respond)

(* A write that commits changes its slave, except that the ROM only        *)
(* answers; it counts as a write of the master that holds the grant.       *)
SlaveEdge(awready, wready, respond, cur_bready) ==
  LET commits(s) == Commits(s, awready, wready, respond) IN
  /\ slv' = [s \in RealSlaves |->
               IF s \in FastSlaves THEN FastNext(s)
               ELSE SlowNext(s, awready, wready, respond)]
  /\ store' = [s \in RealSlaves |->
                 IF commits(s) /\ s # "ROM"
                 THEN <<IF s \in FastSlaves THEN w_addr_lat ELSE aw_held(s, awready),
                        IF s \in FastSlaves THEN w_data_lat ELSE w_held(s, wready)>>
                 ELSE store[s]]
  /\ performed' = [m \in Masters |->
                     \/ m = w_grant /\ \E s \in RealSlaves : commits(s)
                     \/ performed[m] /\ ~(m_bvalid(m) /\ cur_bready)]

-----------------------------------------------------------------------------
(* One clock edge.  A fast slave, or no slave, is always ready.            *)

SlowSelected == w_sel \in RealSlaves \ FastSlaves

(* What an input may be at this edge, where it is looked at.               *)
Input(looked_at) == IF looked_at THEN BOOLEAN ELSE {TRUE}

Next ==
  \E awready, wready, respond \in Input(SlowSelected), cur_bready \in Input(s_bvalid) :
    /\ WritePath(awready, wready, cur_bready)
    /\ MasterEdge(cur_bready)
    /\ SlaveEdge(awready, wready, respond, cur_bready)

Spec == Init /\ [][Next]_vars

(* The clock runs; a master raises the beats it owes and takes its         *)
(* response; a slow slave takes the beats it is offered and answers them.  *)
MastersGoOn ==
  \A m \in Masters : []<>("todo" \notin {mst[m].aw, mst[m].w} /\ ~m_bvalid(m))
SlavesGoOn ==
  \A s \in RealSlaves \ FastSlaves :
    /\ []<>~(slv_awvalid(s) /\ slv[s].aw = None)
    /\ []<>~(slv_wvalid(s) /\ slv[s].w = None)
    /\ []<>~(slv[s].aw # None /\ slv[s].w # None)
Fairness == WF_vars(Next) /\ MastersGoOn /\ SlavesGoOn

FairSpec == Spec /\ Fairness

-----------------------------------------------------------------------------
(* Safety. *)

(* A transaction never changes hands: every beat the crossbar has latched  *)
(* is the current beat of the master that owns the grant, so an address is *)
(* never paired with the other master's data and the response goes back to *)
(* the master that asked (the w_open lock, axi_lite_xbar.v:239-255).       *)
LatchedBeatsAreTheOwners ==
  /\ w_have_aw \/ w_state # "IDLE" =>
       mst[w_grant].aw = "sent" /\ w_addr_lat = mst[w_grant].addr
  /\ w_have_w \/ w_state # "IDLE" =>
       mst[w_grant].w = "sent" /\ w_data_lat = mst[w_grant].data

(* No beat is lost: a beat a master has handed over is held by the         *)
(* crossbar until that master's response, so it can never wait for a       *)
(* response nobody is preparing.                                           *)
NoBeatForgotten ==
  \A m \in Masters :
    /\ mst[m].aw = "sent" => m = w_grant /\ (w_have_aw \/ w_state # "IDLE")
    /\ mst[m].w = "sent" => m = w_grant /\ (w_have_w \/ w_state # "IDLE")

(* The response code is the one of the master's own target: DECERR for an  *)
(* unmapped address, SLVERR for the read-only CSR window and the ROM.      *)
RespOf(t) == IF t = SLAVE_ERR THEN DECERR
             ELSE IF t = XBAR_CSR THEN SLVERR ELSE SlaveResp(t)
ResponseIsForOwnTarget ==
  \A m \in Masters : m_bvalid(m) => s_bresp = RespOf(decode_addr(mst[m].addr))

(* A master that is told DECERR finds its own address in LAST_DECERR_WADDR *)
(* at that moment: no later miss has overwritten it yet.                   *)
MissAddressRecorded ==
  \A m \in Masters :
    m_bvalid(m) /\ s_bresp = DECERR => last_decerr_waddr = mst[m].addr

(* The three together: what every state of the write path satisfies.       *)
WriteInv == TypeOK /\ LatchedBeatsAreTheOwners /\ MissAddressRecorded

(* Exactly one interrupt pulse per decode miss: the pulse rises on the     *)
(* edge that latches an unmapped address and at no other time.             *)
PulsePerMiss ==
  [][decerr_irq_w' <=>
       \E m \in Masters : /\ mst[m].aw = "valid" /\ mst'[m].aw = "sent"
                          /\ decode_addr(mst[m].addr) = SLAVE_ERR]_vars

(* The write path implements the atomic bus of WriteBus, on which the      *)
(* write of m is what m asked for, whether it was performed, and what m is *)
(* being answered.                                                         *)
WriteOf(m) ==
  [req  |-> IF Busy(m) THEN <<mst[m].addr, mst[m].data>> ELSE None,
   done |-> performed[m],
   resp |-> IF m_bvalid(m) THEN s_bresp ELSE None]

Bus == INSTANCE WriteBus WITH bus <- [m \in Masters |-> WriteOf(m)]

ImplementsBus == Bus!Spec

-----------------------------------------------------------------------------
(* Liveness. *)

(* Every write is eventually answered; the JTAG bridge's as long as the    *)
(* CPU, which has priority, leaves an idle cycle between writes now and    *)
(* then (w_arb, l.254-255).                                                *)
EveryWriteAnswered ==
  /\ Busy("s0") ~> m_bvalid("s0")
  /\ []<>~Busy("s0") => (Busy("s1") ~> m_bvalid("s1"))
=============================================================================
