------------------------------ MODULE CpuAdapter ------------------------------
(***************************************************************************)
(* How the core reaches the interconnect: picorv32's memory port           *)
(* (mem_valid/mem_ready) through picorv32_axi_adapter to an AXI4-Lite bus. *)
(* A request is what one transfer puts on the bus: address, data and       *)
(* strobes together.  Cycle is one rising edge of clk out of reset, Reset  *)
(* one with resetn low.  A trapped core is one that asks for nothing more. *)
(***************************************************************************)
CONSTANTS
  Request,      \* what a transfer asks for
  NoBeat        \* the bus has accepted nothing

ASSUME NoBeatAssumption == NoBeat \notin Request

VARIABLES
  mem_valid, writing, request, secondword,          \* the core's port
  ack_awvalid, ack_wvalid, ack_arvalid, xfer_done,  \* the adapter
  aw, w, ar, bvalid, rvalid                         \* the bus: beats it holds, its answer

core    == <<mem_valid, writing, request, secondword>>
adapter == <<ack_awvalid, ack_wvalid, ack_arvalid, xfer_done>>
bus     == <<aw, w, ar, bvalid, rvalid>>
vars    == <<core, adapter, bus>>

Beat == Request \union {NoBeat}

TypeOK ==
  /\ mem_valid \in BOOLEAN /\ writing \in BOOLEAN /\ secondword \in BOOLEAN
  /\ request \in Request
  /\ ack_awvalid \in BOOLEAN /\ ack_wvalid \in BOOLEAN /\ ack_arvalid \in BOOLEAN
  /\ xfer_done \in BOOLEAN
  /\ aw \in Beat /\ w \in Beat /\ ar \in Beat
  /\ bvalid \in BOOLEAN /\ rvalid \in BOOLEAN
  /\ bvalid => aw # NoBeat /\ w # NoBeat
  /\ rvalid => ar # NoBeat
  /\ secondword => mem_valid /\ ~writing

(* resetn gives only ack_awvalid a value; the others are whatever they are. *)
Init ==
  /\ mem_valid = FALSE /\ secondword = FALSE
  /\ writing \in BOOLEAN /\ request \in Request
  /\ ack_awvalid = FALSE
  /\ ack_wvalid \in BOOLEAN /\ ack_arvalid \in BOOLEAN /\ xfer_done \in BOOLEAN
  /\ aw = NoBeat /\ w = NoBeat /\ ar = NoBeat /\ bvalid = FALSE /\ rvalid = FALSE

-----------------------------------------------------------------------------
(* The wires.                                                              *)
awvalid == mem_valid /\ writing /\ ~ack_awvalid
wvalid  == mem_valid /\ writing /\ ~ack_wvalid
arvalid == mem_valid /\ ~writing /\ ~ack_arvalid
bready  == mem_valid /\ writing
rready  == mem_valid /\ ~writing

(* The operators named Bad... are faulty variants, never part of the model: *)
(* each is a plausible slip that one of the properties must catch.          *)
BadMemReady == bvalid \/ rvalid \/ (bready /\ ack_awvalid /\ ack_wvalid)  \* posted writes
mem_ready == bvalid \/ rvalid
mem_done  == mem_valid /\ mem_ready

-----------------------------------------------------------------------------
(* A transfer keeps its request until mem_ready.  Then mem_valid drops for *)
(* at least a cycle, except that a fetch which straddles two words reads   *)
(* the second one without a pause.                                         *)
holds(valid, wr, req, second) ==
  valid /\ wr = writing /\ req = request /\ second = secondword
may_follow(valid, wr, second) ==
  valid => ~writing /\ ~wr /\ ~secondword /\ second

Core(valid, wr, req, second) ==
  /\ mem_valid /\ ~mem_done => holds(valid, wr, req, second)
  /\ mem_done => may_follow(valid, wr, second)
  /\ second => valid /\ ~wr
  /\ mem_valid' = valid /\ writing' = wr /\ request' = req /\ secondword' = second

BadForgets == ~mem_valid               \* takes the core's pause for granted
forgets == xfer_done \/ ~mem_valid

BadNextAck(ack, fires) == IF ~mem_valid THEN FALSE ELSE fires   \* forgets at once
next_ack(ack, fires) == ~forgets /\ (ack \/ fires)

Adapter(awready, wready, arready) ==
  /\ ack_awvalid' = next_ack(ack_awvalid, awvalid /\ awready)
  /\ ack_wvalid'  = next_ack(ack_wvalid,  wvalid /\ wready)
  /\ ack_arvalid' = next_ack(ack_arvalid, arvalid /\ arready)
  /\ xfer_done' = mem_done

(* The bus accepts the beats of a write in either order, one write and one *)
(* read at a time, answers each when it likes, and holds its answer.       *)
takes(held, fires, ends) == IF ends THEN NoBeat ELSE IF fires THEN request ELSE held

Bus(awready, wready, arready, b, r) ==
  /\ awready => aw = NoBeat
  /\ wready  => w = NoBeat
  /\ arready => ar = NoBeat
  /\ b => aw # NoBeat /\ w # NoBeat /\ ~bvalid
  /\ r => ar # NoBeat /\ ~rvalid
  /\ aw' = takes(aw, awvalid /\ awready, bvalid /\ bready)
  /\ w'  = takes(w,  wvalid /\ wready,   bvalid /\ bready)
  /\ ar' = takes(ar, arvalid /\ arready, rvalid /\ rready)
  /\ bvalid' = ((bvalid /\ ~bready) \/ b)
  /\ rvalid' = ((rvalid /\ ~rready) \/ r)

Cycle(awready, wready, arready, b, r) ==
  /\ Bus(awready, wready, arready, b, r)
  /\ Adapter(awready, wready, arready)
  /\ \E valid, wr, second \in BOOLEAN, req \in Request : Core(valid, wr, req, second)

AnyCycle == \E awready, wready, arready, b, r \in BOOLEAN :
              Cycle(awready, wready, arready, b, r)

Reset ==
  /\ mem_valid' = FALSE /\ secondword' = FALSE /\ ack_awvalid' = FALSE
  /\ aw' = NoBeat /\ w' = NoBeat /\ ar' = NoBeat /\ bvalid' = FALSE /\ rvalid' = FALSE
  /\ UNCHANGED <<writing, request, ack_wvalid, ack_arvalid, xfer_done>>

Next == AnyCycle \/ Reset

Spec == Init /\ [][Next]_vars

(* Progress of the bus: it takes a beat, it gives an answer.               *)
AwAccepted == \E wready, arready, b, r \in BOOLEAN : Cycle(TRUE, wready, arready, b, r)
WAccepted  == \E awready, arready, b, r \in BOOLEAN : Cycle(awready, TRUE, arready, b, r)
ArAccepted == \E awready, wready, b, r \in BOOLEAN : Cycle(awready, wready, TRUE, b, r)
BGiven     == \E awready, wready, arready, r \in BOOLEAN : Cycle(awready, wready, arready, TRUE, r)
RGiven     == \E awready, wready, arready, b \in BOOLEAN : Cycle(awready, wready, arready, b, TRUE)

-----------------------------------------------------------------------------
(* The beats the bus holds, and the answer it gives, are those of the      *)
(* transfer the core is waiting for: none is left from an earlier one, and *)
(* none was accepted a second time after its answer (l.2793-2806), the     *)
(* acknowledgements left undefined by resetn included.                     *)
BeatsAreTheTransfers ==
  /\ \A beat \in {aw, w} \ {NoBeat} : mem_valid /\ writing /\ beat = request
  /\ ar # NoBeat => mem_valid /\ ~writing /\ ar = request

(* mem_ready is raised for a transfer only once all of it has reached the  *)
(* bus and been answered.                                                  *)
ReadyMeansDone ==
  mem_done => IF writing THEN bvalid /\ aw = request /\ w = request
                         ELSE rvalid /\ ar = request

(* Both: what every state of a transfer satisfies.                         *)
TransferInv == TypeOK /\ BeatsAreTheTransfers /\ ReadyMeansDone

(* AXI: once a beat is offered it stays, unchanged, until it is accepted.  *)
ValidHolds ==
  [][\/ Reset
     \/ /\ awvalid => aw' # NoBeat \/ (awvalid' /\ request' = request)
        /\ wvalid  => w'  # NoBeat \/ (wvalid'  /\ request' = request)
        /\ arvalid => ar' # NoBeat \/ (arvalid' /\ request' = request)]_vars

(* Every transfer of the core ends, the second word of a straddling fetch  *)
(* included.                                                               *)
EveryTransferEnds == mem_valid ~> ~mem_valid
=============================================================================
