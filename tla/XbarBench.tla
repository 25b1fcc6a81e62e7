------------------------------ MODULE XbarBench ------------------------------
(***************************************************************************)
(* The bus driver of the testbenches (axi_lite_bfm.h) and the benches that *)
(* use it on the bus itself: the self-test on fake_axi_lite_slave, the RAM *)
(* bench, the ROM bench, and the crossbar bench (xbar_testtop: the         *)
(* crossbar with a fake slave in every slot).                              *)
(*                                                                         *)
(* The driver is no ideal AXI master.  It looks at READY after the edge,   *)
(* not before it, so VALID may outlive the beat that was taken.  The calls *)
(* of a bench are made here in any order and with any of its arguments,    *)
(* its checks are made after each; one step is one rising edge of clk.     *)
(***************************************************************************)
EXTENDS AddrMap

CONSTANTS
  Addr,        \* addresses the crossbar bench uses
  WordAddr,    \* addresses the slave benches use
  Byte,        \* values of a byte lane, 0 among them
  Lanes,       \* the byte lanes of a word
  None,        \* no value
  FastSlaves,  \* all of RealSlaves: the fake slaves are always ready
  Timeout,     \* timeout_cycles, and the limit of the bench's own loops
  MaxCalls     \* bound: calls after reset

VARIABLES
  w_state, w_grant, w_have_aw, w_have_w, w_issued_aw, w_issued_w, w_sel, w_addr_lat,
  w_data_lat, s_bvalid, s_bresp, last_decerr_waddr, decerr_irq_w, mst, slv, store, performed,
  r_state, r_grant, r_sel, r_addr_lat, r_issued_ar, s_rvalid, s_rdata, s_rresp,
  last_decerr_raddr, decerr_irq_r, rmst, rslv,
  dut,       \* what the driver is connected to
  mem,       \* contents of the slaves
  ram_q,     \* data register of the fake slave that is read
  result,    \* data register of the read half
  call,      \* the call in progress, or the last one
  expected,  \* what the bench expects to read back, by address
  missed,    \* the misses the bench provoked last
  calls      \* calls made, up to MaxCalls

Word == [Lanes -> Byte]
Full == {[l \in Lanes |-> b] : b \in Byte}

W == INSTANCE XbarWrite WITH Data <- Word
R == INSTANCE XbarRead WITH MissAddr <- Addr

Duts == {"xbar_testtop", "fake_axi_lite_slave", "sram", "boot_rom"}

busRegs == <<w_state, w_grant, w_have_aw, w_have_w, w_issued_aw, w_issued_w, w_sel,
  w_addr_lat, w_data_lat, s_bvalid, s_bresp, last_decerr_waddr, decerr_irq_w, slv, store,
  performed, r_state, r_grant, r_sel, r_addr_lat, r_issued_ar, s_rvalid, s_rdata, s_rresp,
  last_decerr_raddr, decerr_irq_r, rslv, ram_q, result>>
benchVars == <<busRegs, mst, rmst, dut, mem, call, expected, missed, calls>>

Reach == IF dut = "xbar_testtop" THEN Addr ELSE WordAddr
Target(a) == IF dut = "xbar_testtop" THEN decode_addr(a)
             ELSE IF dut = "boot_rom" THEN "ROM" ELSE "RAM"
Mapped(a) == Target(a) \in RealSlaves

(* The word of its memory an address selects in a slave.                   *)
cell(a) ==
  CASE dut = "xbar_testtop"        -> <<decode_addr(a), a.word % 16>>
    [] dut = "fake_axi_lite_slave" -> <<a.word % 16>>
    [] dut = "sram"                -> <<a.mid % 2, a.page, a.word>>
    [] dut = "boot_rom"            -> <<a.page, a.word>>

-----------------------------------------------------------------------------
(* Reset, and one clock without a request.  The memories start as zero,    *)
(* the ROM as the file says.                                               *)
NoCall == [op |-> "none", addr |-> None, data |-> None, strb |-> Lanes, got |-> FALSE,
           resp |-> OKAY, clocks |-> 0, moved |-> 0, pulses |-> 0, phase |-> "done", ok |-> TRUE]

BenchInit ==
  /\ W!Init /\ R!Init
  /\ dut \in Duts
  /\ expected \in [Reach -> Full]
  /\ dut # "boot_rom" => \A a \in Reach, l \in Lanes : expected[a][l] = 0
  /\ mem = [c \in {cell(a) : a \in Reach} |-> expected[CHOOSE a \in Reach : cell(a) = c]]
  /\ ram_q = None /\ result = None
  /\ call = NoCall /\ calls = 0 /\ missed = [w |-> None, r |-> None]

-----------------------------------------------------------------------------
(* One edge of the crossbar and its fake slaves.  A fake slave ignores the *)
(* byte strobes and always answers OKAY.                                   *)
next_fake(written) ==
  IF written THEN [mem EXCEPT ![cell(w_addr_lat)] = w_data_lat] ELSE mem

XbarEdge ==
  /\ W!WritePath(TRUE, TRUE, TRUE) /\ R!ReadPath(TRUE, TRUE)
  /\ slv' = [s \in RealSlaves |->
               [aw |-> None, w |-> None, b |-> IF W!do_write(s) THEN OKAY ELSE None]]
  /\ rslv' = [s \in RealSlaves |-> R!FastReadNext(s)]
  /\ mem' = next_fake(\E s \in RealSlaves : W!do_write(s))
  /\ ram_q' = IF \E s \in RealSlaves : R!slv_arvalid(s) THEN mem[cell(r_addr_lat)] ELSE None
  /\ result' = IF r_state = "WAIT_R" THEN ram_q ELSE result
  /\ UNCHANGED <<store, performed>>

(* What the driver sees after the edge.  s1 is silent during its calls.    *)
xbar_awready == w_state' = "IDLE" /\ ~w_have_aw'
xbar_wready  == w_state' = "IDLE" /\ ~w_have_w'
xbar_arready == r_state' = "IDLE"
xbar_rdata   == IF s_rdata'.from \in RealSlaves THEN result' ELSE s_rdata'.at

Count(some) == IF some THEN 1 ELSE 0
transfers == Count(\E s \in RealSlaves : W!do_write(s))
             + Count(\E s \in RealSlaves : R!slv_arvalid(s))
pulse == Count(decerr_irq_w' \/ decerr_irq_r')

(* A slave on its own is always ready, and answers at the edge.            *)
next_word(old) == IF dut = "sram"
                  THEN [l \in Lanes |-> IF l \in call.strb THEN call.data[l] ELSE old[l]]
                  ELSE call.data
next_mem == IF dut = "boot_rom" THEN mem
            ELSE [mem EXCEPT ![cell(call.addr)] = next_word(mem[cell(call.addr)])]
slave_bresp == IF dut = "boot_rom" THEN SLVERR ELSE OKAY

-----------------------------------------------------------------------------
(* The driver: what it does after an edge, given what it samples then.     *)
Taken(beat, ready) == IF beat = "valid" /\ ready THEN "sent" ELSE beat

(* The operators named Bad... are faulty variants, never part of the model: *)
(* each is a plausible slip that one of the properties must catch.          *)
BadFinished(aw, w, b) == b
finished(aw, w, b) == aw = "sent" /\ w = "sent" /\ b

Sampled(all, got, resp, data, moved, pulses) ==
  call' = [call EXCEPT !.got = got, !.resp = resp, !.data = data, !.ok = all,
                       !.moved = @ + moved, !.pulses = @ + pulses, !.clocks = @ + 1,
                       !.phase = IF all \/ call.clocks + 1 = Timeout THEN "done" ELSE "go"]

DriveWrite(awready, wready, bvalid, bresp, moved, pulses) ==
  LET aw  == Taken(mst["s0"].aw, awready)
      w   == Taken(mst["s0"].w, wready)
      got == call.got \/ bvalid
  IN /\ mst' = [mst EXCEPT !["s0"].aw = aw, !["s0"].w = w]
     /\ Sampled(finished(aw, w, got), got, IF bvalid THEN bresp ELSE call.resp, call.data,
                moved, pulses)
     /\ UNCHANGED rmst

DriveRead(arready, rvalid, rresp, rdata, moved, pulses) ==
  LET ar  == Taken(rmst["s0"].ar, arready)
      got == call.got \/ rvalid
  IN /\ rmst' = [rmst EXCEPT !["s0"].ar = ar]
     /\ Sampled(ar = "sent" /\ got, got, IF rvalid THEN rresp ELSE call.resp,
                IF rvalid THEN rdata ELSE call.data, moved, pulses)
     /\ UNCHANGED mst

-----------------------------------------------------------------------------
(* A call begins: VALID and READY go up.                                   *)
Raise(m, a, d) == [mst EXCEPT ![m] = [aw |-> "valid", w |-> "valid", addr |-> a, data |-> d]]

Begin(op, a, d, strb) ==
  /\ call.phase = "done" /\ calls < MaxCalls /\ calls' = calls + 1
  /\ call' = [NoCall EXCEPT !.op = op, !.addr = a, !.data = d, !.strb = strb, !.ok = FALSE,
                            !.phase = IF op = "s1" THEN "s1" ELSE "go"]
  /\ UNCHANGED <<busRegs, dut, mem, expected, missed>>

(* What the bench knows once its write returns.                            *)
Know(a, d, strb) ==
  IF Target(a) \in RealSlaves /\ dut # "boot_rom"
  THEN [expected EXCEPT ![a] = [l \in Lanes |-> IF l \in strb THEN d[l] ELSE @[l]]]
  ELSE expected

Write(a, d, strb) ==
  Begin("write", a, d, strb) /\ mst' = Raise("s0", a, d) /\ UNCHANGED rmst

Read(a) ==
  /\ Begin("read", a, None, Lanes)
  /\ rmst' = [rmst EXCEPT !["s0"] = [ar |-> "valid", addr |-> a]] /\ UNCHANGED mst

(* The calls of each bench: whole words, except that the RAM bench also    *)
(* writes single bytes.                                                    *)
WordCalls(where) ==
  \E a \in where : Read(a) \/ \E d \in Full : Write(a, d, Lanes)

XbarCalls     == dut = "xbar_testtop" /\ WordCalls(Addr)
SelfTestCalls == dut = "fake_axi_lite_slave" /\ WordCalls(WordAddr)
RomCalls      == dut = "boot_rom" /\ WordCalls(WordAddr)
SramCalls ==
  /\ dut = "sram"
  /\ \E a \in WordAddr : Read(a) \/ \E d \in Word, strb \in SUBSET Lanes : Write(a, d, strb)

OnSlave ==
  /\ call.phase = "go" /\ dut # "xbar_testtop"
  /\ \/ /\ call.op = "write" /\ mem' = next_mem
        /\ DriveWrite(TRUE, TRUE, TRUE, slave_bresp, 1, 0)
        /\ expected' = Know(call.addr, call.data, call.strb)
     \/ /\ call.op = "read" /\ UNCHANGED <<mem, expected>>
        /\ DriveRead(TRUE, TRUE, OKAY, mem[cell(call.addr)], 1, 0)
  /\ UNCHANGED <<busRegs, dut, missed, calls>>

OnXbar ==
  /\ call.phase = "go" /\ dut = "xbar_testtop" /\ call.op \in {"write", "read"}
  /\ XbarEdge
  /\ \/ /\ call.op = "write"
        /\ DriveWrite(xbar_awready, xbar_wready, s_bvalid', s_bresp', transfers, pulse)
     \/ /\ call.op = "read"
        /\ DriveRead(xbar_arready, s_rvalid', s_rresp', xbar_rdata, transfers, pulse)
  /\ IF call'.phase = "done" /\ call.op = "write"
     THEN expected' = Know(call.addr, call.data, Lanes) ELSE UNCHANGED expected
  /\ missed' = IF call'.phase = "done" /\ Target(call.addr) = SLAVE_ERR
               THEN [w |-> IF call.op = "write" THEN call.addr ELSE missed.w,
                     r |-> IF call.op = "read" THEN call.addr ELSE missed.r]
               ELSE missed
  /\ UNCHANGED <<dut, calls>>

-----------------------------------------------------------------------------
(* The arbitration test drives the ports of both masters itself: s0 and s1 *)
(* raise a write on the same edge, s0 goes quiet when it is answered, then *)
(* s1 is waited for.  "granted" is left when s1_awready is up after an     *)
(* edge, which is only so once s1's write is over: s1 still holds VALID,   *)
(* so the same write is made again before its response is waited for.      *)
Contend == \E a0, a1 \in {a \in Reach : Mapped(a)}, d0, d1 \in Full :
  /\ dut = "xbar_testtop" /\ a0 # a1 /\ d0 # d1 /\ Begin("contend", a1, d1, Lanes)
  /\ mst' = [Raise("s0", a0, d0) EXCEPT !["s1"] = Raise("s1", a1, d1)["s1"]]
  /\ UNCHANGED rmst

(* The last test of the bench raises s1 alone.                             *)
WriteByS1 == \E a \in {b \in Reach : Mapped(b)}, d \in Full :
  /\ dut = "xbar_testtop" /\ Begin("s1", a, d, Lanes)
  /\ mst' = Raise("s1", a, d) /\ UNCHANGED rmst

Quiet(m) == mst' = [mst EXCEPT ![m].aw = "sent", ![m].w = "sent"]

Advance(phase, ok, moved) ==
  call' = [call EXCEPT !.phase = IF call.clocks + 1 = Timeout THEN "done" ELSE phase,
                       !.ok = ok, !.moved = @ + moved, !.clocks = @ + 1,
                       !.resp = IF s_bvalid' THEN s_bresp' ELSE @]

RawEdge ==
  /\ call.op \in {"contend", "s1"} /\ call.phase # "done"
  /\ XbarEdge
  /\ \/ call.phase = "go" /\ ~W!m_bvalid("s0") /\ UNCHANGED <<mst, expected>>
        /\ Advance("go", FALSE, 0)
     \/ call.phase = "go" /\ W!m_bvalid("s0") /\ Quiet("s0")
        /\ expected' = Know(mst["s0"].addr, mst["s0"].data, Lanes)
        /\ Advance("granted", FALSE, 0)
     \/ call.phase = "granted" /\ UNCHANGED <<mst, expected>>
        /\ Advance(IF xbar_awready THEN "s1" ELSE "granted", FALSE, transfers)
     \/ call.phase = "s1" /\ ~W!m_bvalid("s1") /\ UNCHANGED <<mst, expected>>
        /\ Advance("s1", FALSE, transfers)
     \/ call.phase = "s1" /\ W!m_bvalid("s1") /\ Quiet("s1")
        /\ expected' = Know(call.addr, call.data, Lanes)
        /\ Advance("done", TRUE, 0)
  /\ UNCHANGED <<rmst, dut, missed, calls>>

(* After its last call the bench reports and returns.                      *)
Return ==
  /\ calls = MaxCalls /\ call.phase = "done"
  /\ UNCHANGED <<busRegs, mst, rmst, dut, mem, call, expected, missed, calls>>

BenchNext ==
  \/ XbarCalls \/ SelfTestCalls \/ RomCalls \/ SramCalls \/ Contend \/ WriteByS1
  \/ OnSlave \/ OnXbar \/ RawEdge \/ Return

-----------------------------------------------------------------------------
(* The checks of the benches, after any calls in any order: every call     *)
(* ends in time with the response of its target, a read returns what was   *)
(* last written there, a miss is recorded and raises the interrupt once,   *)
(* and contended writes both land, s0's first.  Beyond the bench's checks: *)
(* a call makes exactly one transfer on a slave although the driver keeps  *)
(* VALID up after the beat was taken, and contention makes s1's twice.     *)
RespOf(a) == CASE Target(a) = SLAVE_ERR -> DECERR
               [] Target(a) = XBAR_CSR  -> IF call.op = "read" THEN OKAY ELSE SLVERR
               [] dut = "boot_rom"      -> IF call.op = "read" THEN OKAY ELSE SLVERR
               [] OTHER -> OKAY

DataOf(a) == IF Mapped(a) THEN expected[a]
             ELSE IF CsrWord(a) = 1 THEN missed.r ELSE missed.w

BenchPasses ==
  call.phase = "done" =>
    /\ call.ok
    /\ call.op # "none" => call.resp = RespOf(call.addr)
    /\ call.op = "read" /\ Target(call.addr) # SLAVE_ERR => call.data = DataOf(call.addr)
    /\ \A a \in Reach : Mapped(a) => mem[cell(a)] = expected[a]
    /\ call.op \in {"read", "write"} =>
         /\ call.pulses = IF Target(call.addr) = SLAVE_ERR THEN 1 ELSE 0
         /\ call.moved = IF Mapped(call.addr) THEN 1 ELSE 0
    /\ call.op = "contend" => call.moved = 2
    /\ call.op = "s1" => call.moved = 1

(* s0 wins: s1 is not ready while both ask.                                *)
S0Wins == call.op = "contend" /\ call.phase = "go" => ~W!m_awready("s1")
=============================================================================
