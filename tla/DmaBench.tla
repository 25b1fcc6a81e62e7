------------------------------- MODULE DmaBench -------------------------------
(***************************************************************************)
(* The benches of the DMA memory and of the DMA engine, on the real        *)
(* engine, chain and memory of DmaEngine: burst helpers that drive the     *)
(* memory, and the polled DMA operation (run_dma).                         *)
(*                                                                         *)
(* In the bench of the engine the helpers reach the memory through a       *)
(* multiplexer, which shows them READY and BVALID only while they ask.     *)
(* The helpers look before they clock, so they see the values of the edge  *)
(* before: READY of the address channel as it was before they asked, which *)
(* is low, and the burst waits out its time limit; BVALID as it was before *)
(* they let go of the port, so the response is never taken and the memory  *)
(* still holds BVALID when the engine's first burst begins.                *)
(*                                                                         *)
(* A word is one byte lane: a strobe of 0 keeps it.                        *)
(***************************************************************************)
EXTENDS DmaEngine

CONSTANTS
  SpinLimit,      \* limit of the helpers' waiting loops, 50 in the code
  MaxCalls,       \* bound: calls of a bench
  RunSrc, RunDst, RunLens   \* source and destination addresses, blocks of an operation

(* A burst of one word would end under an address that is still held, one   *)
(* of more words than the memory has would meet itself, and the loop that   *)
(* collects a burst must be long enough for it; LEN holds the blocks.       *)
ASSUME BenchAssumption ==
  /\ SpinLimit \in Nat /\ MaxCalls \in Nat /\ MaxStarts > 0
  /\ Beats \in 2 .. SizeWords /\ Beats <= 10 * SpinLimit
  /\ RunSrc \subseteq Index /\ RunDst \subseteq Index /\ RunLens \subseteq 1 .. 2^LenBits

VARIABLES
  top,        \* the test top: the memory alone, or engine and memory
  seen,       \* what the helpers see of the port: its outputs after the last edge
  call,       \* the call in progress, or the last one
  calls,      \* calls made
  expects     \* the memory as the bench expects it

Tops == {"dma_ram", "dma_engine_testtop"}

Port == [awvalid |-> FALSE, awaddr |-> 0, wvalid |-> FALSE, wdata |-> ZeroWord,
         wlast |-> FALSE, bready |-> FALSE, arvalid |-> FALSE, araddr |-> 0, arlen |-> 0,
         rready |-> FALSE]
Blind == [awready |-> FALSE, wready |-> FALSE, bvalid |-> FALSE, arready |-> FALSE,
          rvalid |-> FALSE]
NoCall == [stage |-> "judge", op |-> "none", addr |-> 0, words |-> <<>>, strobes |-> <<>>,
           arg |-> <<>>, at |-> 1, spin |-> 0, spun |-> 0, out |-> <<>>, ok |-> TRUE]

(* The outputs of a port that no multiplexer hides, and the port of the    *)
(* engine's test top between requests.                                     *)
Idling == IF top = "dma_ram" THEN [Blind EXCEPT !.awready = TRUE, !.arready = TRUE] ELSE Blind

BenchInit ==
  /\ Init /\ top \in Tops /\ seen = Idling
  /\ call = NoCall /\ calls = 0 /\ expects = mem

-----------------------------------------------------------------------------
(* One clock: the port p and a register write w are what the bench drives. *)
use_test_port_w(p) == top = "dma_ram" \/ p.awvalid \/ p.wvalid

(* The operators named Bad... are faulty variants, never part of the model: *)
(* each is a plausible slip that one of the properties must catch.          *)
BadTestPortR(p) == top = "dma_ram" \/ p.arvalid    \* let go after the address
use_test_port_r(p) == top = "dma_ram" \/ p.arvalid \/ p.rready

NoWrite == [reg |-> "none"]

Clock(p, w) ==
  LET tw == use_test_port_w(p)
      tr == use_test_port_r(p)
  IN
  /\ RegisterEdge(w) /\ StatusDone(w) /\ EngineEdge(w)
  /\ ChainEdge(chain_load_iv, dma_iv_reg, chain_start, ctrl_encdec, ctrl_mode, key_reg,
               rd_block)
  /\ RamEdge(IF tw THEN p.awvalid ELSE m_awvalid, IF tw THEN p.awaddr ELSE m_awaddr,
             IF tw THEN p.wvalid ELSE m_wvalid, IF tw THEN p.wdata ELSE m_wdata,
             IF tw THEN p.wlast ELSE m_wlast, IF tw THEN p.bready ELSE m_bready,
             IF tr THEN p.arvalid ELSE m_arvalid, IF tr THEN p.araddr ELSE m_araddr,
             IF tr THEN p.arlen ELSE Beats - 1, IF tr THEN p.rready ELSE m_rready)
  /\ seen' = [awready |-> tw /\ w_state' = "IDLE", wready |-> tw /\ w_state' = "BURST",
              bvalid |-> tw /\ s_bvalid', arready |-> tr /\ r_state' = "IDLE",
              rvalid |-> tr /\ s_rvalid']

(* A waiting loop, and the clock after it.                                 *)
Leaves(ready) == ready \/ call.spin = SpinLimit
Loop(ready, p, next) ==
  /\ Clock(p, NoWrite)
  /\ call' = IF Leaves(ready) THEN next ELSE [call EXCEPT !.spin = @ + 1]
  /\ UNCHANGED expects

-----------------------------------------------------------------------------
(* write_burst, ram_write_burst.                                           *)
Strobed(old) == IF call.strobes[call.at] THEN call.words[call.at] ELSE old

AwLoop ==
  /\ call.stage = "aw"
  /\ Loop(seen.awready, [Port EXCEPT !.awvalid = TRUE, !.awaddr = call.addr],
          [call EXCEPT !.stage = "w", !.spun = call.spin, !.spin = 0])

WLoop ==
  LET last == call.at = Len(call.words) IN
  /\ call.stage = "w"
  /\ Loop(seen.wready,
          [Port EXCEPT !.wvalid = TRUE, !.wdata = Strobed(mem[w_word_idx]), !.wlast = last],
          [call EXCEPT !.stage = IF last THEN "b" ELSE "w", !.at = @ + 1, !.spin = 0])

BLoop ==
  /\ call.stage = "b" /\ Clock([Port EXCEPT !.bready = TRUE], NoWrite)
  /\ IF Leaves(seen.bvalid)
     THEN /\ call' = [call EXCEPT !.stage = "judge", !.ok = seen.bvalid]
          /\ expects' = [n \in Index |->
               LET at == {i \in 1 .. Len(call.words) :
                            WordIdx(call.addr + i - 1) = n /\ call.strobes[i]}
               IN IF at = {} THEN expects[n] ELSE call.words[CHOOSE i \in at : TRUE]]
     ELSE call' = [call EXCEPT !.spin = @ + 1] /\ UNCHANGED expects

(* read_burst, ram_read_burst: words are collected until RLAST.            *)
ArLoop ==
  /\ call.stage = "ar"
  /\ Loop(seen.arready,
          [Port EXCEPT !.arvalid = TRUE, !.araddr = call.addr, !.arlen = call.at - 1],
          [call EXCEPT !.stage = "r", !.spun = call.spin, !.spin = 0])

RLoop ==
  LET last_seen == seen.rvalid /\ s_rlast IN
  /\ call.stage = "r" /\ Clock([Port EXCEPT !.rready = TRUE], NoWrite)
  /\ call' = [call EXCEPT
       !.out = IF seen.rvalid THEN Append(@, s_rdata) ELSE @, !.spin = @ + 1, !.ok = last_seen,
       !.stage = IF last_seen \/ call.spin = 10 * SpinLimit THEN "judge" ELSE "r"]
  /\ UNCHANGED expects

-----------------------------------------------------------------------------
(* run_dma: the registers one after another, START, then STATUS until DONE *)
(* shows, then DONE is cleared.  A read of STATUS returns the value before *)
(* its edge.                                                               *)
Program(r) ==
  << [reg |-> "KEY", value |-> r.key], [reg |-> "IV", value |-> r.iv],
     [reg |-> "SRC", value |-> r.src], [reg |-> "DST", value |-> r.dst],
     [reg |-> "LEN", value |-> r.len % 2^LenBits],
     [reg |-> "CTRL", start |-> TRUE, encdec |-> r.encdec, mode |-> r.mode] >>

Configure ==
  /\ call.stage = "config" /\ Clock(Port, Program(call.arg)[call.at])
  /\ call' = [call EXCEPT !.at = @ + 1,
                          !.stage = IF call.at = Len(Program(call.arg)) THEN "poll" ELSE @]
  /\ UNCHANGED expects

Poll ==
  /\ call.stage = "poll" /\ Clock(Port, NoWrite)
  /\ call' = [call EXCEPT !.stage = IF status_done THEN "clear" ELSE "poll"]
  /\ UNCHANGED expects

(* What the bench knows by heart: the published ciphertext (or plaintext)  *)
(* of these blocks, one after another.                                     *)
Block_(m, a)    == [i \in 1 .. Beats |-> m[WordIdx(a + i - 1)]]
Put(m, a, b)    == [n \in Index |->
                      IF \E i \in 1 .. Beats : WordIdx(a + i - 1) = n
                      THEN b[CHOOSE i \in 1 .. Beats : WordIdx(a + i - 1) = n] ELSE m[n]]
Known(r) ==
  LET after[n \in 0 .. r.len] ==
        IF n = 0 THEN [m |-> expects, iv |-> r.iv]
        ELSE LET m == after[n - 1].m
                 t == [mode |-> r.mode, encdec |-> r.encdec, key |-> r.key,
                       data |-> Block_(m, r.src + Beats * (n - 1)), iv |-> after[n - 1].iv]
             IN  [m |-> Put(m, r.dst + Beats * (n - 1), ModeOut(t)), iv |-> ModeNextIv(t)]
  IN after[r.len].m

Clear ==
  /\ call.stage = "clear" /\ Clock(Port, [reg |-> "DONE"])
  /\ call' = [call EXCEPT !.stage = "judge", !.ok = TRUE]
  /\ expects' = Known(call.arg)

-----------------------------------------------------------------------------
(* The next call.  The bench of the memory writes and reads bursts of any  *)
(* length; that of the engine stores a block, runs an operation and reads  *)
(* a block back.  A call itself takes no clock.                            *)
Begin_(c) ==
  /\ call.stage = "judge" /\ calls < MaxCalls /\ calls' = calls + 1
  /\ call' = c /\ UNCHANGED <<vars, top, seen, expects>>

MemoryCall ==
  /\ top = "dma_ram"
  /\ \E a \in Index, n \in 1 .. Beats :
       \/ \E ws \in [1 .. n -> Word], strobes \in [1 .. n -> BOOLEAN] :
            Begin_([NoCall EXCEPT !.stage = "aw", !.op = "write", !.addr = a, !.words = ws,
                                  !.strobes = strobes])
       \/ Begin_([NoCall EXCEPT !.stage = "ar", !.op = "read", !.addr = a, !.at = n])

EngineCall ==
  /\ top = "dma_engine_testtop"
  /\ \/ /\ calls = 0
        /\ \E a \in RunSrc, b \in Block :
             Begin_([NoCall EXCEPT !.stage = "aw", !.op = "write", !.addr = a, !.words = b,
                                   !.strobes = [i \in 1 .. Beats |-> TRUE]])
     \/ /\ calls = 1
        /\ \E r \in [src : RunSrc, dst : RunDst, len : RunLens, key : Key, iv : Block,
                     encdec : BOOLEAN, mode : Mode] :
             Begin_([NoCall EXCEPT !.stage = "config", !.op = "run", !.arg = r])
     \/ /\ calls = 2
        /\ \E a \in RunDst :
             Begin_([NoCall EXCEPT !.stage = "ar", !.op = "read", !.addr = a, !.at = Beats])

Return ==
  /\ call.stage = "judge" /\ calls = MaxCalls
  /\ UNCHANGED <<vars, top, seen, call, calls, expects>>

InCall ==
  /\ AwLoop \/ WLoop \/ BLoop \/ ArLoop \/ RLoop \/ Configure \/ Poll \/ Clear
  /\ UNCHANGED <<top, calls>>

BenchNext == MemoryCall \/ EngineCall \/ InCall \/ Return

-----------------------------------------------------------------------------
(* The checks of both benches: bursts of any length, with any strobes, are *)
(* answered and read back, and a polled operation ends with the published  *)
(* answer in the destination and every other word untouched - although the *)
(* response to the burst that stored the source was never taken.  The      *)
(* address loops of the engine's bench always run to their limit, those of *)
(* the memory's bench never wait.                                          *)
BenchPasses ==
  /\ call.stage = "judge" =>
       /\ call.ok /\ mem = expects
       /\ call.op = "read" =>
            call.out = [i \in 1 .. call.at |-> expects[WordIdx(call.addr + i - 1)]]
  /\ call.stage \in {"w", "r"} => call.spun = IF top = "dma_ram" THEN 0 ELSE SpinLimit
  /\ call.stage = "config" => s_bvalid
=============================================================================
