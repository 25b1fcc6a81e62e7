------------------------------- MODULE DmaEngine -------------------------------
(***************************************************************************)
(* The DMA engine (dma_engine.v) with its AES chain and its memory: per    *)
(* block a read burst, the cipher mode, a write burst.  One step is one    *)
(* rising edge of clk, with at most one register write by the software;    *)
(* KEY0-3 and IV0-3 are each written as one value.  Addresses are word     *)
(* addresses modulo the size of the memory, LEN and the block counter have *)
(* LenBits bits.                                                           *)
(***************************************************************************)
EXTENDS AesChain, DmaRam, Sequences

CONSTANTS
  Beats,               \* words per block, 4 in the code
  LenBits,             \* width of len_reg and blocks_left, 32 in the code
  ZeroKey,
  SrcAddrs, DstAddrs, Lens, Ivs,  \* values the software writes
  Contents,            \* initial memory contents
  MaxStarts,           \* bound on the operations
  MaxDisturbances      \* bound on the register writes that change something during
                       \* one operation

ZeroBlock == [i \in 1 .. Beats |-> ZeroWord]
LenValues == 0 .. 2^LenBits - 1

(* The third conjunct follows from the second, but not for the provers.     *)
ASSUME DmaAssumption ==
  /\ Beats \in Nat \ {0} /\ LenBits \in Nat \ {0} /\ 2^LenBits \in Nat \ {0, 1}
  /\ Block = [1 .. Beats -> Word] /\ ZeroKey \in Key /\ None \notin Taken
  /\ SrcAddrs \subseteq Index /\ DstAddrs \subseteq Index /\ Lens \subseteq LenValues
  /\ Ivs \subseteq Block /\ Contents \subseteq [Index -> Word]
  /\ MaxStarts \in Nat /\ MaxDisturbances \in Nat

VARIABLES
  src_addr_reg, dst_addr_reg, len_reg, key_reg, dma_iv_reg, ctrl_mode, ctrl_encdec,
  status_busy, status_done, irq_pulse,
  state, cur_src, cur_dst, blocks_left, beat_cnt, rd_block, wr_block,
  chain_load_iv, chain_start,
  m_awvalid, m_wvalid, m_bready, m_arvalid, m_rready, m_awaddr, m_araddr,
  cleared,       \* history: DONE was written since the last START
  starts,        \* history: the operations begun
  disturbances   \* history: register writes since the last START

regVars  == <<src_addr_reg, dst_addr_reg, len_reg, key_reg, dma_iv_reg, ctrl_mode, ctrl_encdec>>
axiVars  == <<m_awvalid, m_wvalid, m_bready, m_arvalid, m_rready, m_awaddr, m_araddr>>
fsmVars  == <<status_busy, irq_pulse, state, cur_src, cur_dst, blocks_left, beat_cnt,
              rd_block, wr_block, chain_load_iv, chain_start>>
vars     == <<chainVars, ramVars, regVars, axiVars, fsmVars, status_done, cleared,
              starts, disturbances>>

EngineStates == {"IDLE", "RD_ADDR", "RD_DATA", "AES_GO", "AES_WAIT",
                 "WR_ADDR", "WR_DATA", "WR_RESP", "DONE"}

TypeOK ==
  /\ ChainTypeOK /\ RamTypeOK(Beats)
  /\ src_addr_reg \in Index /\ dst_addr_reg \in Index /\ len_reg \in LenValues
  /\ key_reg \in Key /\ dma_iv_reg \in Block /\ ctrl_mode \in Mode
  /\ {ctrl_encdec, status_busy, status_done, irq_pulse, chain_load_iv, chain_start,
      m_awvalid, m_wvalid, m_bready, m_arvalid, m_rready} \subseteq BOOLEAN
  /\ state \in EngineStates /\ {cur_src, cur_dst, m_awaddr, m_araddr} \subseteq Index
  /\ blocks_left \in LenValues /\ beat_cnt \in 0 .. Beats - 1
  /\ rd_block \in Block /\ wr_block \in Block
  /\ cleared \in BOOLEAN /\ starts \in 0 .. MaxStarts
  /\ disturbances \in 0 .. MaxDisturbances

(* Registers without a reset are set by the FSM before it reads them.      *)
Init ==
  /\ ChainInit(ZeroBlock) /\ \E c \in Contents : RamInit(c)
  /\ src_addr_reg = 0 /\ dst_addr_reg = 0 /\ len_reg = 0
  /\ key_reg = ZeroKey /\ dma_iv_reg = ZeroBlock /\ ctrl_mode = "ECB" /\ ctrl_encdec = FALSE
  /\ status_busy = FALSE /\ status_done = FALSE /\ irq_pulse = FALSE
  /\ state = "IDLE" /\ cur_src = 0 /\ cur_dst = 0 /\ blocks_left = 0 /\ beat_cnt = 0
  /\ rd_block = ZeroBlock /\ wr_block = ZeroBlock
  /\ chain_load_iv = FALSE /\ chain_start = FALSE
  /\ m_awvalid = FALSE /\ m_wvalid = FALSE /\ m_bready = FALSE
  /\ m_arvalid = FALSE /\ m_rready = FALSE /\ m_awaddr = 0 /\ m_araddr = 0
  /\ cleared = TRUE /\ starts = 0 /\ disturbances = 0

-----------------------------------------------------------------------------
(* Register writes of the software. *)

Ctrl   == [reg : {"CTRL"}, start : {TRUE}, encdec : BOOLEAN, mode : Mode]
Writes == Ctrl \union [reg : {"DONE"}]           \* STATUS with bit 1 set
               \union [reg : {"SRC"}, value : SrcAddrs] \union [reg : {"DST"}, value : DstAddrs]
               \union [reg : {"LEN"}, value : Lens]     \union [reg : {"KEY"}, value : Key]
               \union [reg : {"IV"}, value : Ivs]       \union [reg : {"none"}]

(* The operators named Bad... are faulty variants, never part of the model: *)
(* each is a plausible slip that one of the properties must catch.          *)
BadStart(w) == w.reg = "CTRL" /\ w.start
do_start(w) == w.reg = "CTRL" /\ w.start /\ ~status_busy

(* Registers, START included, may be written at any time; MaxDisturbances  *)
(* bounds how often while an operation is in progress.                     *)
MayWrite(w) ==
  /\ status_busy /\ w.reg # "none" => disturbances < MaxDisturbances
  /\ do_start(w) => starts < MaxStarts

Written(w, reg, old) == IF w.reg = reg THEN w.value ELSE old

RegisterEdge(w) ==
  /\ src_addr_reg' = Written(w, "SRC", src_addr_reg)
  /\ dst_addr_reg' = Written(w, "DST", dst_addr_reg)
  /\ len_reg'      = Written(w, "LEN", len_reg)
  /\ key_reg'      = Written(w, "KEY", key_reg)
  /\ dma_iv_reg'   = Written(w, "IV", dma_iv_reg)
  /\ ctrl_mode'    = (IF do_start(w) THEN w.mode ELSE ctrl_mode)
  /\ ctrl_encdec'  = (IF do_start(w) THEN w.encdec ELSE ctrl_encdec)
  /\ cleared'      = (w.reg = "DONE" \/ (cleared /\ ~do_start(w)))
  /\ starts'       = starts + (IF do_start(w) THEN 1 ELSE 0)
  /\ disturbances' = (IF ~status_busy THEN 0
                      ELSE disturbances + (IF w.reg = "none" THEN 0 ELSE 1))

(* status_done is assigned from two processes: the FSM sets it in ST_DONE, *)
(* the register process clears it.  On an edge that does both, either may  *)
(* come last.                                                              *)
StatusDone(w) ==
  LET set   == state = "DONE"
      clear == w.reg = "DONE"
  IN  status_done' \in IF set /\ clear THEN BOOLEAN
                       ELSE {(status_done \/ set) /\ ~clear}

-----------------------------------------------------------------------------
(* The engine's state machine, one action per state. *)

Pulses(irq, load, start) == irq_pulse' = irq /\ chain_load_iv' = load /\ chain_start' = start

m_wdata == wr_block[1]
BadWlast == beat_cnt = Beats - 2
m_wlast  == beat_cnt = Beats - 1

ShiftIn(b, w)  == Append(Tail(b), w)
Advance(a)     == WordIdx(a + Beats)

Idle(w) ==
  /\ state = "IDLE"
  /\ IF do_start(w)
     THEN /\ cur_src' = src_addr_reg /\ cur_dst' = dst_addr_reg /\ blocks_left' = len_reg
          /\ status_busy' = TRUE /\ state' = "RD_ADDR"
     ELSE UNCHANGED <<cur_src, cur_dst, blocks_left, status_busy, state>>
  /\ Pulses(FALSE, do_start(w), FALSE)
  /\ UNCHANGED <<axiVars, beat_cnt, rd_block, wr_block>>

RdAddr ==
  /\ state = "RD_ADDR"
  /\ m_araddr' = cur_src
  /\ IF m_arvalid /\ s_arready
     THEN m_arvalid' = FALSE /\ m_rready' = TRUE /\ beat_cnt' = 0 /\ state' = "RD_DATA"
     ELSE m_arvalid' = TRUE /\ UNCHANGED <<m_rready, beat_cnt, state>>
  /\ Pulses(FALSE, FALSE, FALSE)
  /\ UNCHANGED <<m_awvalid, m_wvalid, m_bready, m_awaddr, cur_src, cur_dst, blocks_left,
                 status_busy, rd_block, wr_block>>

RdData ==
  /\ state = "RD_DATA"
  /\ LET beat == s_rvalid /\ m_rready
         last == beat /\ s_rlast
     IN  /\ rd_block' = (IF beat THEN ShiftIn(rd_block, s_rdata) ELSE rd_block)
         /\ m_rready' = (m_rready /\ ~last)
         /\ state' = (IF last THEN "AES_GO" ELSE state)
         /\ Pulses(FALSE, FALSE, last)
  /\ UNCHANGED <<m_awvalid, m_wvalid, m_bready, m_arvalid, m_awaddr, m_araddr, cur_src,
                 cur_dst, blocks_left, beat_cnt, status_busy, wr_block>>

BadAesGo ==          \* holds chain_start for a second cycle
  /\ state = "AES_GO" /\ state' = "AES_WAIT"
  /\ Pulses(FALSE, FALSE, TRUE)
  /\ UNCHANGED <<axiVars, cur_src, cur_dst, blocks_left, beat_cnt, status_busy,
                 rd_block, wr_block>>
AesGo ==
  /\ state = "AES_GO" /\ state' = "AES_WAIT"
  /\ Pulses(FALSE, FALSE, FALSE)
  /\ UNCHANGED <<axiVars, cur_src, cur_dst, blocks_left, beat_cnt, status_busy,
                 rd_block, wr_block>>

AesWait ==
  /\ state = "AES_WAIT"
  /\ IF done_reg
     THEN wr_block' = data_out_reg /\ state' = "WR_ADDR"
     ELSE UNCHANGED <<wr_block, state>>
  /\ Pulses(FALSE, FALSE, FALSE)
  /\ UNCHANGED <<axiVars, cur_src, cur_dst, blocks_left, beat_cnt, status_busy, rd_block>>

WrAddr ==
  /\ state = "WR_ADDR"
  /\ m_awaddr' = cur_dst
  /\ IF m_awvalid /\ s_awready
     THEN m_awvalid' = FALSE /\ m_wvalid' = TRUE /\ beat_cnt' = 0 /\ state' = "WR_DATA"
     ELSE m_awvalid' = TRUE /\ UNCHANGED <<m_wvalid, beat_cnt, state>>
  /\ Pulses(FALSE, FALSE, FALSE)
  /\ UNCHANGED <<m_bready, m_arvalid, m_rready, m_araddr, cur_src, cur_dst, blocks_left,
                 status_busy, rd_block, wr_block>>

WrData ==
  /\ state = "WR_DATA"
  /\ IF m_wvalid /\ s_wready
     THEN /\ wr_block' = ShiftIn(wr_block, ZeroWord)
          /\ IF beat_cnt = Beats - 1
             THEN /\ m_wvalid' = FALSE /\ m_bready' = TRUE /\ state' = "WR_RESP"
                  /\ UNCHANGED beat_cnt
             ELSE beat_cnt' = beat_cnt + 1 /\ UNCHANGED <<m_wvalid, m_bready, state>>
     ELSE UNCHANGED <<wr_block, m_wvalid, m_bready, state, beat_cnt>>
  /\ Pulses(FALSE, FALSE, FALSE)
  /\ UNCHANGED <<m_awvalid, m_arvalid, m_rready, m_awaddr, m_araddr, cur_src, cur_dst,
                 blocks_left, status_busy, rd_block>>

LastBlock    == blocks_left = 1
WrResp ==
  /\ state = "WR_RESP"
  /\ IF ~s_bvalid THEN UNCHANGED <<m_bready, state, cur_src, cur_dst, blocks_left>>
     ELSE /\ m_bready' = FALSE
          /\ IF LastBlock
             THEN state' = "DONE" /\ UNCHANGED <<cur_src, cur_dst, blocks_left>>
             ELSE /\ cur_src' = Advance(cur_src) /\ cur_dst' = Advance(cur_dst)
                  /\ blocks_left' = (blocks_left + 2^LenBits - 1) % 2^LenBits
                  /\ state' = "RD_ADDR"
  /\ Pulses(FALSE, FALSE, FALSE)
  /\ UNCHANGED <<m_awvalid, m_wvalid, m_arvalid, m_rready, m_awaddr, m_araddr, beat_cnt,
                 status_busy, rd_block, wr_block>>

Done ==
  /\ state = "DONE" /\ state' = "IDLE"
  /\ status_busy' = FALSE
  /\ Pulses(TRUE, FALSE, FALSE)
  /\ UNCHANGED <<axiVars, cur_src, cur_dst, blocks_left, beat_cnt, rd_block, wr_block>>

EngineEdge(w) ==
  Idle(w) \/ RdAddr \/ RdData \/ AesGo \/ AesWait \/ WrAddr \/ WrData \/ WrResp \/ Done

Edge(w) ==
  /\ RegisterEdge(w) /\ StatusDone(w) /\ EngineEdge(w)
  /\ ChainEdge(chain_load_iv, dma_iv_reg, chain_start, ctrl_encdec, ctrl_mode,
               key_reg, rd_block)
  /\ RamEdge(m_awvalid, m_awaddr, m_wvalid, m_wdata, m_wlast, m_bready,
             m_arvalid, m_araddr, Beats - 1, m_rready)

Next == \E w \in Writes : MayWrite(w) /\ Edge(w)

Spec == Init /\ [][Next]_vars

(* The clock runs and the block unit ends what it began (AesCore: after 21 *)
(* cycles).                                                                *)
FairSpec == Spec /\ WF_vars(Next) /\ []<>(op = None)

-----------------------------------------------------------------------------
(* Refinement: a block is done, for DmaCopy, on the edge at which the      *)
(* chain takes it; until the write burst ends, the memory DmaCopy sees has *)
(* the rest of the block already in place.                                 *)

Taken_ == state \in {"AES_WAIT", "WR_ADDR", "WR_DATA", "WR_RESP", "DONE", "IDLE"}

RemainingFrom == IF state = "WR_DATA" THEN beat_cnt ELSE 0
Remaining ==     \* the words still to be written, first one first
  IF state = "AES_WAIT" THEN ModeOut(taken)
  ELSE IF state \in {"WR_ADDR", "WR_DATA"} THEN SubSeq(wr_block, 1, Beats - RemainingFrom)
  ELSE << >>
Position(i) == WordIdx(cur_dst + RemainingFrom + i - 1)

SeenMem ==
  [n \in Index |->
     LET at == {i \in 1 .. Len(Remaining) : Position(i) = n}
     IN  IF at = {} THEN mem[n] ELSE Remaining[CHOOSE i \in at : \A j \in at : j <= i]]
SeenIv ==
  IF chain_load_iv THEN dma_iv_reg
  ELSE IF chain_busy THEN ModeNextIv(taken) ELSE iv_reg
Count(len) == IF len = 0 THEN 2^LenBits ELSE len
SeenLeft ==
  IF state \in {"IDLE", "DONE"} THEN 0
  ELSE IF Taken_ THEN Count(blocks_left) - 1 ELSE Count(blocks_left)

BlockOut(mode, encdec, key, data, iv) ==
  ModeOut([mode |-> mode, encdec |-> encdec, key |-> key, data |-> data, iv |-> iv])
BlockIv(mode, encdec, key, data, iv) ==
  ModeNextIv([mode |-> mode, encdec |-> encdec, key |-> key, data |-> data, iv |-> iv])

SeenRegs ==
  [key |-> key_reg, src |-> src_addr_reg, dst |-> dst_addr_reg, len |-> len_reg,
   iv |-> dma_iv_reg]
SeenJob ==
  [mode |-> ctrl_mode, decrypt |-> ctrl_encdec,
   src |-> IF Taken_ THEN Advance(cur_src) ELSE cur_src,
   dst |-> IF Taken_ THEN Advance(cur_dst) ELSE cur_dst]

Copy == INSTANCE DmaCopy WITH
  Result <- BlockOut, NextIv <- BlockIv, mem <- SeenMem, regs <- SeenRegs,
  left <- SeenLeft, job <- SeenJob, iv <- SeenIv, working <- status_busy, irq <- irq_pulse

(* The engine does what DmaCopy promises, and touches no other word of the *)
(* memory.                                                                 *)
ImplementsCopy == Copy!Spec

-----------------------------------------------------------------------------
(* Properties. *)

(* BUSY is up exactly while the state machine is away from IDLE, so that a *)
(* START seen with BUSY down takes effect as a whole.                      *)
BusyIsWorking == status_busy <=> state # "IDLE"

(* The two ends of the burst port keep step: a read burst and a write      *)
(* burst are open only in the engine's states for them, at the very word   *)
(* the engine is at, and the memory is back in W_IDLE (R_IDLE) when the    *)
(* next one is addressed.  (l.120-129: with WLAST registered one cycle     *)
(* late the memory stayed in W_BURST for ever.)                            *)
BurstsInStep ==
  /\ w_state = "BURST" <=> state = "WR_DATA"
  /\ state = "WR_DATA" => w_word_idx = WordIdx(cur_dst + beat_cnt) /\ m_wvalid
  /\ r_state = "BURST" => state = "RD_DATA"
  /\ s_bvalid => state = "WR_RESP"
  /\ s_rvalid => state \in {"RD_DATA", "AES_GO"}

(* The chain is started only when it is idle, with the IV already loaded:  *)
(* no start pulse is ever lost.                                            *)
StartIsTaken == chain_start => ~chain_busy /\ ~chain_load_iv /\ ~done_reg

(* Every operation ends in the interrupt pulse, LEN = 0 (2^LenBits blocks) *)
(* and overlapping regions included.                                       *)
EveryStartInterrupts == status_busy ~> irq_pulse

(* A polling loop ends: after an operation DONE is up, unless the software *)
(* cleared it since its START (STATUS, l.301, set at l.247).               *)
DoneIsShown == ~status_busy /\ ~cleared => status_done

(* The registers, the engine, its chain and its memory agree on where the  *)
(* copy is.                                                                *)
EngineInv == TypeOK /\ BusyIsWorking /\ BurstsInStep /\ StartIsTaken /\ DoneIsShown
=============================================================================
