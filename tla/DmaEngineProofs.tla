---------------------------- MODULE DmaEngineProofs ----------------------------
(***************************************************************************)
(* Proofs about the DMA engine with its chain and its memory, for blocks   *)
(* of any number of words, a memory and a LEN register of any size, every  *)
(* block cipher with an inverse, every register write of the software, and *)
(* the calls of its benches.                                               *)
(***************************************************************************)
EXTENDS MCDmaEngine, SequenceTheorems, WellFoundedInduction, TLAPS

-----------------------------------------------------------------------------
(* Blocks are sequences of Beats words. *)

LEMMA BlockIsSeq == ASSUME NEW b \in Block PROVE b \in Seq(Word) /\ Len(b) = Beats
  BY DmaAssumption

LEMMA ShiftInBlock ==
  ASSUME NEW b \in Block, NEW x \in Word
  PROVE  /\ ShiftIn(b, x) \in Block
         /\ \A i \in 1 .. Beats : ShiftIn(b, x)[i] = IF i = Beats THEN x ELSE b[i + 1]
<1>1. b \in Seq(Word) /\ Len(b) = Beats /\ Beats \in Nat \ {0}
  BY BlockIsSeq, DmaAssumption
<1>2. /\ Append(Tail(b), x) \in Seq(Word) /\ Len(Append(Tail(b), x)) = Beats
      /\ \A i \in 1 .. Beats : Append(Tail(b), x)[i] = IF i = Beats THEN x ELSE b[i + 1]
  BY <1>1
<1>3. Append(Tail(b), x) \in [1 .. Beats -> Word]
  BY <1>2, LenProperties
<1>. QED BY <1>2, <1>3, DmaAssumption DEF ShiftIn

-----------------------------------------------------------------------------
(* The chain. *)

(* What the block unit computes of a block that was taken.                 *)
CoreResult(t) ==
  Cipher(core_encdec(t.mode, t.encdec), t.key,
         core_data_in(t.mode, t.encdec, t.data, t.iv))

(* Around that the chain builds the modes of SP 800-38A.                   *)
LEMMA ChainModesAreStandard ==
  ASSUME NEW t \in Taken
  PROVE  /\ chain_out(t.mode, t.encdec, t.data, t.iv, CoreResult(t)) = ModeOut(t)
         /\ next_iv(t.mode, t.encdec, t.data, t.iv, CoreResult(t)) = ModeNextIv(t)
<1>1. t.mode \in {"ECB", "CBC", "CTR"} /\ t.encdec \in BOOLEAN
  BY DEF Taken, Mode
<1>2. CASE t.mode = "CTR"
  <2>1. core_encdec(t.mode, t.encdec) = FALSE
    BY <1>2 DEF core_encdec
  <2>. QED BY <1>2, <2>1 DEF CoreResult, core_data_in, chain_out, next_iv, ModeOut, ModeNextIv
<1>3. CASE t.mode # "CTR"
  <2>1. core_encdec(t.mode, t.encdec) = t.encdec
    BY <1>1, <1>3 DEF core_encdec
  <2>2. CASE t.encdec = TRUE
    BY <1>1, <1>3, <2>1, <2>2
    DEF CoreResult, core_data_in, chain_out, next_iv, ModeOut, ModeNextIv, Ciphertext
  <2>3. CASE t.encdec = FALSE
    BY <1>1, <1>3, <2>1, <2>3
    DEF CoreResult, core_data_in, chain_out, next_iv, ModeOut, ModeNextIv, Ciphertext
  <2>. QED BY <1>1, <2>2, <2>3
<1>. QED BY <1>2, <1>3

(* A result is there only when nothing is in progress, and is a block.     *)
BlockOK == core_done => op = None /\ core_out \in Block

(* Until a block is over the chain holds the operands it was taken with,   *)
(* and the block unit works, or has worked, on them.                       *)
InProgress ==
  chain_busy =>
    /\ taken \in Taken
    /\ mode_reg = taken.mode /\ encdec_reg = taken.encdec
    /\ data_in_reg = taken.data /\ iv_reg = taken.iv
    /\ op # None => Cipher(op.decrypt, op.key, op.data) = CoreResult(taken)
    /\ core_done => core_out = CoreResult(taken)

ResultIsThere ==
  done_reg => /\ ~chain_busy /\ taken \in Taken /\ data_out_reg \in Block
              /\ data_out_reg = ModeOut(taken) /\ iv_reg = ModeNextIv(taken)

(* The engine and its chain are in the same phase of a block.              *)
Phases ==
  /\ chain_start <=> state = "AES_GO"
  /\ chain_load_iv => state = "RD_ADDR"
  /\ chain_busy \/ done_reg <=> state = "AES_WAIT"

ChainOK == ChainTypeOK /\ BlockOK /\ InProgress /\ ResultIsThere

NewTaken == [mode |-> ctrl_mode, encdec |-> ctrl_encdec, key |-> key_reg,
             data |-> rd_block, iv |-> iv_reg]

RegTypeOK ==
  /\ src_addr_reg \in Index /\ dst_addr_reg \in Index /\ len_reg \in LenValues
  /\ key_reg \in Key /\ dma_iv_reg \in Block /\ ctrl_mode \in Mode /\ ctrl_encdec \in BOOLEAN

FsmTypeOK ==
  /\ status_busy \in BOOLEAN /\ status_done \in BOOLEAN /\ irq_pulse \in BOOLEAN
  /\ chain_load_iv \in BOOLEAN /\ chain_start \in BOOLEAN
  /\ m_awvalid \in BOOLEAN /\ m_wvalid \in BOOLEAN /\ m_bready \in BOOLEAN
  /\ m_arvalid \in BOOLEAN /\ m_rready \in BOOLEAN
  /\ state \in EngineStates /\ cur_src \in Index /\ cur_dst \in Index
  /\ m_awaddr \in Index /\ m_araddr \in Index
  /\ blocks_left \in LenValues /\ beat_cnt \in 0 .. Beats - 1
  /\ rd_block \in Block /\ wr_block \in Block

BoundsOK == cleared \in BOOLEAN /\ starts \in 0 .. MaxStarts /\ disturbances \in 0 .. MaxDisturbances

LEMMA TypeOKParts ==
  TypeOK <=> ChainTypeOK /\ RamTypeOK(Beats) /\ RegTypeOK /\ FsmTypeOK /\ BoundsOK
BY DEF TypeOK, RegTypeOK, FsmTypeOK, BoundsOK

(* What an edge does to the chain.                                         *)
ChainStays == /\ ~chain_busy /\ ~chain_start /\ ~chain_busy' /\ ~done_reg'
              /\ iv_reg' = IF chain_load_iv THEN dma_iv_reg ELSE iv_reg
ChainTakes == /\ chain_start /\ ~chain_busy /\ chain_busy' /\ ~done_reg'
              /\ iv_reg' = iv_reg /\ taken' = NewTaken
ChainWaits == /\ chain_busy /\ chain_busy' /\ ~done_reg' /\ UNCHANGED <<taken, iv_reg>>
ChainEnds  == chain_busy /\ ~chain_busy' /\ done_reg' /\ taken' = taken

LEMMA ChainIdleOK ==
  ASSUME ChainOK, Phases, RegTypeOK, rd_block \in Block, chain_start \in BOOLEAN,
         ChainIdle(chain_load_iv, dma_iv_reg, chain_start, ctrl_encdec, ctrl_mode, key_reg,
                   rd_block)
  PROVE  ChainOK' /\ (ChainStays \/ ChainTakes)
<1>1. /\ chain_state = "IDLE" /\ op = None /\ ~core_done /\ iv_reg \in Block
      /\ key_reg \in Key /\ dma_iv_reg \in Block /\ ctrl_mode \in Mode /\ ctrl_encdec \in BOOLEAN
  BY DEF ChainIdle, ChainOK, ChainTypeOK, BlockTypeOK, chain_busy, RegTypeOK
<1>2. done_reg' = FALSE /\ data_out_reg' = data_out_reg /\ iv_reg' \in Block
      /\ iv_reg' = IF chain_load_iv THEN dma_iv_reg ELSE iv_reg
  BY <1>1 DEF ChainIdle
<1>3. CASE ~chain_start
  <2>1. /\ UNCHANGED <<mode_reg, encdec_reg, data_in_reg, chain_state, taken, op, core_out>>
        /\ core_done' = FALSE
    BY <1>3 DEF ChainIdle, Pass
  <2>2. ChainTypeOK'
    BY <1>1, <1>2, <2>1 DEF ChainOK, ChainTypeOK, BlockTypeOK, chain_busy
  <2>. QED BY <1>1, <1>2, <1>3, <2>1, <2>2
           DEF ChainOK, BlockOK, InProgress, ResultIsThere, ChainStays, chain_busy
<1>4. CASE chain_start
  <2>1. ~chain_load_iv
    BY <1>4 DEF Phases
  <2>2. /\ mode_reg' = ctrl_mode /\ encdec_reg' = ctrl_encdec /\ data_in_reg' = rd_block
        /\ chain_state' = "CORE" /\ taken' = NewTaken /\ iv_reg' = iv_reg
        /\ op' = [decrypt |-> core_encdec(ctrl_mode, ctrl_encdec), key |-> key_reg,
                  data |-> core_data_in(ctrl_mode, ctrl_encdec, rd_block, iv_reg)]
        /\ op' \in Operation /\ core_done' = FALSE /\ core_out' = core_out
    BY <1>4, <2>1 DEF ChainIdle, Begin, live_mode, NewTaken
  <2>3. NewTaken \in Taken
    BY <1>1 DEF NewTaken, Taken
  <2>4. op' # None
    BY <2>2, BlockNone
  <2>5. ChainTypeOK'
    BY <1>1, <1>2, <2>2, <2>3, <2>4 DEF ChainOK, ChainTypeOK, BlockTypeOK, chain_busy
  <2>6. Cipher(op'.decrypt, op'.key, op'.data) = CoreResult(taken')
    BY <2>2 DEF CoreResult, NewTaken
  <2>7. InProgress'
    BY <2>2, <2>3, <2>6 DEF InProgress, NewTaken
  <2>. QED BY <1>1, <1>2, <1>4, <2>2, <2>5, <2>7
           DEF ChainOK, BlockOK, ResultIsThere, ChainTakes, chain_busy
<1>. QED BY <1>3, <1>4

LEMMA ChainWaitOK ==
  ASSUME ChainOK, Phases, ChainWait(chain_load_iv, dma_iv_reg)
  PROVE  ChainOK' /\ ChainWaits
<1>1. /\ chain_state = "CORE" /\ chain_state' = "CORE" /\ ~core_done /\ done_reg' = FALSE
      /\ UNCHANGED <<mode_reg, encdec_reg, data_in_reg, data_out_reg, taken>>
      /\ op \in Operation /\ op # None
  BY BlockNone DEF ChainWait, ChainOK, ChainTypeOK, BlockTypeOK, chain_busy
<1>2. iv_reg' = iv_reg
  BY <1>1 DEF ChainWait, Phases, chain_busy
<1>3. CASE Finish
  <2>1. /\ op' = None /\ core_done' = TRUE
        /\ core_out' = Cipher(op.decrypt, op.key, op.data) /\ core_out' \in Block
    BY <1>1, <1>3, CipherType DEF Finish, Operation
  <2>2. ChainTypeOK'
    BY <1>1, <1>2, <2>1 DEF ChainOK, ChainTypeOK, BlockTypeOK, chain_busy
  <2>3. InProgress'
    BY <1>1, <1>2, <2>1 DEF ChainOK, InProgress, chain_busy, CoreResult
  <2>. QED BY <1>1, <1>2, <2>1, <2>2, <2>3
           DEF ChainOK, BlockOK, ResultIsThere, ChainWaits, chain_busy
<1>4. CASE Pass
  <2>1. op' = op /\ core_done' = FALSE /\ core_out' = core_out
    BY <1>4 DEF Pass
  <2>2. ChainTypeOK'
    BY <1>1, <1>2, <2>1 DEF ChainOK, ChainTypeOK, BlockTypeOK, chain_busy
  <2>3. InProgress'
    BY <1>1, <1>2, <2>1 DEF ChainOK, InProgress, chain_busy, CoreResult
  <2>. QED BY <1>1, <1>2, <2>1, <2>2, <2>3
           DEF ChainOK, BlockOK, ResultIsThere, ChainWaits, chain_busy
<1>. QED BY <1>3, <1>4 DEF ChainWait

LEMMA ChainDoneOK ==
  ASSUME ChainOK, Phases, ChainDone(chain_load_iv, dma_iv_reg)
  PROVE  ChainOK' /\ ChainEnds
<1>1. /\ chain_state = "CORE" /\ chain_state' = "IDLE" /\ core_done /\ op = None
      /\ done_reg' = TRUE /\ op' = op /\ core_done' = FALSE /\ core_out' = core_out
      /\ UNCHANGED <<mode_reg, encdec_reg, data_in_reg, taken>>
      /\ core_out \in Block /\ mode_reg \in Mode /\ encdec_reg \in BOOLEAN
      /\ data_in_reg \in Block /\ iv_reg \in Block
  BY DEF ChainDone, Pass, ChainOK, BlockOK, ChainTypeOK, BlockTypeOK
<1>2. /\ ~chain_load_iv /\ taken \in Taken
      /\ mode_reg = taken.mode /\ encdec_reg = taken.encdec
      /\ data_in_reg = taken.data /\ iv_reg = taken.iv /\ core_out = CoreResult(taken)
  BY <1>1 DEF Phases, ChainOK, InProgress, chain_busy
<1>3. /\ data_out_reg' = chain_out(mode_reg, encdec_reg, data_in_reg, iv_reg, core_out)
      /\ iv_reg' = next_iv(mode_reg, encdec_reg, data_in_reg, iv_reg, core_out)
  BY <1>2 DEF ChainDone
<1>4. data_out_reg' \in Block
  BY <1>1, <1>3, XorType DEF chain_out
<1>5. iv_reg' \in Block
  BY <1>1, <1>3, IncType DEF next_iv
<1>6. ChainTypeOK'
  BY <1>1, <1>4, <1>5 DEF ChainOK, ChainTypeOK, BlockTypeOK, chain_busy
<1>7. data_out_reg' = ModeOut(taken) /\ iv_reg' = ModeNextIv(taken)
  BY <1>2, <1>3, ChainModesAreStandard
<1>8. ResultIsThere'
  BY <1>1, <1>2, <1>4, <1>7 DEF ResultIsThere, ModeOut, ModeNextIv, Ciphertext, chain_busy
<1>. QED BY <1>1, <1>6, <1>8 DEF ChainOK, BlockOK, InProgress, ChainEnds, chain_busy

LEMMA ChainEdgeOK ==
  ASSUME ChainOK, Phases, RegTypeOK, rd_block \in Block, chain_start \in BOOLEAN,
         ChainEdge(chain_load_iv, dma_iv_reg, chain_start, ctrl_encdec, ctrl_mode, key_reg,
                   rd_block)
  PROVE  ChainOK' /\ (ChainStays \/ ChainTakes \/ ChainWaits \/ ChainEnds)
BY ChainIdleOK, ChainWaitOK, ChainDoneOK DEF ChainEdge

-----------------------------------------------------------------------------
(* The registers and the state machine. *)

LEMMA WordIdxType == \A a \in Nat : WordIdx(a) \in Index
BY RamAssumption DEF WordIdx, Index

(* The values of a register write.                                         *)
WriteOK(w) ==
  /\ w.reg = "CTRL" => w.start \in BOOLEAN /\ w.encdec \in BOOLEAN /\ w.mode \in Mode
  /\ w.reg \in {"SRC", "DST"} => w.value \in Index
  /\ w.reg = "LEN" => w.value \in LenValues
  /\ w.reg = "KEY" => w.value \in Key
  /\ w.reg = "IV" => w.value \in Block

LEMMA WritesAreOK == \A w \in Writes : WriteOK(w)
<1>. SUFFICES ASSUME NEW w \in Writes PROVE WriteOK(w)
  OBVIOUS
<1>1. \/ w \in Ctrl \/ w \in [reg : {"DONE"}] \/ w \in [reg : {"SRC"}, value : SrcAddrs]
      \/ w \in [reg : {"DST"}, value : DstAddrs] \/ w \in [reg : {"LEN"}, value : Lens]
      \/ w \in [reg : {"KEY"}, value : Key] \/ w \in [reg : {"IV"}, value : Ivs]
      \/ w \in [reg : {"none"}]
  BY DEF Writes
<1>. QED BY <1>1, DmaAssumption DEF Ctrl, WriteOK

LEMMA RegisterTypes ==
  ASSUME RegTypeOK, NEW w, WriteOK(w), RegisterEdge(w)
  PROVE  RegTypeOK'
<1>1. src_addr_reg' \in Index /\ dst_addr_reg' \in Index /\ len_reg' \in LenValues
      /\ key_reg' \in Key /\ dma_iv_reg' \in Block
  BY DEF RegTypeOK, WriteOK, RegisterEdge, Written
<1>2. ctrl_mode' \in Mode /\ ctrl_encdec' \in BOOLEAN
  BY DEF RegTypeOK, WriteOK, RegisterEdge, do_start
<1>. QED BY <1>1, <1>2 DEF RegTypeOK

LEMMA BlocksLeftType ==
  ASSUME NEW n \in LenValues PROVE (n + 2^LenBits - 1) % 2^LenBits \in LenValues
<1>. DEFINE m == 2^LenBits
<1>1. m \in Nat \ {0} /\ n \in Nat
  BY DmaAssumption DEF LenValues
<1>. HIDE DEF m
<1>2. (n + m - 1) % m \in 0 .. m - 1
  BY <1>1
<1>. QED BY <1>2 DEF m, LenValues

FsmVars == <<fsmVars, axiVars>>

LEMMA FsmTypes ==
  ASSUME FsmTypeOK, RegTypeOK, ResultIsThere, s_rdata \in Word, s_rlast \in BOOLEAN,
         s_rvalid \in BOOLEAN, NEW w, WriteOK(w), EngineEdge(w), StatusDone(w)
  PROVE  FsmTypeOK'
<1>. USE DEF Pulses, axiVars
<1>0. status_done' \in BOOLEAN
  BY DEF StatusDone, FsmTypeOK
<1>1. CASE Idle(w)
  <2>1. do_start(w) \in BOOLEAN
    BY DEF WriteOK, do_start, FsmTypeOK
  <2>. QED BY <1>0, <1>1, <2>1 DEF Idle, FsmTypeOK, RegTypeOK, EngineStates
<1>2. CASE RdAddr
  <2>1. beat_cnt' \in 0 .. Beats - 1
    BY <1>2, DmaAssumption DEF RdAddr, FsmTypeOK
  <2>. QED BY <1>0, <1>2, <2>1 DEF RdAddr, FsmTypeOK, EngineStates
<1>3. CASE RdData
  <2>1. rd_block' \in Block
    BY <1>3, ShiftInBlock DEF RdData, FsmTypeOK
  <2>2. /\ state' \in EngineStates /\ irq_pulse' \in BOOLEAN /\ chain_load_iv' \in BOOLEAN
        /\ chain_start' \in BOOLEAN /\ m_rready' \in BOOLEAN
    BY <1>3 DEF RdData, FsmTypeOK, EngineStates
  <2>. QED BY <1>0, <1>3, <2>1, <2>2 DEF RdData, FsmTypeOK
<1>4. CASE AesGo
  BY <1>0, <1>4 DEF AesGo, FsmTypeOK, EngineStates
<1>5. CASE AesWait
  BY <1>0, <1>5 DEF AesWait, FsmTypeOK, EngineStates, ResultIsThere
<1>6. CASE WrAddr
  <2>1. beat_cnt' \in 0 .. Beats - 1
    BY <1>6, DmaAssumption DEF WrAddr, FsmTypeOK
  <2>. QED BY <1>0, <1>6, <2>1 DEF WrAddr, FsmTypeOK, EngineStates
<1>7. CASE WrData
  <2>1. wr_block' \in Block
    BY <1>7, ShiftInBlock, RamAssumption DEF WrData, FsmTypeOK
  <2>2. beat_cnt' \in 0 .. Beats - 1
    BY <1>7, DmaAssumption DEF WrData, FsmTypeOK
  <2>3. /\ state' \in EngineStates /\ irq_pulse' \in BOOLEAN /\ chain_load_iv' \in BOOLEAN
        /\ chain_start' \in BOOLEAN /\ m_wvalid' \in BOOLEAN /\ m_bready' \in BOOLEAN
    BY <1>7 DEF WrData, FsmTypeOK, EngineStates
  <2>4. UNCHANGED <<m_awvalid, m_arvalid, m_rready, m_awaddr, m_araddr, cur_src, cur_dst,
                    blocks_left, status_busy, rd_block>>
    BY <1>7 DEF WrData
  <2>. QED BY <1>0, <2>1, <2>2, <2>3, <2>4 DEF FsmTypeOK
<1>8. CASE WrResp
  <2>1. Advance(cur_src) \in Index /\ Advance(cur_dst) \in Index
    <3>1. cur_src + Beats \in Nat /\ cur_dst + Beats \in Nat
      BY DmaAssumption, RamAssumption DEF FsmTypeOK, Index
    <3>. QED BY <3>1, WordIdxType DEF Advance
  <2>2. (blocks_left + 2^LenBits - 1) % 2^LenBits \in LenValues
    BY BlocksLeftType DEF FsmTypeOK
  <2>3. cur_src' \in Index /\ cur_dst' \in Index /\ blocks_left' \in LenValues
        /\ state' \in EngineStates /\ m_bready' \in BOOLEAN
    <3>. HIDE DEF Advance
    <3>. QED BY <1>8, <2>1, <2>2 DEF WrResp, FsmTypeOK, EngineStates
  <2>. QED BY <1>0, <1>8, <2>3 DEF WrResp, FsmTypeOK
<1>9. CASE Done
  BY <1>0, <1>9 DEF Done, FsmTypeOK, EngineStates
<1>. QED BY <1>1, <1>2, <1>3, <1>4, <1>5, <1>6, <1>7, <1>8, <1>9 DEF EngineEdge

LEMMA PhasesKeepStep ==
  ASSUME FsmTypeOK, Phases, ResultIsThere, NEW w, EngineEdge(w),
         ChainStays \/ ChainTakes \/ ChainWaits \/ ChainEnds
  PROVE  Phases'
<1>. USE DEF Pulses, axiVars
<1>1. CASE state \notin {"AES_GO", "AES_WAIT"}
  <2>1. ~chain_busy' /\ ~done_reg'
    BY <1>1 DEF Phases, ChainStays, ChainTakes, ChainWaits, ChainEnds
  <2>2. (chain_load_iv' => state' = "RD_ADDR") /\ state' # "AES_WAIT"
    BY <1>1 DEF EngineEdge, Idle, RdAddr, RdData, AesGo, AesWait, WrAddr, WrData, WrResp, Done
  <2>3. chain_start' <=> state' = "AES_GO"
    BY <1>1 DEF EngineEdge, Idle, RdAddr, RdData, AesGo, AesWait, WrAddr, WrData, WrResp, Done
  <2>. QED BY <2>1, <2>2, <2>3 DEF Phases
<1>2. CASE state = "AES_GO"
  <2>1. ChainTakes
    BY <1>2 DEF Phases, ChainStays, ChainTakes, ChainWaits, ChainEnds
  <2>2. state' = "AES_WAIT" /\ ~chain_start' /\ ~chain_load_iv'
    BY <1>2 DEF EngineEdge, Idle, RdAddr, RdData, AesGo, AesWait, WrAddr, WrData, WrResp, Done
  <2>. QED BY <2>1, <2>2 DEF Phases, ChainTakes
<1>3. CASE state = "AES_WAIT"
  <2>1. ~chain_start' /\ ~chain_load_iv' /\ state' = IF done_reg THEN "WR_ADDR" ELSE "AES_WAIT"
    BY <1>3 DEF EngineEdge, Idle, RdAddr, RdData, AesGo, AesWait, WrAddr, WrData, WrResp, Done
  <2>2. CASE done_reg
    <3>1. ChainStays
      BY <1>3, <2>2 DEF Phases, ResultIsThere, ChainStays, ChainTakes, ChainWaits, ChainEnds
    <3>. QED BY <2>1, <2>2, <3>1 DEF Phases, ChainStays
  <2>3. CASE ~done_reg
    <3>1. ChainWaits \/ ChainEnds
      BY <1>3, <2>3 DEF Phases, ChainStays, ChainTakes, ChainWaits, ChainEnds
    <3>. QED BY <2>1, <2>3, <3>1 DEF Phases, ChainWaits, ChainEnds
  <2>. QED BY <2>2, <2>3
<1>. QED BY <1>1, <1>2, <1>3

(* BUSY is as long as the state machine is away from IDLE, and DONE shows  *)
(* an operation that is over.                                              *)
LEMMA FlagsKeepStep ==
  ASSUME BusyIsWorking, DoneIsShown, NEW w, EngineEdge(w), RegisterEdge(w), StatusDone(w)
  PROVE  BusyIsWorking' /\ DoneIsShown'
<1>1. status_busy' <=> state' # "IDLE"
  BY DEF BusyIsWorking, EngineEdge, Idle, RdAddr, RdData, AesGo, AesWait, WrAddr, WrData,
         WrResp, Done
<1>2. ASSUME ~status_busy', ~cleared' PROVE status_done'
  <2>1. w.reg # "DONE" /\ (cleared => do_start(w))
    BY <1>2 DEF RegisterEdge
  <2>2. state = "DONE" \/ (state = "IDLE" /\ ~do_start(w))
    BY <1>2 DEF BusyIsWorking, EngineEdge, Idle, RdAddr, RdData, AesGo, AesWait, WrAddr,
                WrData, WrResp, Done
  <2>. QED BY <2>1, <2>2 DEF StatusDone, DoneIsShown, BusyIsWorking
<1>. QED BY <1>1, <1>2 DEF BusyIsWorking, DoneIsShown

(* The engine, its registers and its chain, whatever drives the memory.    *)
UnitInv ==
  ChainOK /\ RegTypeOK /\ FsmTypeOK /\ Phases /\ BusyIsWorking /\ DoneIsShown

UnitEdge(w) ==
  /\ RegisterEdge(w) /\ StatusDone(w) /\ EngineEdge(w)
  /\ ChainEdge(chain_load_iv, dma_iv_reg, chain_start, ctrl_encdec, ctrl_mode, key_reg, rd_block)

LEMMA UnitStep ==
  ASSUME UnitInv, RamTypeOK(Beats), NEW w, WriteOK(w), UnitEdge(w)
  PROVE  UnitInv' /\ (ChainStays \/ ChainTakes \/ ChainWaits \/ ChainEnds)
<1>1. ChainOK' /\ (ChainStays \/ ChainTakes \/ ChainWaits \/ ChainEnds)
  BY ChainEdgeOK DEF UnitInv, UnitEdge, FsmTypeOK
<1>2. RegTypeOK'
  BY RegisterTypes DEF UnitInv, UnitEdge
<1>3. FsmTypeOK'
  BY FsmTypes DEF UnitInv, UnitEdge, ChainOK, RamTypeOK
<1>4. Phases'
  BY <1>1, PhasesKeepStep DEF UnitInv, UnitEdge, ChainOK
<1>5. BusyIsWorking' /\ DoneIsShown'
  BY FlagsKeepStep DEF UnitInv, UnitEdge
<1>. QED BY <1>1, <1>2, <1>3, <1>4, <1>5 DEF UnitInv

(* No start pulse is ever lost.                                            *)
LEMMA StartsAreTaken == UnitInv => StartIsTaken
BY DEF UnitInv, Phases, StartIsTaken

-----------------------------------------------------------------------------
(* The memory. *)

LEMMA RamTypes ==
  ASSUME RamTypeOK(Beats), NEW awvalid, NEW awaddr \in Nat, NEW wvalid, NEW wdata \in Word,
         NEW wlast, NEW bready, NEW arvalid, NEW araddr \in Nat, NEW arlen \in 0 .. Beats - 1,
         NEW rready,
         RamEdge(awvalid, awaddr, wvalid, wdata, wlast, bready, arvalid, araddr, arlen, rready)
  PROVE  RamTypeOK(Beats)'
<1>1. /\ mem \in [Index -> Word] /\ w_state \in {"IDLE", "BURST"} /\ w_word_idx \in Index
      /\ s_bvalid \in BOOLEAN /\ r_state \in {"IDLE", "BURST"} /\ r_word_idx \in Index
      /\ r_beats_left \in 0 .. Beats - 1 /\ s_rvalid \in BOOLEAN /\ s_rdata \in Word
      /\ s_rlast \in BOOLEAN /\ Beats \in Nat \ {0}
  BY DmaAssumption DEF RamTypeOK
<1>2. w_word_idx + 1 \in Nat /\ r_word_idx + 1 \in Nat
  BY <1>1, RamAssumption DEF Index
<1>3. mem' \in [Index -> Word] /\ w_state' \in {"IDLE", "BURST"} /\ w_word_idx' \in Index
  <2>1. CASE WIdleEdge(awvalid, awaddr)
    BY <1>1, <2>1, WordIdxType DEF WIdleEdge
  <2>2. CASE WBurstEdge(wvalid, wdata, wlast)
    BY <1>1, <1>2, <2>2, WordIdxType DEF WBurstEdge
  <2>. QED BY <2>1, <2>2 DEF RamEdge
<1>4. s_bvalid' \in BOOLEAN
  BY <1>1 DEF RamEdge, BEdge
<1>5. /\ r_state' \in {"IDLE", "BURST"} /\ r_word_idx' \in Index
      /\ r_beats_left' \in 0 .. Beats - 1
  <2>1. CASE RIdleEdge(arvalid, araddr, arlen)
    BY <1>1, <2>1, WordIdxType DEF RIdleEdge
  <2>2. CASE RBurstEdge(rready)
    <3>1. r_beats_left' \in 0 .. Beats - 1
      BY <1>1, <2>2 DEF RBurstEdge
    <3>2. r_word_idx' \in Index /\ r_state' \in {"IDLE", "BURST"}
      BY <1>1, <1>2, <2>2, WordIdxType DEF RBurstEdge
    <3>. QED BY <3>1, <3>2
  <2>. QED BY <2>1, <2>2 DEF RamEdge
<1>6. s_rvalid' \in BOOLEAN /\ s_rdata' \in Word /\ s_rlast' \in BOOLEAN
  <2>1. CASE RIdleEdge(arvalid, araddr, arlen)
    BY <1>1, <2>1 DEF RIdleEdge
  <2>2. CASE RBurstEdge(rready)
    BY <1>1, <2>2 DEF RBurstEdge
  <2>. QED BY <2>1, <2>2 DEF RamEdge
<1>. QED BY <1>3, <1>4, <1>5, <1>6 DEF RamTypeOK

-----------------------------------------------------------------------------
(* The engine with the memory to itself: the two ends of the port keep in  *)
(* step.                                                                   *)

WriteStep ==
  /\ w_state = "BURST" <=> state = "WR_DATA"
  /\ m_awvalid => state = "WR_ADDR" /\ m_awaddr = cur_dst
  /\ m_wvalid <=> state = "WR_DATA"
  /\ m_bready <=> state = "WR_RESP"
  /\ state = "WR_RESP" => s_bvalid
  /\ state = "WR_DATA" => w_word_idx = WordIdx(cur_dst + beat_cnt)

ReadStep ==
  /\ m_arvalid => state = "RD_ADDR" /\ m_araddr = cur_src
  /\ m_rready <=> state = "RD_DATA"
  /\ r_state = "BURST" \/ s_rvalid => state = "RD_DATA"
  /\ state = "RD_DATA" /\ r_state = "IDLE" => s_rvalid /\ s_rlast
  /\ s_rvalid /\ r_state = "BURST" => ~s_rlast

(* The port as the engine drives it.                                       *)
PortEdge ==
  RamEdge(m_awvalid, m_awaddr, m_wvalid, m_wdata, m_wlast, m_bready,
          m_arvalid, m_araddr, Beats - 1, m_rready)

(* Stepping the index of a burst by one stays on its track.                *)
LEMMA ModuloUnique ==
  ASSUME NEW n \in Nat \ {0}, NEW q \in Int, NEW r \in 0 .. n - 1
  PROVE  (n * q + r) % n = r
OBVIOUS

LEMMA ModuloPlus ==
  ASSUME NEW n \in Nat \ {0}, NEW x \in Nat, NEW k \in Nat
  PROVE  ((x % n) + k) % n = (x + k) % n
<1>. DEFINE q == x \div n  y == (x % n) + k
<1>1. q \in Nat /\ x = (n * q) + (x % n) /\ x % n \in 0 .. n - 1
  OBVIOUS
<1>2. y \in Nat /\ x + k = (n * q) + y
  BY <1>1
<1>3. y \div n \in Nat /\ y = (n * (y \div n)) + (y % n) /\ y % n \in 0 .. n - 1
  BY <1>2
<1>. DEFINE Q == q + (y \div n)  R == y % n
<1>4. Q \in Nat /\ R \in 0 .. n - 1 /\ x + k = (n * Q) + R
  BY <1>1, <1>2, <1>3
<1>. HIDE DEF Q, R
<1>5. Q \in Int
  BY <1>4
<1>6. ((n * Q) + R) % n = R
  BY <1>4, <1>5, ModuloUnique
<1>7. (x + k) % n = R
  BY <1>4, <1>6
<1>. QED BY <1>7 DEF R, y

LEMMA NextIndex ==
  ASSUME NEW a \in Nat, NEW k \in Nat
  PROVE  /\ WordIdx(WordIdx(a) + k) = WordIdx(a + k)
         /\ WordIdx(a) \in Index
BY ModuloPlus, WordIdxType, RamAssumption DEF WordIdx

LEMMA IndexIsNat == Index \subseteq Nat
BY RamAssumption DEF Index

LEMMA SmallIndex == \A a \in Index : WordIdx(a) = a
BY RamAssumption DEF Index, WordIdx

LEMMA WriteStepKept ==
  ASSUME FsmTypeOK, RamTypeOK(Beats), WriteStep, NEW w, EngineEdge(w), PortEdge
  PROVE  WriteStep'
<1>. USE DEF Pulses, axiVars, PortEdge, RamEdge
<1>1. w_state \in {"IDLE", "BURST"} /\ cur_dst \in Nat /\ cur_dst \in Index
      /\ beat_cnt \in 0 .. Beats - 1 /\ cur_dst + beat_cnt \in Nat /\ Beats \in Nat \ {0}
  BY IndexIsNat, DmaAssumption DEF RamTypeOK, FsmTypeOK
<1>2. CASE state = "WR_ADDR"
  <2>1. WrAddr /\ WIdleEdge(m_awvalid, m_awaddr) /\ s_awready
    BY <1>1, <1>2 DEF WriteStep, EngineEdge, Idle, RdAddr, RdData, AesGo, AesWait, WrData,
                      WrResp, Done, WBurstEdge, s_awready
  <2>2. CASE m_awvalid
    <3>1. w_word_idx' = WordIdx(cur_dst + 0)
      BY <1>1, <2>1, <2>2 DEF WIdleEdge, WriteStep
    <3>2. beat_cnt' = 0 /\ cur_dst' = cur_dst
      BY <2>1, <2>2 DEF WrAddr
    <3>. QED BY <1>2, <2>1, <2>2, <3>1, <3>2 DEF WrAddr, WIdleEdge, WriteStep
  <2>3. CASE ~m_awvalid
    BY <1>2, <2>1, <2>3 DEF WrAddr, WIdleEdge, WriteStep
  <2>. QED BY <2>2, <2>3
<1>3. CASE state = "WR_DATA"
  <2>1. /\ WrData /\ WBurstEdge(m_wvalid, m_wdata, m_wlast) /\ s_wready /\ m_wvalid
        /\ w_word_idx = WordIdx(cur_dst + beat_cnt) /\ ~m_awvalid /\ ~m_bready
        /\ m_wlast => s_bvalid'
    BY <1>1, <1>3 DEF WriteStep, EngineEdge, Idle, RdAddr, RdData, AesGo, AesWait, WrAddr,
                      WrResp, Done, WIdleEdge, BEdge, s_wready
  <2>2. CASE m_wlast
    BY <1>3, <2>1, <2>2 DEF WrData, WBurstEdge, WriteStep, m_wlast
  <2>3. CASE ~m_wlast
    <3>1. w_word_idx' = WordIdx(WordIdx(cur_dst + beat_cnt) + 1)
      BY <2>1 DEF WBurstEdge
    <3>2. WordIdx(WordIdx(cur_dst + beat_cnt) + 1) = WordIdx(cur_dst + beat_cnt + 1)
      BY <1>1, NextIndex
    <3>3. cur_dst + beat_cnt + 1 = cur_dst + (beat_cnt + 1)
      BY <1>1
    <3>4. beat_cnt' = beat_cnt + 1 /\ cur_dst' = cur_dst
      BY <2>1, <2>3 DEF WrData, m_wlast
    <3>5. w_word_idx' = WordIdx(cur_dst' + beat_cnt')
      BY <3>1, <3>2, <3>3, <3>4
    <3>. QED BY <1>3, <2>1, <2>3, <3>5 DEF WrData, WBurstEdge, WriteStep, m_wlast
  <2>. QED BY <2>2, <2>3
<1>4. CASE state \notin {"WR_ADDR", "WR_DATA"}
  <2>1. WIdleEdge(m_awvalid, m_awaddr) /\ ~m_awvalid /\ ~m_wvalid
    BY <1>1, <1>4 DEF WriteStep, WBurstEdge
  <2>2. w_state' = "IDLE"
    BY <1>1, <1>4, <2>1 DEF WriteStep, WIdleEdge
  <2>3. /\ \/ state' \notin {"WR_DATA", "WR_RESP"}
           \/ state' = "WR_RESP" /\ state = "WR_RESP" /\ ~s_bvalid
        /\ ~m_awvalid' /\ ~m_wvalid' /\ (m_bready' => state' = "WR_RESP")
    BY <1>4, <2>1 DEF WriteStep, EngineEdge, Idle, RdAddr, RdData, AesGo, AesWait, WrAddr,
                      WrData, WrResp, Done
  <2>4. state' \notin {"WR_DATA", "WR_RESP"}
    BY <2>3 DEF WriteStep
  <2>. QED BY <2>2, <2>3, <2>4 DEF WriteStep
<1>. QED BY <1>2, <1>3, <1>4

LEMMA ReadStepKept ==
  ASSUME FsmTypeOK, RamTypeOK(Beats), ReadStep, NEW w, EngineEdge(w), PortEdge
  PROVE  ReadStep'
<1>. USE DEF Pulses, axiVars, PortEdge, RamEdge
<1>1. r_state \in {"IDLE", "BURST"} /\ Beats \in Nat \ {0}
  BY DmaAssumption DEF RamTypeOK
<1>2. CASE state = "RD_ADDR"
  <2>1. RdAddr /\ RIdleEdge(m_arvalid, m_araddr, Beats - 1) /\ s_arready
    BY <1>1, <1>2 DEF ReadStep, EngineEdge, Idle, RdData, AesGo, AesWait, WrAddr, WrData,
                      WrResp, Done, RBurstEdge, s_arready
  <2>. QED BY <1>2, <2>1 DEF RdAddr, RIdleEdge, ReadStep
<1>3. CASE state = "RD_DATA"
  <2>1. RdData /\ m_rready /\ ~m_arvalid
    BY <1>1, <1>3 DEF ReadStep, EngineEdge, Idle, RdAddr, AesGo, AesWait, WrAddr, WrData,
                      WrResp, Done
  <2>2. CASE r_state = "IDLE"
    <3>1. RIdleEdge(m_arvalid, m_araddr, Beats - 1) /\ s_rvalid /\ s_rlast
      BY <1>3, <2>2 DEF RBurstEdge, ReadStep
    <3>. QED BY <1>3, <2>1, <2>2, <3>1 DEF RdData, RIdleEdge, ReadStep
  <2>3. CASE r_state = "BURST"
    <3>1. RBurstEdge(m_rready) /\ ~(s_rvalid /\ s_rlast)
      BY <1>3, <2>3 DEF RIdleEdge, ReadStep
    <3>2. s_rvalid' = TRUE /\ s_rlast' = (r_beats_left = 0)
          /\ r_state' = IF r_beats_left = 0 THEN "IDLE" ELSE "BURST"
      BY <2>1, <2>3, <3>1 DEF RBurstEdge
    <3>3. state' = "RD_DATA" /\ m_rready' /\ ~m_arvalid'
      BY <1>3, <2>1, <3>1 DEF RdData, ReadStep
    <3>. QED BY <3>2, <3>3 DEF ReadStep
  <2>. QED BY <1>1, <2>2, <2>3
<1>4. CASE state \notin {"RD_ADDR", "RD_DATA"}
  <2>1. RIdleEdge(m_arvalid, m_araddr, Beats - 1) /\ ~m_arvalid /\ ~m_rready
    BY <1>1, <1>4 DEF ReadStep, RBurstEdge
  <2>2. r_state' = "IDLE" /\ ~s_rvalid'
    BY <2>1 DEF RIdleEdge
  <2>3. state' # "RD_DATA" /\ ~m_arvalid' /\ ~m_rready'
    BY <1>4, <2>1 DEF EngineEdge, Idle, RdAddr, RdData, AesGo, AesWait, WrAddr, WrData,
                      WrResp, Done
  <2>. QED BY <2>2, <2>3 DEF ReadStep
<1>. QED BY <1>2, <1>3, <1>4

(* With only the engine ever writing, a response is up only for the engine *)
(* to take; after a bench has written, its own is still up (DmaBench).     *)
AnswerIsOwn == s_bvalid => state = "WR_RESP"

LEMMA AnswerIsOwnKept ==
  ASSUME FsmTypeOK, RamTypeOK(Beats), WriteStep, AnswerIsOwn, NEW w, EngineEdge(w), PortEdge
  PROVE  AnswerIsOwn'
<1>. USE DEF Pulses, axiVars
<1>1. s_bvalid' = IF s_bvalid /\ m_bready THEN FALSE
                  ELSE s_bvalid \/ (w_state = "BURST" /\ m_wvalid /\ m_wlast)
  BY DEF PortEdge, RamEdge, BEdge
<1>2. CASE s_bvalid
  BY <1>1, <1>2 DEF AnswerIsOwn, WriteStep
<1>3. CASE ~s_bvalid
  <2>1. s_bvalid' => state = "WR_DATA" /\ m_wlast /\ m_wvalid /\ s_wready
    BY <1>1, <1>3 DEF WriteStep, s_wready
  <2>2. s_bvalid' => WrData
    BY <2>1 DEF EngineEdge, Idle, RdAddr, RdData, AesGo, AesWait, WrAddr, WrResp, Done
  <2>. QED BY <2>1, <2>2 DEF WrData, m_wlast, AnswerIsOwn
<1>. QED BY <1>2, <1>3

PortInv    == UnitInv /\ RamTypeOK(Beats) /\ WriteStep /\ ReadStep
EngineIInv == PortInv /\ BoundsOK /\ AnswerIsOwn

LEMMA EngineIInvImplies == EngineIInv => EngineInv
<1>. SUFFICES ASSUME EngineIInv PROVE EngineInv
  OBVIOUS
<1>1. TypeOK
  BY TypeOKParts DEF EngineIInv, PortInv, UnitInv, ChainOK
<1>2. BurstsInStep
  BY DEF EngineIInv, PortInv, AnswerIsOwn, WriteStep, ReadStep, BurstsInStep
<1>. QED BY <1>1, <1>2, StartsAreTaken DEF EngineIInv, PortInv, UnitInv, EngineInv

LEMMA InitUnit == Init => UnitInv /\ BoundsOK /\ RamTypeOK(Beats)
<1>. SUFFICES ASSUME Init PROVE UnitInv /\ BoundsOK /\ RamTypeOK(Beats)
  OBVIOUS
<1>1. ZeroBlock \in Block /\ 0 \in Index /\ 0 \in LenValues /\ 0 \in 0 .. Beats - 1
  BY RamAssumption, DmaAssumption DEF ZeroBlock, Index, LenValues
<1>2. /\ op = None /\ core_done = FALSE /\ core_out = None /\ chain_state = "IDLE"
      /\ done_reg = FALSE /\ taken = None /\ data_out_reg = None
      /\ mode_reg = "ECB" /\ encdec_reg = FALSE /\ data_in_reg = ZeroBlock /\ iv_reg = ZeroBlock
  BY DEF Init, ChainInit, BlockInit
<1>3. ChainOK
  BY <1>1, <1>2 DEF ChainOK, ChainTypeOK, BlockTypeOK, Mode, chain_busy, BlockOK, InProgress,
                    ResultIsThere
<1>4. RegTypeOK
  BY <1>1, DmaAssumption DEF Init, RegTypeOK, Mode
<1>5. FsmTypeOK
  BY <1>1 DEF Init, FsmTypeOK, EngineStates
<1>6. Phases /\ BusyIsWorking /\ DoneIsShown
  BY <1>2 DEF Init, Phases, BusyIsWorking, DoneIsShown, chain_busy
<1>7. BoundsOK
  BY DmaAssumption DEF Init, BoundsOK
<1>8. RamTypeOK(Beats)
  BY <1>1, RamAssumption, DmaAssumption DEF Init, RamInit, RamTypeOK
<1>. QED BY <1>3, <1>4, <1>5, <1>6, <1>7, <1>8 DEF UnitInv

LEMMA InitEngine == Init => EngineIInv
<1>. SUFFICES ASSUME Init PROVE WriteStep /\ ReadStep /\ AnswerIsOwn
  BY InitUnit DEF EngineIInv, PortInv
<1>. QED BY DEF Init, RamInit, WriteStep, ReadStep, AnswerIsOwn

LEMMA BoundsKept ==
  ASSUME BoundsOK, NEW w \in Writes, MayWrite(w), RegisterEdge(w)
  PROVE  BoundsOK'
<1>1. starts \in Nat /\ MaxStarts \in Nat /\ disturbances \in Nat /\ MaxDisturbances \in Nat
  BY DmaAssumption DEF BoundsOK
<1>2. starts' \in 0 .. MaxStarts
  BY <1>1 DEF BoundsOK, RegisterEdge, MayWrite
<1>3. disturbances' \in 0 .. MaxDisturbances
  BY <1>1 DEF BoundsOK, RegisterEdge, MayWrite
<1>4. cleared' \in BOOLEAN
  BY DEF BoundsOK, RegisterEdge
<1>. QED BY <1>2, <1>3, <1>4 DEF BoundsOK

LEMMA WireTypes ==
  ASSUME FsmTypeOK
  PROVE  /\ m_awvalid \in BOOLEAN /\ m_awaddr \in Nat /\ m_wvalid \in BOOLEAN
         /\ m_wdata \in Word /\ m_wlast \in BOOLEAN /\ m_bready \in BOOLEAN
         /\ m_arvalid \in BOOLEAN /\ m_araddr \in Nat /\ Beats - 1 \in 0 .. Beats - 1
         /\ m_rready \in BOOLEAN
<1>1. m_wdata \in Word
  BY DmaAssumption DEF m_wdata, FsmTypeOK
<1>. QED BY <1>1, DmaAssumption, IndexIsNat DEF FsmTypeOK, m_wlast

(* One edge of the engine on its own port.                                 *)
LEMMA PortKeeps ==
  ASSUME PortInv, NEW w, WriteOK(w), UnitEdge(w), PortEdge
  PROVE  PortInv' /\ (ChainStays \/ ChainTakes \/ ChainWaits \/ ChainEnds)
<1>1. FsmTypeOK /\ RamTypeOK(Beats) /\ UnitInv /\ EngineEdge(w)
  BY DEF PortInv, UnitInv, UnitEdge
<1>2. UnitInv' /\ (ChainStays \/ ChainTakes \/ ChainWaits \/ ChainEnds)
  BY <1>1, UnitStep
<1>3. RamTypeOK(Beats)'
  <2>1. /\ m_awvalid \in BOOLEAN /\ m_awaddr \in Nat /\ m_wvalid \in BOOLEAN
        /\ m_wdata \in Word /\ m_wlast \in BOOLEAN /\ m_bready \in BOOLEAN
        /\ m_arvalid \in BOOLEAN /\ m_araddr \in Nat /\ Beats - 1 \in 0 .. Beats - 1
        /\ m_rready \in BOOLEAN
    BY <1>1, WireTypes
  <2>2. RamEdge(m_awvalid, m_awaddr, m_wvalid, m_wdata, m_wlast, m_bready,
                m_arvalid, m_araddr, Beats - 1, m_rready)
    BY DEF PortEdge
  <2>. QED BY <1>1, <2>1, <2>2, RamTypes, Zenon
<1>4. WriteStep' /\ ReadStep'
  BY <1>1, WriteStepKept, ReadStepKept DEF PortInv
<1>. QED BY <1>2, <1>3, <1>4 DEF PortInv

LEMMA EngineKeeps ==
  ASSUME EngineIInv, NEW w \in Writes, MayWrite(w), Edge(w)
  PROVE  EngineIInv' /\ (ChainStays \/ ChainTakes \/ ChainWaits \/ ChainEnds)
<1>1. UnitEdge(w) /\ PortEdge /\ RegisterEdge(w) /\ EngineEdge(w)
  BY DEF Edge, UnitEdge, PortEdge
<1>2. FsmTypeOK /\ RamTypeOK(Beats) /\ PortInv /\ WriteStep
  BY DEF EngineIInv, PortInv, UnitInv
<1>3. PortInv' /\ (ChainStays \/ ChainTakes \/ ChainWaits \/ ChainEnds)
  BY <1>1, <1>2, PortKeeps, WritesAreOK
<1>4. AnswerIsOwn'
  BY <1>1, <1>2, AnswerIsOwnKept DEF EngineIInv
<1>. QED BY <1>1, <1>3, <1>4, BoundsKept DEF EngineIInv

-----------------------------------------------------------------------------
(* The benches: bursts by hand, then an operation, which runs undisturbed. *)

Runs == [src : RunSrc, dst : RunDst, len : RunLens, key : Key, iv : Block,
         encdec : BOOLEAN, mode : Mode]

Stages == {"judge", "aw", "w", "b", "ar", "r", "config", "poll", "clear"}
Calls(words, strobes, arg) ==
  [stage : Stages, op : {"none", "write", "read", "run"}, addr : Index, words : words,
   strobes : strobes, arg : arg, at : Nat, spin : Nat, spun : Nat, out : words, ok : BOOLEAN]

CallTypeOK == call \in Calls(Seq(Word), Seq(BOOLEAN), Runs \union {<<>>})

SeenTypeOK ==
  seen \in [awready : BOOLEAN, wready : BOOLEAN, bvalid : BOOLEAN, arready : BOOLEAN,
            rvalid : BOOLEAN]

CallsInStep ==
  /\ call.stage \in {"aw", "w"} => call.at \in 1 .. Len(call.words)
  /\ call.stage = "ar" => call.at \in 1 .. Beats
  /\ call.stage = "config" => call.arg \in Runs /\ call.at \in 1 .. 6
  /\ call.stage \in {"config", "poll", "clear"} => calls > 1

EngineRests ==
  /\ call.stage # "poll" \/ status_done => state = "IDLE"
  /\ calls <= 1 \/ top = "dma_ram" \/ call.stage = "config" => starts = 0 /\ ~status_done
  /\ top = "dma_ram" => call.stage \notin {"config", "poll", "clear"}
  /\ disturbances = 0

BenchIInv ==
  /\ UnitInv /\ BoundsOK /\ RamTypeOK(Beats) /\ calls \in Nat
  /\ CallTypeOK /\ SeenTypeOK /\ CallsInStep /\ EngineRests

LEMMA InitBench == BenchInit => BenchIInv
<1>. SUFFICES ASSUME BenchInit PROVE BenchIInv
  OBVIOUS
<1>1. UnitInv /\ BoundsOK /\ RamTypeOK(Beats) /\ calls \in Nat
  BY InitUnit DEF BenchInit
<1>2. CallTypeOK
  BY RamAssumption DEF BenchInit, NoCall, CallTypeOK, Calls, Stages, Index
<1>3. SeenTypeOK
  BY DEF BenchInit, Idling, Blind, SeenTypeOK
<1>4. CallsInStep /\ EngineRests
  BY DEF BenchInit, NoCall, CallsInStep, EngineRests, Init
<1>. QED BY <1>1, <1>2, <1>3, <1>4 DEF BenchIInv

PortType ==
  [awvalid : BOOLEAN, awaddr : Index, wvalid : BOOLEAN, wdata : Word, wlast : BOOLEAN,
   bready : BOOLEAN, arvalid : BOOLEAN, araddr : Index, arlen : 0 .. Beats - 1,
   rready : BOOLEAN]

LEMMA PortIsPort == Port \in PortType
BY RamAssumption, DmaAssumption DEF Port, PortType, Index

(* One clock of a bench.                                                   *)
LEMMA ClockKeeps ==
  ASSUME UnitInv, RamTypeOK(Beats), NEW p \in PortType, NEW w, WriteOK(w), Clock(p, w)
  PROVE  UnitInv' /\ RamTypeOK(Beats)' /\ SeenTypeOK'
<1>1. UnitInv'
  BY UnitStep DEF Clock, UnitEdge
<1>2. RamTypeOK(Beats)'
  <2>. DEFINE awaddr == IF use_test_port_w(p) THEN p.awaddr ELSE m_awaddr
              wdata == IF use_test_port_w(p) THEN p.wdata ELSE m_wdata
              araddr == IF use_test_port_r(p) THEN p.araddr ELSE m_araddr
              arlen == IF use_test_port_r(p) THEN p.arlen ELSE Beats - 1
              awvalid == IF use_test_port_w(p) THEN p.awvalid ELSE m_awvalid
              wvalid == IF use_test_port_w(p) THEN p.wvalid ELSE m_wvalid
              wlast == IF use_test_port_w(p) THEN p.wlast ELSE m_wlast
              bready == IF use_test_port_w(p) THEN p.bready ELSE m_bready
              arvalid == IF use_test_port_r(p) THEN p.arvalid ELSE m_arvalid
              rready == IF use_test_port_r(p) THEN p.rready ELSE m_rready
  <2>1. awaddr \in Nat /\ wdata \in Word /\ araddr \in Nat /\ arlen \in 0 .. Beats - 1
    BY WireTypes, IndexIsNat DEF UnitInv, PortType
  <2>2. RamEdge(awvalid, awaddr, wvalid, wdata, wlast, bready, arvalid, araddr, arlen, rready)
    BY DEF Clock
  <2>. HIDE DEF awaddr, wdata, araddr, arlen, awvalid, wvalid, wlast, bready, arvalid, rready
  <2>. QED BY <2>1, <2>2, RamTypes, Zenon
<1>3. SeenTypeOK'
  BY DEF Clock, SeenTypeOK, use_test_port_w, use_test_port_r, PortType
<1>. QED BY <1>1, <1>2, <1>3

(* Between operations a clock without a START leaves the engine at rest;   *)
(* during one it ends in IDLE, with DONE.                                  *)
LEMMA ClockRests ==
  ASSUME UnitInv, BoundsOK, NEW p, NEW w, ~do_start(w), Clock(p, w), disturbances = 0,
         status_done => state = "IDLE", w.reg = "none" \/ state = "IDLE"
  PROVE  /\ BoundsOK' /\ disturbances' = 0 /\ starts' = starts
         /\ state = "IDLE" => state' = "IDLE" /\ (status_done' => status_done)
         /\ status_done' => state' = "IDLE"
<1>. USE DEF Clock
<1>1. starts' = starts /\ disturbances' = 0 /\ cleared' \in BOOLEAN
  BY DmaAssumption DEF RegisterEdge, BoundsOK, UnitInv, BusyIsWorking
<1>2. state = "IDLE" => state' = "IDLE"
  BY DEF EngineEdge, Idle, RdAddr, RdData, AesGo, AesWait, WrAddr, WrData, WrResp, Done
<1>3. state = "DONE" => state' = "IDLE"
  BY DEF EngineEdge, Idle, RdAddr, RdData, AesGo, AesWait, WrAddr, WrData, WrResp, Done
<1>4. status_done' => status_done \/ state = "DONE"
  BY DEF StatusDone
<1>. QED BY <1>1, <1>2, <1>3, <1>4 DEF BoundsOK

LEMMA NoWriteIsOK == WriteOK(NoWrite) /\ ~do_start(NoWrite)
BY DEF NoWrite, WriteOK, do_start

(* How a step of a call updates its record.                                *)
LEMMA CallUpdates ==
  ASSUME NEW W, NEW B, NEW R, NEW c \in Calls(W, B, R)
  PROVE  /\ c.spin \in Nat /\ c.spun \in Nat /\ c.at \in Nat /\ c.addr \in Index
         /\ c.words \in W /\ c.strobes \in B /\ c.out \in W /\ c.arg \in R
         /\ [c EXCEPT !.spin = @ + 1] \in Calls(W, B, R)
         /\ \A s \in Stages : [c EXCEPT !.stage = s, !.spun = c.spin, !.spin = 0] \in Calls(W, B, R)
         /\ \A s \in Stages : [c EXCEPT !.stage = s, !.at = @ + 1, !.spin = 0] \in Calls(W, B, R)
         /\ \A s \in Stages, v \in BOOLEAN : [c EXCEPT !.stage = s, !.ok = v] \in Calls(W, B, R)
         /\ \A s \in Stages, o \in W, v \in BOOLEAN :
              [c EXCEPT !.out = o, !.spin = c.spin + 1, !.ok = v, !.stage = s] \in Calls(W, B, R)
         /\ \A s \in Stages : [c EXCEPT !.at = @ + 1, !.stage = s] \in Calls(W, B, R)
         /\ \A s \in Stages : [c EXCEPT !.stage = s] \in Calls(W, B, R)
<1>1. c.spin \in Nat /\ c.spin + 1 \in Nat /\ c.at + 1 \in Nat
  BY DEF Calls
<1>. QED BY <1>1 DEF Calls

(* A step of a burst: the engine rests, the call goes on.                  *)
BurstStage == call.stage \in {"aw", "w", "b", "ar", "r"}

LEMMA BurstClock ==
  ASSUME BenchIInv, NEW p \in PortType, Clock(p, NoWrite), UNCHANGED <<top, calls>>,
         CallTypeOK', CallsInStep', BurstStage,
         call.stage' \in {"aw", "w", "b", "ar", "r", "judge"}
  PROVE  BenchIInv'
<1>1. UnitInv' /\ RamTypeOK(Beats)' /\ SeenTypeOK'
  BY ClockKeeps, NoWriteIsOK DEF BenchIInv
<1>2. state = "IDLE" /\ disturbances = 0
  BY DEF BurstStage, BenchIInv, EngineRests
<1>3. /\ BoundsOK' /\ disturbances' = 0 /\ starts' = starts
      /\ state' = "IDLE" /\ (status_done' => status_done)
  BY <1>2, ClockRests, NoWriteIsOK DEF BenchIInv, NoWrite
<1>4. EngineRests'
  BY <1>3 DEF BenchIInv, EngineRests, BurstStage
<1>. QED BY <1>1, <1>3, <1>4 DEF BenchIInv

LEMMA AwKeeps == ASSUME BenchIInv, AwLoop, UNCHANGED <<top, calls>> PROVE BenchIInv'
<1>. DEFINE p == [Port EXCEPT !.awvalid = TRUE, !.awaddr = call.addr]
<1>1. p \in PortType
  BY PortIsPort DEF PortType, BenchIInv, CallTypeOK, Calls, Stages
<1>2. Clock(p, NoWrite) /\ call.stage = "aw"
  BY DEF AwLoop, Loop
<1>3. \/ call' = [call EXCEPT !.stage = "w", !.spun = call.spin, !.spin = 0]
      \/ call' = [call EXCEPT !.spin = @ + 1]
  BY DEF AwLoop, Loop
<1>4. CallTypeOK' /\ CallsInStep' /\ call.stage' \in {"aw", "w"}
  <2>1. CallTypeOK'
    <3>1. call \in Calls(Seq(Word), Seq(BOOLEAN), Runs \union {<<>>}) /\ seen.bvalid \in BOOLEAN
      BY DEF BenchIInv, CallTypeOK, SeenTypeOK
    <3>2. CASE call' = [call EXCEPT !.stage = "w", !.spun = call.spin, !.spin = 0]
      BY <3>1, <3>2, CallUpdates DEF CallTypeOK, Stages
    <3>3. CASE call' = [call EXCEPT !.spin = @ + 1]
      BY <3>1, <3>3, CallUpdates DEF CallTypeOK
    <3>. QED BY <1>3, <3>2, <3>3
  <2>2. /\ call.stage' \in {"aw", "w"} /\ call.words' = call.words /\ call.at' = call.at
    BY <1>2, <1>3 DEF BenchIInv, CallTypeOK, Calls, Stages
  <2>. QED BY <1>2, <2>1, <2>2 DEF BenchIInv, CallsInStep
<1>. HIDE DEF p
<1>. QED BY <1>1, <1>2, <1>4, BurstClock DEF BurstStage

LEMMA WKeeps == ASSUME BenchIInv, WLoop, UNCHANGED <<top, calls>> PROVE BenchIInv'
<1>. DEFINE last == call.at = Len(call.words)
            p == [Port EXCEPT !.wvalid = TRUE, !.wdata = Strobed(mem[w_word_idx]), !.wlast = last]
<1>1. call.at \in 1 .. Len(call.words) /\ call.words \in Seq(Word) /\ call.stage = "w"
  BY DEF WLoop, BenchIInv, CallsInStep, CallTypeOK, Calls, Stages
<1>2. Strobed(mem[w_word_idx]) \in Word
  <2>1. call.words[call.at] \in Word
    BY <1>1, ElementOfSeq
  <2>2. mem[w_word_idx] \in Word
    BY DEF BenchIInv, RamTypeOK
  <2>. QED BY <2>1, <2>2 DEF Strobed
<1>3. p \in PortType
  BY <1>2, PortIsPort DEF PortType
<1>4. Clock(p, NoWrite)
  BY DEF WLoop, Loop
<1>5. \/ call' = [call EXCEPT !.stage = IF last THEN "b" ELSE "w", !.at = @ + 1, !.spin = 0]
      \/ call' = [call EXCEPT !.spin = @ + 1]
  BY DEF WLoop, Loop
<1>6. call.at + 1 \in Nat /\ (~last => call.at + 1 \in 1 .. Len(call.words)) /\ last \in BOOLEAN
  BY <1>1
<1>7. CallTypeOK' /\ CallsInStep' /\ call.stage' \in {"w", "b"}
  <2>1. CASE call' = [call EXCEPT !.stage = IF last THEN "b" ELSE "w", !.at = @ + 1, !.spin = 0]
    <3>1. call.stage' = (IF last THEN "b" ELSE "w") /\ call.at' = call.at + 1
          /\ call.words' = call.words
      BY <2>1 DEF BenchIInv, CallTypeOK, Calls, Stages
    <3>2. CallTypeOK'
      BY <1>6, <2>1, CallUpdates DEF BenchIInv, CallTypeOK, Stages, SeenTypeOK
    <3>. HIDE DEF last
    <3>3. CallsInStep'
      BY <1>6, <3>1 DEF CallsInStep
    <3>. QED BY <3>1, <3>2, <3>3
  <2>2. CASE call' = [call EXCEPT !.spin = @ + 1]
    <3>1. CallTypeOK'
      BY <2>2, CallUpdates DEF BenchIInv, CallTypeOK, Stages, SeenTypeOK
    <3>2. call.stage' = "w" /\ call.words' = call.words /\ call.at' = call.at
      BY <1>1, <2>2 DEF BenchIInv, CallTypeOK, Calls, Stages
    <3>. QED BY <1>1, <3>1, <3>2 DEF CallsInStep
  <2>. QED BY <1>5, <2>1, <2>2
<1>. HIDE DEF p
<1>. QED BY <1>1, <1>3, <1>4, <1>7, BurstClock DEF BurstStage

LEMMA BKeeps == ASSUME BenchIInv, BLoop, UNCHANGED <<top, calls>> PROVE BenchIInv'
<1>. DEFINE p == [Port EXCEPT !.bready = TRUE]
<1>1. p \in PortType
  BY PortIsPort DEF PortType
<1>2. Clock(p, NoWrite) /\ call.stage = "b"
  BY DEF BLoop
<1>3. \/ call' = [call EXCEPT !.stage = "judge", !.ok = seen.bvalid]
      \/ call' = [call EXCEPT !.spin = @ + 1]
  BY DEF BLoop
<1>4. CallTypeOK' /\ CallsInStep' /\ call.stage' \in {"b", "judge"}
  <2>1. CallTypeOK'
    <3>1. call \in Calls(Seq(Word), Seq(BOOLEAN), Runs \union {<<>>}) /\ seen.bvalid \in BOOLEAN
      BY DEF BenchIInv, CallTypeOK, SeenTypeOK
    <3>2. CASE call' = [call EXCEPT !.stage = "judge", !.ok = seen.bvalid]
      BY <3>1, <3>2, CallUpdates DEF CallTypeOK, Stages
    <3>3. CASE call' = [call EXCEPT !.spin = @ + 1]
      BY <3>1, <3>3, CallUpdates DEF CallTypeOK
    <3>. QED BY <1>3, <3>2, <3>3
  <2>2. call.stage' \in {"b", "judge"}
    BY <1>2, <1>3 DEF BenchIInv, CallTypeOK, Calls, Stages
  <2>. QED BY <2>1, <2>2 DEF CallsInStep
<1>. HIDE DEF p
<1>. QED BY <1>1, <1>2, <1>4, BurstClock DEF BurstStage

LEMMA ArKeeps == ASSUME BenchIInv, ArLoop, UNCHANGED <<top, calls>> PROVE BenchIInv'
<1>. DEFINE p == [Port EXCEPT !.arvalid = TRUE, !.araddr = call.addr, !.arlen = call.at - 1]
<1>1. call.stage = "ar" /\ call.at - 1 \in 0 .. Beats - 1
  BY DmaAssumption DEF ArLoop, BenchIInv, CallsInStep
<1>2. p \in PortType
  BY <1>1, PortIsPort DEF PortType, BenchIInv, CallTypeOK, Calls, Stages
<1>3. Clock(p, NoWrite)
  BY DEF ArLoop, Loop
<1>4. \/ call' = [call EXCEPT !.stage = "r", !.spun = call.spin, !.spin = 0]
      \/ call' = [call EXCEPT !.spin = @ + 1]
  BY DEF ArLoop, Loop
<1>5. CallTypeOK' /\ CallsInStep' /\ call.stage' \in {"ar", "r"}
  <2>1. CallTypeOK'
    <3>1. call \in Calls(Seq(Word), Seq(BOOLEAN), Runs \union {<<>>}) /\ seen.bvalid \in BOOLEAN
      BY DEF BenchIInv, CallTypeOK, SeenTypeOK
    <3>2. CASE call' = [call EXCEPT !.stage = "r", !.spun = call.spin, !.spin = 0]
      BY <3>1, <3>2, CallUpdates DEF CallTypeOK, Stages
    <3>3. CASE call' = [call EXCEPT !.spin = @ + 1]
      BY <3>1, <3>3, CallUpdates DEF CallTypeOK
    <3>. QED BY <1>4, <3>2, <3>3
  <2>2. call.stage' \in {"ar", "r"} /\ call.at' = call.at
    BY <1>1, <1>4 DEF BenchIInv, CallTypeOK, Calls, Stages
  <2>. QED BY <1>1, <2>1, <2>2 DEF BenchIInv, CallsInStep
<1>. HIDE DEF p
<1>. QED BY <1>1, <1>2, <1>3, <1>5, BurstClock DEF BurstStage

LEMMA RKeeps == ASSUME BenchIInv, RLoop, UNCHANGED <<top, calls>> PROVE BenchIInv'
<1>. DEFINE p == [Port EXCEPT !.rready = TRUE]
            last_seen == seen.rvalid /\ s_rlast
            out == IF seen.rvalid THEN Append(call.out, s_rdata) ELSE call.out
            stage == IF last_seen \/ call.spin = 10 * SpinLimit THEN "judge" ELSE "r"
<1>1. p \in PortType
  BY PortIsPort DEF PortType
<1>2. Clock(p, NoWrite) /\ call.stage = "r"
  BY DEF RLoop
<1>3. call' = [call EXCEPT !.out = out, !.spin = call.spin + 1, !.ok = last_seen, !.stage = stage]
  BY DEF RLoop
<1>4. out \in Seq(Word) /\ last_seen \in BOOLEAN /\ stage \in {"judge", "r"}
  BY DEF BenchIInv, CallTypeOK, Calls, Stages, SeenTypeOK, RamTypeOK
<1>. HIDE DEF p, last_seen, out, stage
<1>5. CallTypeOK' /\ CallsInStep' /\ call.stage' \in {"judge", "r"}
  <2>1. CallTypeOK'
    BY <1>3, <1>4, CallUpdates DEF BenchIInv, CallTypeOK, Stages, SeenTypeOK
  <2>2. call.stage' \in {"judge", "r"}
    BY <1>3, <1>4 DEF BenchIInv, CallTypeOK, Calls, Stages
  <2>. QED BY <2>1, <2>2 DEF CallsInStep
<1>. QED BY <1>1, <1>2, <1>5, BurstClock DEF BurstStage

LEMMA WritesOfRegisters ==
  /\ \A v \in Key : WriteOK([reg |-> "KEY", value |-> v]) /\ ~do_start([reg |-> "KEY", value |-> v])
  /\ \A v \in Block : WriteOK([reg |-> "IV", value |-> v]) /\ ~do_start([reg |-> "IV", value |-> v])
  /\ \A v \in Index : WriteOK([reg |-> "SRC", value |-> v]) /\ ~do_start([reg |-> "SRC", value |-> v])
  /\ \A v \in Index : WriteOK([reg |-> "DST", value |-> v]) /\ ~do_start([reg |-> "DST", value |-> v])
  /\ \A v \in LenValues :
       WriteOK([reg |-> "LEN", value |-> v]) /\ ~do_start([reg |-> "LEN", value |-> v])
BY DEF WriteOK, do_start

LEMMA RunTypes ==
  ASSUME NEW r \in Runs
  PROVE  /\ r.src \in Index /\ r.dst \in Index /\ r.key \in Key /\ r.iv \in Block
         /\ r.encdec \in BOOLEAN /\ r.mode \in Mode /\ r.len \in 1 .. 2^LenBits
         /\ r.len \in Nat \ {0} /\ 2^LenBits \in Nat \ {0, 1}
<1>. DEFINE m == 2^LenBits
<1>1. m \in Nat \ {0, 1} /\ r.len \in 1 .. m
  BY DmaAssumption, BenchAssumption DEF Runs
<1>. HIDE DEF m
<1>2. r.len \in Nat \ {0}
  BY <1>1
<1>. QED BY <1>1, <1>2, BenchAssumption DEF Runs, m

(* The writes of an operation: six registers, START the last of them.      *)
LEMMA ProgramIs ==
  ASSUME NEW r
  PROVE  /\ Len(Program(r)) = 6
         /\ Program(r)[1] = [reg |-> "KEY", value |-> r.key]
         /\ Program(r)[2] = [reg |-> "IV", value |-> r.iv]
         /\ Program(r)[3] = [reg |-> "SRC", value |-> r.src]
         /\ Program(r)[4] = [reg |-> "DST", value |-> r.dst]
         /\ Program(r)[5] = [reg |-> "LEN", value |-> r.len % 2^LenBits]
         /\ Program(r)[6] = [reg |-> "CTRL", start |-> TRUE, encdec |-> r.encdec, mode |-> r.mode]
<1>. DEFINE n == r.len % 2^LenBits
<1>1. Program(r) =
        << [reg |-> "KEY", value |-> r.key], [reg |-> "IV", value |-> r.iv],
           [reg |-> "SRC", value |-> r.src], [reg |-> "DST", value |-> r.dst],
           [reg |-> "LEN", value |-> n],
           [reg |-> "CTRL", start |-> TRUE, encdec |-> r.encdec, mode |-> r.mode] >>
  BY DEF Program
<1>. HIDE DEF n
<1>2. /\ Len(Program(r)) = 6
      /\ Program(r)[1] = [reg |-> "KEY", value |-> r.key]
      /\ Program(r)[2] = [reg |-> "IV", value |-> r.iv]
      /\ Program(r)[3] = [reg |-> "SRC", value |-> r.src]
      /\ Program(r)[4] = [reg |-> "DST", value |-> r.dst]
      /\ Program(r)[5] = [reg |-> "LEN", value |-> n]
      /\ Program(r)[6] = [reg |-> "CTRL", start |-> TRUE, encdec |-> r.encdec, mode |-> r.mode]
  BY <1>1
<1>. QED BY <1>2 DEF n

LEMMA ProgramIsOK ==
  ASSUME NEW r \in Runs, NEW i \in 1 .. 6
  PROVE  /\ Len(Program(r)) = 6 /\ WriteOK(Program(r)[i])
         /\ i # 6 => ~do_start(Program(r)[i])
<1>1. /\ r.src \in Index /\ r.dst \in Index /\ r.key \in Key /\ r.iv \in Block
      /\ r.encdec \in BOOLEAN /\ r.mode \in Mode
  BY RunTypes
<1>2. r.len % 2^LenBits \in LenValues
  <2>. DEFINE m == 2^LenBits
  <2>1. m \in Nat \ {0} /\ r.len \in Nat
    BY RunTypes
  <2>. HIDE DEF m
  <2>2. r.len % m \in 0 .. m - 1
    BY <2>1
  <2>. QED BY <2>2 DEF m, LenValues
<1>. DEFINE n == r.len % 2^LenBits
<1>3. i = 1 \/ i = 2 \/ i = 3 \/ i = 4 \/ i = 5 \/ i = 6
  OBVIOUS
<1>4. n \in LenValues
  BY <1>2
<1>5. /\ Len(Program(r)) = 6
      /\ Program(r)[1] = [reg |-> "KEY", value |-> r.key]
      /\ Program(r)[2] = [reg |-> "IV", value |-> r.iv]
      /\ Program(r)[3] = [reg |-> "SRC", value |-> r.src]
      /\ Program(r)[4] = [reg |-> "DST", value |-> r.dst]
      /\ Program(r)[5] = [reg |-> "LEN", value |-> n]
      /\ Program(r)[6] = [reg |-> "CTRL", start |-> TRUE, encdec |-> r.encdec, mode |-> r.mode]
  BY ProgramIs
<1>. HIDE DEF n
<1>6. /\ WriteOK(Program(r)[1]) /\ WriteOK(Program(r)[2]) /\ WriteOK(Program(r)[3])
      /\ WriteOK(Program(r)[4]) /\ WriteOK(Program(r)[5])
      /\ ~do_start(Program(r)[1]) /\ ~do_start(Program(r)[2]) /\ ~do_start(Program(r)[3])
      /\ ~do_start(Program(r)[4]) /\ ~do_start(Program(r)[5])
  BY <1>1, <1>4, <1>5, WritesOfRegisters
<1>7. WriteOK(Program(r)[6])
  BY <1>1, <1>5 DEF WriteOK
<1>. QED BY <1>3, <1>5, <1>6, <1>7

LEMMA ConfigureKeeps == ASSUME BenchIInv, Configure, UNCHANGED <<top, calls>> PROVE BenchIInv'
<1>. DEFINE w == Program(call.arg)[call.at]
            stage == IF call.at = 6 THEN "poll" ELSE "config"
<1>1. /\ call.stage = "config" /\ call.arg \in Runs /\ call.at \in 1 .. 6
      /\ Clock(Port, w) /\ state = "IDLE" /\ disturbances = 0 /\ starts = 0 /\ ~status_done
      /\ calls > 1 /\ calls \in Nat /\ top # "dma_ram"
  BY DEF Configure, BenchIInv, CallsInStep, EngineRests
<1>2. Len(Program(call.arg)) = 6 /\ WriteOK(w) /\ (call.at # 6 => ~do_start(w))
  BY <1>1, ProgramIsOK
<1>3. call' = [call EXCEPT !.at = @ + 1, !.stage = stage]
  BY <1>1, <1>2 DEF Configure
<1>. HIDE DEF w
<1>4. UnitInv' /\ RamTypeOK(Beats)' /\ SeenTypeOK'
  BY <1>1, <1>2, PortIsPort, ClockKeeps DEF BenchIInv
<1>5. CallTypeOK'
  BY <1>3, CallUpdates DEF BenchIInv, CallTypeOK, Stages
<1>6. call.stage' = stage /\ call.arg' = call.arg /\ call.at' = call.at + 1
  BY <1>3 DEF BenchIInv, CallTypeOK, Calls
<1>7. CallsInStep'
  BY <1>1, <1>6 DEF CallsInStep
<1>8. cleared' \in BOOLEAN /\ disturbances' = 0 /\ starts' = IF do_start(w) THEN 1 ELSE 0
  BY <1>1 DEF Clock, RegisterEdge, BenchIInv, BoundsOK, UnitInv, BusyIsWorking
<1>9. ~status_done'
  BY <1>1 DEF Clock, StatusDone
<1>10. ~do_start(w) => state' = "IDLE"
  BY <1>1 DEF Clock, EngineEdge, Idle, RdAddr, RdData, AesGo, AesWait, WrAddr, WrData, WrResp, Done
<1>11. EngineRests'
  <2>1. CASE call.at = 6
    BY <1>1, <1>6, <1>8, <1>9, <2>1 DEF EngineRests
  <2>2. CASE call.at # 6
    BY <1>1, <1>2, <1>6, <1>8, <1>9, <1>10, <2>2 DEF EngineRests
  <2>. QED BY <2>1, <2>2
<1>12. BoundsOK'
  BY <1>8, DmaAssumption, BenchAssumption DEF BoundsOK
<1>. QED BY <1>4, <1>5, <1>7, <1>11, <1>12 DEF BenchIInv

LEMMA PollKeeps == ASSUME BenchIInv, Poll, UNCHANGED <<top, calls>> PROVE BenchIInv'
<1>. DEFINE stage == IF status_done THEN "clear" ELSE "poll"
<1>1. /\ call.stage = "poll" /\ Clock(Port, NoWrite) /\ disturbances = 0 /\ calls > 1
      /\ top # "dma_ram" /\ (status_done => state = "IDLE") /\ calls \in Nat
  BY DEF Poll, BenchIInv, CallsInStep, EngineRests
<1>2. call' = [call EXCEPT !.stage = stage]
  BY DEF Poll
<1>3. UnitInv' /\ RamTypeOK(Beats)' /\ SeenTypeOK'
  BY <1>1, PortIsPort, NoWriteIsOK, ClockKeeps DEF BenchIInv
<1>4. CallTypeOK'
  BY <1>2, CallUpdates DEF BenchIInv, CallTypeOK, Stages
<1>5. call.stage' = stage
  BY <1>2 DEF BenchIInv, CallTypeOK, Calls
<1>6. /\ BoundsOK' /\ disturbances' = 0 /\ (status_done' => state' = "IDLE")
      /\ state = "IDLE" => state' = "IDLE"
  BY <1>1, ClockRests, NoWriteIsOK DEF BenchIInv, NoWrite
<1>7. CallsInStep' /\ EngineRests'
  BY <1>1, <1>5, <1>6 DEF CallsInStep, EngineRests
<1>. QED BY <1>1, <1>3, <1>4, <1>6, <1>7 DEF BenchIInv

LEMMA ClearKeeps == ASSUME BenchIInv, Clear, UNCHANGED <<top, calls>> PROVE BenchIInv'
<1>. DEFINE w == [reg |-> "DONE"]
<1>1. /\ call.stage = "clear" /\ Clock(Port, w) /\ disturbances = 0 /\ calls > 1
      /\ top # "dma_ram" /\ state = "IDLE" /\ calls \in Nat
  BY DEF Clear, BenchIInv, CallsInStep, EngineRests
<1>2. call' = [call EXCEPT !.stage = "judge", !.ok = TRUE]
  BY DEF Clear
<1>3. WriteOK(w) /\ ~do_start(w)
  BY DEF WriteOK, do_start
<1>. HIDE DEF w
<1>4. UnitInv' /\ RamTypeOK(Beats)' /\ SeenTypeOK'
  BY <1>1, <1>3, PortIsPort, ClockKeeps DEF BenchIInv
<1>5. CallTypeOK'
  BY <1>2, CallUpdates DEF BenchIInv, CallTypeOK, Stages
<1>6. call.stage' = "judge"
  BY <1>2 DEF BenchIInv, CallTypeOK, Calls
<1>7. BoundsOK' /\ disturbances' = 0 /\ state' = "IDLE"
  BY <1>1, <1>3, ClockRests DEF BenchIInv
<1>8. CallsInStep' /\ EngineRests'
  BY <1>1, <1>6, <1>7 DEF CallsInStep, EngineRests
<1>. QED BY <1>1, <1>4, <1>5, <1>7, <1>8 DEF BenchIInv

(* The next call finds the engine at rest.                                 *)
LEMMA CallKeeps ==
  ASSUME BenchIInv, NEW c \in Calls(Seq(Word), Seq(BOOLEAN), Runs \union {<<>>}), Begin_(c),
         \/ c.stage = "aw" /\ c.at \in 1 .. Len(c.words)
         \/ c.stage = "ar" /\ c.at \in 1 .. Beats
         \/ c.stage = "config" /\ c.arg \in Runs /\ c.at = 1 /\ calls = 1 /\ top # "dma_ram"
  PROVE  BenchIInv'
<1>1. /\ call.stage = "judge" /\ calls' = calls + 1 /\ call' = c /\ calls \in Nat
      /\ state = "IDLE" /\ disturbances = 0 /\ (calls <= 1 \/ top = "dma_ram" => starts = 0 /\ ~status_done)
  BY DEF Begin_, BenchIInv, EngineRests
<1>2. UNCHANGED <<vars, top, seen>>
  BY DEF Begin_
<1>3. /\ UnitInv' /\ BoundsOK' /\ RamTypeOK(Beats)' /\ SeenTypeOK'
  <2>. USE <1>2 DEF vars, chainVars, blockVars, ramVars, regVars, axiVars, fsmVars
  <2>1. ChainOK' /\ RegTypeOK' /\ FsmTypeOK'
    BY DEF BenchIInv, UnitInv, ChainOK, ChainTypeOK, BlockTypeOK, BlockOK, InProgress,
           ResultIsThere, chain_busy, RegTypeOK, FsmTypeOK
  <2>2. Phases' /\ BusyIsWorking' /\ DoneIsShown'
    BY DEF BenchIInv, UnitInv, Phases, BusyIsWorking, DoneIsShown, chain_busy
  <2>3. BoundsOK' /\ RamTypeOK(Beats)' /\ SeenTypeOK'
    BY DEF BenchIInv, BoundsOK, RamTypeOK, SeenTypeOK
  <2>. QED BY <2>1, <2>2, <2>3 DEF UnitInv
<1>4. CallTypeOK'
  BY <1>1 DEF CallTypeOK
<1>5. UNCHANGED <<state, disturbances, starts, status_done, top>>
  BY <1>2 DEF vars, fsmVars
<1>6. CallsInStep' /\ EngineRests'
  BY <1>1, <1>5 DEF CallsInStep, EngineRests
<1>. QED BY <1>1, <1>3, <1>4, <1>6 DEF BenchIInv

WriteCall(a, ws, bs) ==
  [NoCall EXCEPT !.stage = "aw", !.op = "write", !.addr = a, !.words = ws, !.strobes = bs]
ReadCall(a, n) == [NoCall EXCEPT !.stage = "ar", !.op = "read", !.addr = a, !.at = n]
RunCall(r)     == [NoCall EXCEPT !.stage = "config", !.op = "run", !.arg = r]

LEMMA NewCallTypes ==
  ASSUME NEW W, NEW B, NEW R, <<>> \in W, <<>> \in B, <<>> \in R
  PROVE  /\ \A a \in Index, ws \in W, bs \in B : WriteCall(a, ws, bs) \in Calls(W, B, R)
         /\ \A a \in Index, n \in Nat : ReadCall(a, n) \in Calls(W, B, R)
         /\ \A r \in R : RunCall(r) \in Calls(W, B, R)
<1>. DEFINE empty == <<>>
<1>1. empty \in W /\ empty \in B /\ empty \in R /\ 0 \in Index
  BY RamAssumption DEF Index
<1>2. NoCall = [stage |-> "judge", op |-> "none", addr |-> 0, words |-> empty,
                strobes |-> empty, arg |-> empty, at |-> 1, spin |-> 0, spun |-> 0,
                out |-> empty, ok |-> TRUE]
  BY DEF NoCall
<1>. HIDE DEF empty
<1>3. ASSUME NEW a \in Index, NEW ws \in W, NEW bs \in B PROVE WriteCall(a, ws, bs) \in Calls(W, B, R)
  BY <1>1, <1>2 DEF WriteCall, Calls, Stages
<1>4. ASSUME NEW a \in Index, NEW n \in Nat PROVE ReadCall(a, n) \in Calls(W, B, R)
  BY <1>1, <1>2 DEF ReadCall, Calls, Stages
<1>5. ASSUME NEW r \in R PROVE RunCall(r) \in Calls(W, B, R)
  BY <1>1, <1>2 DEF RunCall, Calls, Stages
<1>. QED BY <1>3, <1>4, <1>5

LEMMA NewCallFields ==
  /\ \A a, ws, bs : /\ WriteCall(a, ws, bs).stage = "aw" /\ WriteCall(a, ws, bs).at = 1
                    /\ WriteCall(a, ws, bs).words = ws
  /\ \A a, n : ReadCall(a, n).stage = "ar" /\ ReadCall(a, n).at = n
  /\ \A r : RunCall(r).stage = "config" /\ RunCall(r).at = 1 /\ RunCall(r).arg = r
BY DEF WriteCall, ReadCall, RunCall, NoCall

LEMMA NewCalls ==
  /\ \A a \in Index, ws \in Seq(Word), bs \in Seq(BOOLEAN) :
       WriteCall(a, ws, bs) \in Calls(Seq(Word), Seq(BOOLEAN), Runs \union {<<>>})
  /\ \A a \in Index, n \in Nat :
       ReadCall(a, n) \in Calls(Seq(Word), Seq(BOOLEAN), Runs \union {<<>>})
  /\ \A r \in Runs : RunCall(r) \in Calls(Seq(Word), Seq(BOOLEAN), Runs \union {<<>>})
<1>1. <<>> \in Seq(Word) /\ <<>> \in Seq(BOOLEAN) /\ <<>> \in Runs \union {<<>>}
  OBVIOUS
<1>2. \A r \in Runs : r \in Runs \union {<<>>}
  OBVIOUS
<1>. QED BY <1>1, <1>2, NewCallTypes

LEMMA MemoryCallKeeps == ASSUME BenchIInv, MemoryCall PROVE BenchIInv'
<1>1. PICK a \in Index, n \in 1 .. Beats :
       \/ \E ws \in [1 .. n -> Word], bs \in [1 .. n -> BOOLEAN] : Begin_(WriteCall(a, ws, bs))
       \/ Begin_(ReadCall(a, n))
  BY DEF MemoryCall, WriteCall, ReadCall
<1>2. n \in Nat /\ n >= 1
  BY DmaAssumption
<1>3. CASE Begin_(ReadCall(a, n))
  <2>. DEFINE c == ReadCall(a, n)
  <2>1. c \in Calls(Seq(Word), Seq(BOOLEAN), Runs \union {<<>>}) /\ c.stage = "ar" /\ c.at = n
    BY <1>2, NewCalls, NewCallFields
  <2>2. Begin_(c)
    BY <1>3
  <2>. HIDE DEF c
  <2>. QED BY <2>1, <2>2, CallKeeps
<1>4. ASSUME NEW ws \in [1 .. n -> Word], NEW bs \in [1 .. n -> BOOLEAN],
             Begin_(WriteCall(a, ws, bs))
      PROVE  BenchIInv'
  <2>1. ws \in Seq(Word) /\ bs \in Seq(BOOLEAN) /\ Len(ws) = n
    BY <1>2
  <2>2. 1 \in 1 .. Len(ws)
    BY <1>2, <2>1
  <2>. DEFINE c == WriteCall(a, ws, bs)
  <2>3. /\ c \in Calls(Seq(Word), Seq(BOOLEAN), Runs \union {<<>>})
        /\ c.stage = "aw" /\ c.at = 1 /\ c.words = ws
    <3>1. c \in Calls(Seq(Word), Seq(BOOLEAN), Runs \union {<<>>})
      BY <2>1, NewCalls, Zenon
    <3>. QED BY <3>1, NewCallFields
  <2>4. Begin_(c)
    BY <1>4
  <2>. HIDE DEF c
  <2>. QED BY <2>2, <2>3, <2>4, CallKeeps
<1>. QED BY <1>1, <1>3, <1>4

LEMMA EngineCallKeeps == ASSUME BenchIInv, EngineCall PROVE BenchIInv'
<1>1. Beats \in Nat /\ Beats \in 1 .. Beats
  BY DmaAssumption
<1>2. top # "dma_ram"
  BY DEF EngineCall
<1>3. ASSUME NEW a \in RunSrc, NEW b \in Block,
             Begin_(WriteCall(a, b, [i \in 1 .. Beats |-> TRUE]))
      PROVE  BenchIInv'
  <2>. DEFINE bs == [i \in 1 .. Beats |-> TRUE]
  <2>1. b \in Seq(Word) /\ Len(b) = Beats
    BY BlockIsSeq
  <2>2. 1 \in 1 .. Len(b) /\ bs \in Seq(BOOLEAN) /\ a \in Index
    BY <1>1, <2>1, BenchAssumption
  <2>. DEFINE c == WriteCall(a, b, bs)
  <2>3. Begin_(c)
    BY <1>3
  <2>. HIDE DEF bs
  <2>4. /\ c \in Calls(Seq(Word), Seq(BOOLEAN), Runs \union {<<>>})
        /\ c.stage = "aw" /\ c.at = 1 /\ c.words = b
    <3>1. c \in Calls(Seq(Word), Seq(BOOLEAN), Runs \union {<<>>})
      BY <2>1, <2>2, NewCalls, Zenon
    <3>. QED BY <3>1, NewCallFields
  <2>. HIDE DEF c
  <2>. QED BY <2>2, <2>3, <2>4, CallKeeps
<1>4. ASSUME calls = 1, NEW r \in Runs, Begin_(RunCall(r)) PROVE BenchIInv'
  <2>. DEFINE c == RunCall(r)
  <2>1. /\ c \in Calls(Seq(Word), Seq(BOOLEAN), Runs \union {<<>>})
        /\ c.stage = "config" /\ c.at = 1 /\ c.arg = r
    BY NewCalls, NewCallFields
  <2>2. Begin_(c)
    BY <1>4
  <2>. HIDE DEF c
  <2>. QED BY <1>2, <1>4, <2>1, <2>2, CallKeeps
<1>5. ASSUME NEW a \in RunDst, Begin_(ReadCall(a, Beats)) PROVE BenchIInv'
  <2>1. a \in Index
    BY BenchAssumption
  <2>. DEFINE c == ReadCall(a, Beats)
  <2>2. c \in Calls(Seq(Word), Seq(BOOLEAN), Runs \union {<<>>}) /\ c.stage = "ar" /\ c.at = Beats
    BY <1>1, <2>1, NewCalls, NewCallFields
  <2>3. Begin_(c)
    BY <1>5
  <2>. HIDE DEF c
  <2>. QED BY <1>1, <2>2, <2>3, CallKeeps
<1>6. \/ \E a \in RunSrc, b \in Block : Begin_(WriteCall(a, b, [i \in 1 .. Beats |-> TRUE]))
      \/ calls = 1 /\ \E r \in Runs : Begin_(RunCall(r))
      \/ \E a \in RunDst : Begin_(ReadCall(a, Beats))
  BY Zenon DEF EngineCall, Runs, WriteCall, ReadCall, RunCall
<1>. QED BY <1>3, <1>4, <1>5, <1>6

LEMMA BenchRests ==
  ASSUME BenchIInv, UNCHANGED <<vars, top, seen, call, calls, expects>> PROVE BenchIInv'
<1>. USE DEF vars, chainVars, blockVars, ramVars, regVars, axiVars, fsmVars
<1>1. ChainOK' /\ RegTypeOK' /\ FsmTypeOK'
  BY DEF BenchIInv, UnitInv, ChainOK, ChainTypeOK, BlockTypeOK, BlockOK, InProgress,
         ResultIsThere, chain_busy, RegTypeOK, FsmTypeOK
<1>2. Phases' /\ BusyIsWorking' /\ DoneIsShown'
  BY DEF BenchIInv, UnitInv, Phases, BusyIsWorking, DoneIsShown, chain_busy
<1>3. BoundsOK' /\ RamTypeOK(Beats)' /\ SeenTypeOK' /\ calls' \in Nat
  BY DEF BenchIInv, BoundsOK, RamTypeOK, SeenTypeOK
<1>4. CallTypeOK' /\ CallsInStep' /\ EngineRests'
  BY DEF BenchIInv, CallTypeOK, CallsInStep, EngineRests
<1>. QED BY <1>1, <1>2, <1>3, <1>4 DEF BenchIInv, UnitInv

LEMMA BenchKeeps == ASSUME BenchIInv, BenchNext PROVE BenchIInv'
<1>1. CASE MemoryCall
  BY <1>1, MemoryCallKeeps
<1>2. CASE EngineCall
  BY <1>2, EngineCallKeeps
<1>3. CASE InCall
  BY <1>3, AwKeeps, WKeeps, BKeeps, ArKeeps, RKeeps, ConfigureKeeps, PollKeeps, ClearKeeps
  DEF InCall
<1>4. CASE Return
  BY <1>4, BenchRests DEF Return
<1>. QED BY <1>1, <1>2, <1>3, <1>4 DEF BenchNext

LEMMA EngineStops == ASSUME EngineIInv, UNCHANGED vars PROVE EngineIInv'
<1>. USE DEF vars, chainVars, blockVars, ramVars, regVars, axiVars, fsmVars
<1>1. ChainOK' /\ RegTypeOK' /\ FsmTypeOK'
  BY DEF EngineIInv, PortInv, UnitInv, ChainOK, ChainTypeOK, BlockTypeOK, BlockOK, InProgress,
         ResultIsThere, chain_busy, RegTypeOK, FsmTypeOK
<1>2. Phases' /\ BusyIsWorking' /\ DoneIsShown'
  BY DEF EngineIInv, PortInv, UnitInv, Phases, BusyIsWorking, DoneIsShown, chain_busy
<1>3. BoundsOK' /\ RamTypeOK(Beats)' /\ WriteStep' /\ ReadStep' /\ AnswerIsOwn'
  BY DEF EngineIInv, PortInv, BoundsOK, RamTypeOK, WriteStep, ReadStep,
         AnswerIsOwn
<1>. QED BY <1>1, <1>2, <1>3 DEF EngineIInv, PortInv, UnitInv

-----------------------------------------------------------------------------
(* With the memory to itself, under any register writes of the software:   *)
(* the registers, the engine, its chain and its memory agree on where the  *)
(* copy is (dma_engine.v:204-343).                                         *)
THEOREM EngineAgrees == Spec => []EngineInv
<1>1. ASSUME EngineIInv, [Next]_vars PROVE EngineIInv'
  BY <1>1, EngineKeeps, EngineStops DEF Next
<1>. QED BY InitEngine, <1>1, EngineIInvImplies, PTL DEF Spec

(* The same on the system the run checks: software that does as it likes,  *)
(* or one of the benches.                                                  *)
MCIInv ==
  /\ half \in {"engine", "bench"}
  /\ half = "engine" => EngineIInv
  /\ half = "bench" => BenchIInv

LEMMA MCInitOK == MCInit => MCIInv
BY InitEngine, InitBench DEF MCInit, MCIInv

LEMMA MCKeeps == ASSUME MCIInv, [MCNext]_MCVars PROVE MCIInv'
<1>1. CASE EngineStep
  BY <1>1, EngineKeeps DEF EngineStep, Next, MCIInv
<1>2. CASE BenchStep
  BY <1>2, BenchKeeps DEF BenchStep, MCIInv
<1>3. CASE UNCHANGED MCVars
  BY <1>3, EngineStops, BenchRests DEF MCVars, benchVars, MCIInv
<1>. QED BY <1>1, <1>2, <1>3 DEF MCNext

(* The registers, the engine, its chain and its memory agree on where the  *)
(* copy is; with a bench on the memory, BUSY, START and DONE still mean    *)
(* what they say (dma_engine.v:204-343, dma_ram_model.v).                  *)
THEOREM EngineAndMemoryAgree == MCSpec => []AgreeInv
<1>1. MCIInv => AgreeInv
  BY EngineIInvImplies, StartsAreTaken, TypeOKParts DEF MCIInv, AgreeInv, BenchIInv, UnitInv, ChainOK
<1>. QED BY MCInitOK, MCKeeps, <1>1, PTL DEF MCSpec

-----------------------------------------------------------------------------
(* The engine is DmaCopy: filling the memory word by word. *)

(* A set of places of a block that is not empty has a last one.            *)
LEMMA LastExists ==
  ASSUME NEW len \in Nat, NEW at, at \subseteq 1 .. len, at # {}
  PROVE  \E i \in at : \A j \in at : j <= i
<1>. DEFINE T == {len - i : i \in at}
            R == OpToRel(<, Nat)
<1>1. T \subseteq Nat /\ T # {}
  <2>1. T \subseteq Nat
    OBVIOUS
  <2>2. PICK i \in at : TRUE
    OBVIOUS
  <2>3. len - i \in T
    OBVIOUS
  <2>. QED BY <2>1, <2>3
<1>2. IsWellFoundedOn(R, Nat)
  BY NatLessThanWellFounded
<1>. HIDE DEF T, R
<1>3. PICK x \in T : \A y \in T : <<y, x>> \notin R
  BY <1>1, <1>2, WFMin
<1>4. \A y \in Nat, z \in Nat : <<y, z>> \in R <=> y < z
  BY DEF R, OpToRel
<1>5. PICK i \in at : x = len - i
  BY DEF T
<1>6. \A j \in at : j <= i
  <2>. SUFFICES ASSUME NEW j \in at PROVE j <= i
    OBVIOUS
  <2>1. len - j \in T
    BY DEF T
  <2>2. ~(len - j < len - i)
    BY <1>1, <1>3, <1>4, <1>5, <2>1
  <2>. QED BY <2>2
<1>. QED BY <1>6

LEMMA LastIsUnique ==
  ASSUME NEW len \in Nat, NEW at, at \subseteq 1 .. len, NEW i \in at, \A j \in at : j <= i
  PROVE  (CHOOSE k \in at : \A j \in at : j <= k) = i
<1>. DEFINE c == CHOOSE k \in at : \A j \in at : j <= k
<1>1. c \in at /\ \A j \in at : j <= c
  OBVIOUS
<1>. HIDE DEF c
<1>2. c = i
  BY <1>1
<1>. QED BY <1>2 DEF c

(* The memory m with the words f[1] .. f[len] put from word base on: a     *)
(* later word wins over an earlier one where they wrap onto each other.    *)
Places(len, base, n) == {i \in 1 .. len : WordIdx(base + i - 1) = n}
Fill(m, f, len, base) ==
  [n \in Index |->
     IF Places(len, base, n) = {} THEN m[n]
     ELSE f[CHOOSE i \in Places(len, base, n) : \A j \in Places(len, base, n) : j <= i]]

LEMMA FillNothing ==
  ASSUME NEW m \in [Index -> Word], NEW f, NEW base PROVE Fill(m, f, 0, base) = m
BY DEF Fill, Places

(* Writing the first word leaves the others to be put one word further on. *)
Follows(g, f, n)       == \A i \in 1 .. n : g[i] = f[i + 1]
Updated(m1, m, n, new) == m1 = [m EXCEPT ![n] = new]

LEMMA FillShift ==
  ASSUME NEW m \in [Index -> Word], NEW len \in Nat \ {0}, NEW base \in Nat, NEW f, NEW g,
         NEW m1, Follows(g, f, len - 1), Updated(m1, m, WordIdx(base), f[1])
  PROVE  Fill(m1, g, len - 1, base + 1) = Fill(m, f, len, base)
<1>. USE DEF Follows, Updated
<1>. SUFFICES ASSUME NEW n \in Index
              PROVE  Fill(m1, g, len - 1, base + 1)[n] = Fill(m, f, len, base)[n]
  BY DEF Fill
<1>. DEFINE at == Places(len, base, n)
            bt == Places(len - 1, base + 1, n)
<1>1. Fill(m, f, len, base)[n] =
        IF at = {} THEN m[n] ELSE f[CHOOSE i \in at : \A j \in at : j <= i]
  BY DEF Fill
<1>2. Fill(m1, g, len - 1, base + 1)[n] =
        IF bt = {} THEN m1[n] ELSE g[CHOOSE i \in bt : \A j \in bt : j <= i]
  BY DEF Fill
<1>3. at \subseteq 1 .. len /\ bt \subseteq 1 .. len - 1 /\ len - 1 \in Nat
  BY DEF Places
<1>4. \A i \in 1 .. len - 1 : i \in bt <=> i + 1 \in at
  <2>. SUFFICES ASSUME NEW i \in 1 .. len - 1 PROVE i \in bt <=> i + 1 \in at
    OBVIOUS
  <2>1. base + 1 + i - 1 = base + (i + 1) - 1 /\ i + 1 \in 1 .. len
    OBVIOUS
  <2>. QED BY <2>1 DEF Places
<1>5. 1 \in at <=> n = WordIdx(base)
  <2>1. base + 1 - 1 = base /\ 1 \in 1 .. len
    OBVIOUS
  <2>. QED BY <2>1 DEF Places
<1>6. m1[n] = IF 1 \in at THEN f[1] ELSE m[n]
  BY <1>5
<1>. HIDE DEF at, bt
<1>7. CASE bt # {}
  <2>1. PICK i \in bt : \A j \in bt : j <= i
    BY <1>3, <1>7, LastExists
  <2>2. i + 1 \in at /\ \A j \in at : j <= i + 1
    <3>1. i \in 1 .. len - 1 /\ i + 1 \in at
      BY <1>3, <1>4, <2>1
    <3>2. ASSUME NEW j \in at PROVE j <= i + 1
      <4>1. j = 1 \/ (j - 1 \in 1 .. len - 1 /\ (j - 1) + 1 = j)
        BY <1>3
      <4>2. j # 1 => j - 1 \in bt
        BY <1>4, <4>1
      <4>. QED BY <1>3, <2>1, <3>1, <4>1, <4>2
    <3>. QED BY <3>1, <3>2
  <2>3. (CHOOSE k \in bt : \A j \in bt : j <= k) = i
    BY <1>3, <2>1, LastIsUnique
  <2>4. (CHOOSE k \in at : \A j \in at : j <= k) = i + 1
    BY <1>3, <2>2, LastIsUnique
  <2>5. g[i] = f[i + 1]
    BY <1>3, <2>1
  <2>. QED BY <1>1, <1>2, <1>7, <2>2, <2>3, <2>4, <2>5
<1>8. CASE bt = {} /\ 1 \in at
  <2>1. \A j \in at : j <= 1
    <3>1. ASSUME NEW j \in at PROVE j <= 1
      <4>1. j <= 1 \/ (j - 1 \in 1 .. len - 1 /\ (j - 1) + 1 = j)
        BY <1>3
      <4>. QED BY <1>4, <1>8, <4>1
    <3>. QED BY <3>1
  <2>2. (CHOOSE k \in at : \A j \in at : j <= k) = 1
    BY <1>3, <1>8, <2>1, LastIsUnique
  <2>. QED BY <1>1, <1>2, <1>6, <1>8, <2>2
<1>9. CASE bt = {} /\ 1 \notin at
  <2>1. at = {}
    <3>1. ASSUME NEW j \in at PROVE FALSE
      <4>1. j = 1 \/ (j - 1 \in 1 .. len - 1 /\ (j - 1) + 1 = j)
        BY <1>3
      <4>. QED BY <1>4, <1>9, <4>1
    <3>. QED BY <3>1
  <2>. QED BY <1>1, <1>2, <1>6, <1>9, <2>1
<1>. QED BY <1>7, <1>8, <1>9

(* What DmaCopy stores is such a filling.                                  *)
Stored(m, f, base) ==
  [n \in Index |->
     IF \E i \in 1 .. Beats : WordIdx(base + i - 1) = n
     THEN f[CHOOSE i \in 1 .. Beats :
              /\ WordIdx(base + i - 1) = n
              /\ \A j \in 1 .. Beats : WordIdx(base + j - 1) = n => j <= i]
     ELSE m[n]]

LEMMA StoreFills ==
  ASSUME NEW m \in [Index -> Word], NEW f, NEW base \in Nat
  PROVE  Fill(m, f, Beats, base) = Stored(m, f, base)
<1>. SUFFICES ASSUME NEW n \in Index
     PROVE Fill(m, f, Beats, base)[n] =
              IF \E i \in 1 .. Beats : WordIdx(base + i - 1) = n
              THEN f[CHOOSE i \in 1 .. Beats :
                       /\ WordIdx(base + i - 1) = n
                       /\ \A j \in 1 .. Beats : WordIdx(base + j - 1) = n => j <= i]
              ELSE m[n]
  BY DEF Fill, Stored
<1>. DEFINE at == Places(Beats, base, n)
            last(i) == /\ WordIdx(base + i - 1) = n
                       /\ \A j \in 1 .. Beats : WordIdx(base + j - 1) = n => j <= i
<1>1. \A i \in 1 .. Beats : i \in at <=> WordIdx(base + i - 1) = n
  BY DEF Places
<1>2. at \subseteq 1 .. Beats /\ Beats \in Nat
  BY DmaAssumption DEF Places
<1>3. Fill(m, f, Beats, base)[n] =
        IF at = {} THEN m[n] ELSE f[CHOOSE i \in at : \A j \in at : j <= i]
  BY DEF Fill
<1>. HIDE DEF at
<1>4. CASE at = {}
  BY <1>1, <1>3, <1>4
<1>5. CASE at # {}
  <2>1. PICK i \in at : \A j \in at : j <= i
    BY <1>2, <1>5, LastExists
  <2>2. (CHOOSE k \in at : \A j \in at : j <= k) = i
    BY <1>2, <2>1, LastIsUnique
  <2>. DEFINE c == CHOOSE k \in 1 .. Beats : last(k)
  <2>3. i \in 1 .. Beats /\ last(i)
    BY <1>1, <1>2, <2>1
  <2>4. c \in 1 .. Beats /\ last(c)
    BY <2>3
  <2>. HIDE DEF c
  <2>5. c = i
    BY <2>3, <2>4
  <2>. QED BY <1>1, <1>2, <1>3, <1>5, <2>1, <2>2, <2>5 DEF c
<1>. QED BY <1>4, <1>5

-----------------------------------------------------------------------------
(* The read burst collects the source block. *)

(* What the read burst has delivered so far: the words of the source block *)
(* taken by the engine are the first Got words from cur_src on.            *)
Got == IF r_state = "IDLE" THEN Beats - 1
       ELSE IF s_rvalid THEN Beats - 2 - r_beats_left ELSE 0

SourceRead ==
  /\ state = "RD_DATA" =>
       /\ r_state = "BURST" =>
            /\ r_word_idx = WordIdx(cur_src + (Beats - 1 - r_beats_left))
            /\ s_rvalid <=> r_beats_left < Beats - 1
       /\ s_rvalid => s_rdata = mem[WordIdx(cur_src + Got)]
       /\ \A i \in 1 .. Got : rd_block[Beats - Got + i] = mem[WordIdx(cur_src + i - 1)]
  /\ state = "AES_GO" => rd_block = [i \in 1 .. Beats |-> mem[WordIdx(cur_src + i - 1)]]

(* Outside a write burst the memory keeps its words.                       *)
LEMMA MemoryRests ==
  ASSUME RamTypeOK(Beats), WriteStep, PortEdge, state # "WR_DATA"
  PROVE  mem' = mem
BY DEF RamTypeOK, WriteStep, PortEdge, RamEdge, WIdleEdge, WBurstEdge

LEMMA SourceReadKept ==
  ASSUME PortInv, SourceRead, NEW w, EngineEdge(w), PortEdge
  PROVE  SourceRead'
<1>. USE DEF Pulses, axiVars
<1>1. /\ r_state \in {"IDLE", "BURST"} /\ s_rvalid \in BOOLEAN /\ s_rlast \in BOOLEAN
      /\ s_rdata \in Word /\ r_beats_left \in 0 .. Beats - 1 /\ rd_block \in Block
      /\ cur_src \in Index /\ cur_src \in Nat /\ mem \in [Index -> Word]
      /\ Beats \in Nat \ {0} /\ WriteStep /\ ReadStep /\ RamTypeOK(Beats)
      /\ state \in EngineStates
  BY IndexIsNat, DmaAssumption DEF PortInv, UnitInv, RamTypeOK, FsmTypeOK
<1>2. CASE state = "RD_ADDR"
  <2>1. RdAddr /\ RIdleEdge(m_arvalid, m_araddr, Beats - 1) /\ mem' = mem
    BY <1>1, <1>2, MemoryRests
    DEF ReadStep, EngineEdge, Idle, RdData, AesGo, AesWait, WrAddr, WrData, WrResp, Done,
        PortEdge, RamEdge, RBurstEdge
  <2>2. CASE state' = "RD_DATA"
    <3>1. /\ r_state' = "BURST" /\ r_word_idx' = WordIdx(cur_src) /\ r_beats_left' = Beats - 1
          /\ ~s_rvalid' /\ cur_src' = cur_src
      BY <1>1, <1>2, <2>1, <2>2 DEF RdAddr, RIdleEdge, ReadStep
    <3>2. Got' = 0
      BY <3>1 DEF Got
    <3>3. cur_src' + (Beats - 1 - r_beats_left') = cur_src /\ ~(r_beats_left' < Beats - 1)
      BY <1>1, <3>1
    <3>4. r_word_idx' = WordIdx(cur_src' + (Beats - 1 - r_beats_left'))
      BY <3>1, <3>3
    <3>. QED BY <1>2, <2>2, <3>1, <3>2, <3>3, <3>4 DEF SourceRead
  <2>3. CASE state' # "RD_DATA"
    BY <1>2, <2>1, <2>3 DEF RdAddr, SourceRead
  <2>. QED BY <2>2, <2>3
<1>3. CASE state = "RD_DATA" /\ r_state = "BURST"
  <2>1. RdData /\ RBurstEdge(m_rready) /\ mem' = mem /\ m_rready /\ (s_rvalid => ~s_rlast)
    BY <1>1, <1>3, MemoryRests
    DEF ReadStep, EngineEdge, Idle, RdAddr, AesGo, AesWait, WrAddr, WrData, WrResp, Done,
        PortEdge, RamEdge, RIdleEdge
  <2>2. /\ s_rdata' = mem[r_word_idx] /\ s_rvalid' /\ state' = "RD_DATA" /\ cur_src' = cur_src
        /\ r_state' = IF r_beats_left = 0 THEN "IDLE" ELSE "BURST"
        /\ rd_block' = IF s_rvalid THEN ShiftIn(rd_block, s_rdata) ELSE rd_block
    BY <1>1, <1>3, <2>1 DEF RdData, RBurstEdge
  <2>. DEFINE issued == Beats - 1 - r_beats_left
  <2>3. /\ r_word_idx = WordIdx(cur_src + issued) /\ (s_rvalid <=> r_beats_left < Beats - 1)
        /\ Got = IF s_rvalid THEN issued - 1 ELSE 0
        /\ s_rvalid => s_rdata = mem[WordIdx(cur_src + Got)]
        /\ \A i \in 1 .. Got : rd_block[Beats - Got + i] = mem[WordIdx(cur_src + i - 1)]
    BY <1>1, <1>3 DEF SourceRead, Got
  <2>4. issued \in Nat /\ issued < Beats /\ (~s_rvalid => issued = 0) /\ (s_rvalid => issued > 0)
    BY <1>1, <2>3
  <2>5. r_beats_left # 0 => /\ r_beats_left' = r_beats_left - 1
                            /\ r_word_idx' = WordIdx(r_word_idx + 1)
    BY <2>1 DEF RBurstEdge
  <2>6. Got' = issued
    BY <1>1, <2>2, <2>5 DEF Got
  <2>7. r_state' = "BURST" =>
          /\ r_word_idx' = WordIdx(cur_src' + (Beats - 1 - r_beats_left'))
          /\ s_rvalid' <=> r_beats_left' < Beats - 1
    <3>. SUFFICES ASSUME r_beats_left # 0
                  PROVE  /\ r_word_idx' = WordIdx(cur_src' + (Beats - 1 - r_beats_left'))
                         /\ s_rvalid' <=> r_beats_left' < Beats - 1
      BY <2>2
    <3>1. Beats - 1 - r_beats_left' = issued + 1 /\ r_beats_left' < Beats - 1
      BY <1>1, <2>5
    <3>2. WordIdx(WordIdx(cur_src + issued) + 1) = WordIdx(cur_src + issued + 1)
      <4>1. cur_src + issued \in Nat
        BY <1>1, <2>4
      <4>. QED BY <4>1, NextIndex
    <3>3. cur_src + issued + 1 = cur_src + (issued + 1)
      BY <1>1, <2>4
    <3>. QED BY <2>2, <2>3, <2>5, <3>1, <3>2, <3>3
  <2>8. s_rdata' = mem'[WordIdx(cur_src' + Got')]
    BY <2>1, <2>2, <2>3, <2>6
  <2>9. ASSUME NEW i \in 1 .. issued
        PROVE  rd_block'[Beats - issued + i] = mem[WordIdx(cur_src + i - 1)]
    <3>1. s_rvalid /\ Got = issued - 1 /\ i \in Nat
      BY <2>3, <2>4
    <3>2. Beats - issued + i \in 1 .. Beats
      BY <1>1, <2>4
    <3>3. rd_block'[Beats - issued + i] =
            IF Beats - issued + i = Beats THEN s_rdata ELSE rd_block[Beats - issued + i + 1]
      BY <1>1, <2>2, <3>1, <3>2, ShiftInBlock
    <3>4. CASE i = issued
      <4>1. Beats - issued + i = Beats /\ cur_src + Got = cur_src + i - 1
        BY <1>1, <2>4, <3>1, <3>4
      <4>. QED BY <2>3, <3>1, <3>3, <4>1
    <3>5. CASE i # issued
      <4>1. i \in 1 .. Got /\ Beats - Got + i = Beats - issued + i + 1 /\ Beats - issued + i # Beats
        BY <1>1, <2>4, <3>1, <3>5
      <4>. QED BY <2>3, <3>3, <4>1
    <3>. QED BY <3>4, <3>5
  <2>. HIDE DEF issued
  <2>. QED BY <2>1, <2>2, <2>6, <2>7, <2>8, <2>9 DEF SourceRead
<1>4. CASE state = "RD_DATA" /\ r_state = "IDLE"
  <2>1. /\ RdData /\ mem' = mem /\ m_rready /\ s_rvalid /\ s_rlast
    BY <1>1, <1>4, MemoryRests
    DEF ReadStep, EngineEdge, Idle, RdAddr, AesGo, AesWait, WrAddr, WrData, WrResp, Done
  <2>2. /\ state' = "AES_GO" /\ cur_src' = cur_src /\ rd_block' = ShiftIn(rd_block, s_rdata)
    BY <2>1 DEF RdData
  <2>3. /\ Got = Beats - 1 /\ s_rdata = mem[WordIdx(cur_src + Got)]
        /\ \A i \in 1 .. Got : rd_block[Beats - Got + i] = mem[WordIdx(cur_src + i - 1)]
    BY <1>4, <2>1 DEF SourceRead, Got
  <2>4. rd_block' \in Block
    BY <1>1, <2>2, ShiftInBlock
  <2>5. ASSUME NEW i \in 1 .. Beats PROVE rd_block'[i] = mem[WordIdx(cur_src + i - 1)]
    <3>1. rd_block'[i] = IF i = Beats THEN s_rdata ELSE rd_block[i + 1]
      BY <1>1, <2>2, ShiftInBlock
    <3>2. CASE i = Beats
      <4>1. cur_src + Got = cur_src + i - 1
        BY <1>1, <2>3, <3>2
      <4>. QED BY <2>3, <3>1, <3>2, <4>1
    <3>3. CASE i # Beats
      <4>1. i \in 1 .. Got /\ Beats - Got + i = i + 1
        BY <1>1, <2>3, <3>3
      <4>. QED BY <2>3, <3>1, <3>3, <4>1
    <3>. QED BY <3>2, <3>3
  <2>6. rd_block' = [i \in 1 .. Beats |-> mem[WordIdx(cur_src + i - 1)]]
    BY <2>4, <2>5, DmaAssumption
  <2>. QED BY <2>1, <2>2, <2>6 DEF SourceRead
<1>5. CASE state \notin {"RD_ADDR", "RD_DATA"}
  <2>1. state' \notin {"RD_DATA", "AES_GO"}
    BY <1>5 DEF EngineEdge, Idle, RdAddr, RdData, AesGo, AesWait, WrAddr, WrData, WrResp, Done
  <2>. QED BY <2>1 DEF SourceRead
<1>. QED BY <1>1, <1>2, <1>3, <1>4, <1>5

-----------------------------------------------------------------------------
(* Every edge is a step of DmaCopy, or a quiet one. *)

LEMMA ModeOutType == \A t \in Taken : ModeOut(t) \in Block
BY CipherType, XorType DEF Taken, ModeOut, Mode

LEMMA SeenRegsType == RegTypeOK => SeenRegs \in Copy!Regs
BY DmaAssumption DEF RegTypeOK, SeenRegs, Copy!Regs, Copy!Index, Copy!CopyBlock, Index

LEMMA SeenMemFills ==
  /\ SeenMem = Fill(mem, Remaining, Len(Remaining), cur_dst + RemainingFrom)
  /\ SeenMem' = Fill(mem', Remaining', Len(Remaining'), cur_dst' + RemainingFrom')
BY DEF SeenMem, Fill, Places, Position

(* Where nothing of a block remains to be written, the memory is seen as   *)
(* it is.                                                                  *)
LEMMA SeenMemIsMem ==
  /\ mem \in [Index -> Word] /\ state \notin {"AES_WAIT", "WR_ADDR", "WR_DATA"}
       => SeenMem = mem
  /\ mem' \in [Index -> Word] /\ state' \notin {"AES_WAIT", "WR_ADDR", "WR_DATA"}
       => SeenMem' = mem'
<1>1. ASSUME mem \in [Index -> Word], state \notin {"AES_WAIT", "WR_ADDR", "WR_DATA"}
      PROVE  SeenMem = mem
  <2>1. Remaining = << >> /\ Len(Remaining) = 0
    BY <1>1 DEF Remaining
  <2>. QED BY <1>1, <2>1, SeenMemFills, FillNothing
<1>2. ASSUME mem' \in [Index -> Word], state' \notin {"AES_WAIT", "WR_ADDR", "WR_DATA"}
      PROVE  SeenMem' = mem'
  <2>1. Remaining' = << >> /\ Len(Remaining') = 0
    BY <1>2 DEF Remaining
  <2>. QED BY <1>2, <2>1, SeenMemFills, FillNothing
<1>. QED BY <1>1, <1>2

(* What DmaCopy stores is a filling of the memory.                         *)
LEMMA CopyStores ==
  ASSUME SeenMem \in [Index -> Word], NEW a \in Nat, NEW b
  PROVE  Copy!Store(a, b) = Fill(SeenMem, b, Beats, a)
<1>1. Copy!Store(a, b) = Stored(SeenMem, b, a)
  BY DEF Copy!Store, Copy!Index, Copy!Wrap, Index, WordIdx, Stored
<1>. QED BY <1>1, StoreFills

(* A step that neither takes a block nor ends an operation is quiet.       *)
CopyRests ==
  /\ UNCHANGED <<SeenMem, SeenLeft, SeenJob, SeenIv, status_busy>>
  /\ irq_pulse' = FALSE

(* What an edge of the engine gives every case below.                      *)
StepFacts(w) ==
  /\ PortInv /\ SourceRead /\ EngineEdge(w) /\ PortEdge /\ RegisterEdge(w)
  /\ PortInv'
  /\ ChainStays \/ ChainTakes \/ ChainWaits \/ ChainEnds
  /\ w.reg = "CTRL" => w.encdec \in BOOLEAN /\ w.mode \in Mode

LEMMA EdgeParts ==
  ASSUME NEW w, StepFacts(w)
  PROVE  /\ mem \in [Index -> Word] /\ mem' \in [Index -> Word]
         /\ state # "WR_DATA" => mem' = mem
         /\ state # "IDLE" => UNCHANGED <<ctrl_mode, ctrl_encdec>>
         /\ Phases /\ Phases' /\ WriteStep /\ ReadStep /\ RamTypeOK(Beats) /\ FsmTypeOK
         /\ ResultIsThere /\ ResultIsThere' /\ InProgress /\ InProgress'
         /\ BusyIsWorking /\ state \in EngineStates
<1>1. /\ mem \in [Index -> Word] /\ mem' \in [Index -> Word]
  BY DEF StepFacts, PortInv, RamTypeOK
<1>2. state # "WR_DATA" => mem' = mem
  BY MemoryRests DEF StepFacts, PortInv
<1>3. state # "IDLE" => UNCHANGED <<ctrl_mode, ctrl_encdec>>
  BY DEF StepFacts, RegisterEdge, do_start, PortInv, UnitInv, BusyIsWorking
<1>. QED BY <1>1, <1>2, <1>3 DEF StepFacts, PortInv, UnitInv, ChainOK, FsmTypeOK

(* Idle: nothing, or a START, which takes all of the registers.            *)
LEMMA IdleSees ==
  ASSUME NEW w, StepFacts(w), state = "IDLE"
  PROVE  /\ Idle(w) /\ ChainStays /\ ~chain_load_iv /\ ~status_busy /\ irq_pulse' = FALSE
         /\ SeenMem = mem /\ SeenMem' = mem
<1>. USE DEF Pulses, axiVars
<1>0. /\ mem' = mem /\ mem \in [Index -> Word] /\ Phases /\ ~status_busy
      /\ ChainStays /\ ~chain_load_iv
  BY EdgeParts
  DEF StepFacts, Phases, ChainStays, ChainTakes, ChainWaits, ChainEnds, BusyIsWorking
<1>1. Idle(w) /\ irq_pulse' = FALSE
  BY <1>0
  DEF StepFacts, EngineEdge, Idle, RdAddr, RdData, AesGo, AesWait, WrAddr, WrData, WrResp, Done
<1>2. state' \notin {"AES_WAIT", "WR_ADDR", "WR_DATA"}
  BY <1>1 DEF Idle
<1>3. SeenMem = mem
  BY <1>0, SeenMemIsMem
<1>4. SeenMem' = mem'
  BY <1>0, <1>2, SeenMemIsMem
<1>. QED BY <1>0, <1>1, <1>3, <1>4

LEMMA StartSees ==
  ASSUME NEW w, StepFacts(w), state = "IDLE", do_start(w)
  PROVE  /\ status_busy' = TRUE /\ SeenLeft' = Count(SeenRegs.len) /\ SeenIv' = SeenRegs.iv
         /\ SeenJob' = [mode |-> w.mode, decrypt |-> w.encdec, src |-> SeenRegs.src,
                        dst |-> SeenRegs.dst]
         /\ w.mode \in Mode /\ w.encdec \in BOOLEAN
<1>1. /\ cur_src' = src_addr_reg /\ cur_dst' = dst_addr_reg /\ blocks_left' = len_reg
      /\ status_busy' = TRUE /\ state' = "RD_ADDR" /\ chain_load_iv'
  BY IdleSees DEF Idle, Pulses
<1>2. /\ w.mode \in Mode /\ w.encdec \in BOOLEAN /\ dma_iv_reg' = dma_iv_reg
      /\ ctrl_mode' = w.mode /\ ctrl_encdec' = w.encdec
  BY DEF StepFacts, RegisterEdge, do_start, Written
<1>3. SeenJob' = [mode |-> w.mode, decrypt |-> w.encdec, src |-> SeenRegs.src,
                  dst |-> SeenRegs.dst]
  BY <1>1, <1>2 DEF SeenJob, SeenRegs, Taken_
<1>4. SeenLeft' = Count(SeenRegs.len) /\ SeenIv' = SeenRegs.iv
  BY <1>1, <1>2 DEF SeenLeft, SeenRegs, SeenIv, Taken_
<1>. QED BY <1>1, <1>2, <1>3, <1>4

LEMMA IdleCopies ==
  ASSUME NEW w, StepFacts(w), state = "IDLE"
  PROVE  CopyRests \/ (do_start(w) /\ Copy!Start)
<1>. USE DEF Pulses, axiVars
<1>1. CASE ~do_start(w)
  <2>1. /\ UNCHANGED <<cur_src, cur_dst, status_busy, state, ctrl_mode, ctrl_encdec>>
        /\ ~chain_load_iv'
    BY <1>1, IdleSees DEF Idle, StepFacts, RegisterEdge
  <2>2. UNCHANGED <<SeenLeft, SeenJob>>
    BY <2>1 DEF SeenLeft, SeenJob, Taken_, Advance
  <2>3. SeenIv' = SeenIv
    BY <2>1, IdleSees DEF SeenIv, ChainStays
  <2>. QED BY <2>1, <2>2, <2>3, IdleSees DEF CopyRests
<1>2. CASE do_start(w)
  BY <1>2, IdleSees, StartSees DEF Copy!Start
<1>. QED BY <1>1, <1>2

(* Reading: the IV register is loaded, and nothing else moves.             *)
LEMMA ReadingCopies ==
  ASSUME NEW w, StepFacts(w), state \in {"RD_ADDR", "RD_DATA"}
  PROVE  CopyRests
<1>. USE DEF Pulses, axiVars
<1>1. /\ RdAddr \/ RdData
      /\ mem' = mem /\ mem \in [Index -> Word] /\ Phases /\ ChainStays
      /\ UNCHANGED <<ctrl_mode, ctrl_encdec>>
  BY EdgeParts
  DEF StepFacts, EngineEdge, Idle, AesGo, AesWait, WrAddr, WrData, WrResp, Done,
      Phases, ChainStays, ChainTakes, ChainWaits, ChainEnds
<1>2. /\ state' \in {"RD_ADDR", "RD_DATA", "AES_GO"} /\ irq_pulse' = FALSE /\ ~chain_load_iv'
      /\ UNCHANGED <<cur_src, cur_dst, blocks_left, status_busy>>
  BY <1>1 DEF RdAddr, RdData
<1>3. SeenMem' = SeenMem
  <2>1. SeenMem = mem
    BY <1>1, SeenMemIsMem
  <2>2. SeenMem' = mem'
    BY <1>1, <1>2, SeenMemIsMem
  <2>. QED BY <1>1, <2>1, <2>2
<1>4. UNCHANGED <<SeenLeft, SeenJob>>
  BY <1>1, <1>2 DEF SeenLeft, SeenJob, Taken_, Advance
<1>5. SeenIv' = SeenIv
  BY <1>1, <1>2 DEF SeenIv, ChainStays
<1>. QED BY <1>2, <1>3, <1>4, <1>5 DEF CopyRests

(* The chain takes the block: all of it happens for DmaCopy.               *)
LEMMA TakingCopies ==
  ASSUME NEW w, StepFacts(w), state = "AES_GO"
  PROVE  Copy!DoBlock
<1>. USE DEF Pulses, axiVars
<1>1. /\ AesGo /\ mem' = mem /\ mem \in [Index -> Word] /\ Phases /\ Phases' /\ InProgress'
      /\ UNCHANGED <<ctrl_mode, ctrl_encdec>> /\ ChainTakes /\ status_busy
  BY EdgeParts
  DEF StepFacts, EngineEdge, Idle, RdAddr, RdData, AesWait, WrAddr, WrData, WrResp, Done,
      Phases, ChainStays, ChainTakes, ChainWaits, ChainEnds, BusyIsWorking
<1>2. /\ state' = "AES_WAIT" /\ irq_pulse' = FALSE /\ ~chain_load_iv' /\ ~chain_load_iv
      /\ UNCHANGED <<cur_src, cur_dst, blocks_left, status_busy>>
  BY <1>1 DEF AesGo, Phases
<1>3. cur_dst \in Nat /\ blocks_left \in LenValues
  BY EdgeParts, IndexIsNat DEF FsmTypeOK
<1>4. SeenMem = mem
  BY <1>1, SeenMemIsMem
<1>5. SeenIv = iv_reg
  BY <1>1, <1>2 DEF SeenIv, ChainTakes
<1>6. SeenJob = [mode |-> ctrl_mode, decrypt |-> ctrl_encdec, src |-> cur_src, dst |-> cur_dst]
  BY DEF SeenJob, Taken_
<1>. DEFINE data == [i \in 1 .. Beats |-> mem[WordIdx(cur_src + i - 1)]]
<1>7. rd_block = data
  BY DEF StepFacts, SourceRead
<1>8. Copy!BlockAt(SeenJob.src) = data
  BY <1>4, <1>6 DEF Copy!BlockAt, Copy!Wrap, WordIdx
<1>9. taken' = [mode |-> ctrl_mode, encdec |-> ctrl_encdec, key |-> key_reg, data |-> data,
                iv |-> iv_reg] /\ taken' \in Taken
  BY <1>1, <1>7 DEF ChainTakes, NewTaken, InProgress
<1>. HIDE DEF data
<1>10. /\ ModeOut(taken') = BlockOut(SeenJob.mode, SeenJob.decrypt, SeenRegs.key, data, SeenIv)
       /\ ModeNextIv(taken') = BlockIv(SeenJob.mode, SeenJob.decrypt, SeenRegs.key, data, SeenIv)
  BY <1>5, <1>6, <1>9 DEF BlockOut, BlockIv, SeenRegs
<1>11. SeenIv' = ModeNextIv(taken')
  BY <1>1, <1>2 DEF SeenIv, ChainTakes, chain_busy, ModeNextIv, Ciphertext, ModeOut
<1>12. SeenMem' = Copy!Store(SeenJob.dst, ModeOut(taken'))
  <2>1. ModeOut(taken') \in Block /\ Len(ModeOut(taken')) = Beats
    BY <1>9, ModeOutType, BlockIsSeq
  <2>2. Remaining' = ModeOut(taken') /\ RemainingFrom' = 0
    BY <1>2 DEF Remaining, RemainingFrom, ModeOut
  <2>3. SeenMem' = Fill(mem, ModeOut(taken'), Beats, cur_dst)
    <3>1. SeenMem' = Fill(mem', Remaining', Len(Remaining'), cur_dst' + RemainingFrom')
      BY SeenMemFills
    <3>2. cur_dst' + RemainingFrom' = cur_dst
      BY <1>2, <1>3, <2>2
    <3>. QED BY <1>1, <2>1, <2>2, <3>1, <3>2
  <2>4. SeenJob.dst = cur_dst
    BY <1>6
  <2>. QED BY <1>1, <1>3, <1>4, <2>3, <2>4, CopyStores
<1>13. SeenLeft' = SeenLeft - 1 /\ SeenLeft > 0
  BY <1>2, <1>3, DmaAssumption DEF SeenLeft, Taken_, Count, LenValues
<1>14. SeenJob' = [mode |-> SeenJob.mode, decrypt |-> SeenJob.decrypt,
                   src |-> Copy!Wrap(SeenJob.src + Beats), dst |-> Copy!Wrap(SeenJob.dst + Beats)]
  BY <1>1, <1>2, <1>6 DEF SeenJob, Taken_, Advance, Copy!Wrap, WordIdx
<1>. QED BY <1>1, <1>2, <1>8, <1>10, <1>11, <1>12, <1>13, <1>14 DEF Copy!DoBlock

(* While the chain works, and when its result is taken over.               *)
LEMMA WaitingCopies ==
  ASSUME NEW w, StepFacts(w), state = "AES_WAIT"
  PROVE  CopyRests
<1>. USE DEF Pulses, axiVars
<1>1. /\ AesWait /\ mem' = mem /\ mem \in [Index -> Word] /\ Phases /\ Phases'
      /\ ResultIsThere /\ ResultIsThere' /\ InProgress
      /\ UNCHANGED <<ctrl_mode, ctrl_encdec>> /\ ~chain_load_iv /\ cur_dst \in Nat
  BY EdgeParts, IndexIsNat
  DEF StepFacts, EngineEdge, Idle, RdAddr, RdData, AesGo, WrAddr, WrData, WrResp, Done,
      Phases, FsmTypeOK
<1>2. /\ irq_pulse' = FALSE /\ ~chain_load_iv' /\ state' \in {"AES_WAIT", "WR_ADDR"}
      /\ UNCHANGED <<cur_src, cur_dst, blocks_left, status_busy>>
      /\ state' = "WR_ADDR" => done_reg /\ wr_block' = data_out_reg
      /\ state' = "AES_WAIT" => ~done_reg
  BY <1>1 DEF AesWait
<1>3. UNCHANGED <<SeenLeft, SeenJob>>
  BY <1>1, <1>2 DEF SeenLeft, SeenJob, Taken_, Advance
<1>4. taken \in Taken
  BY <1>1 DEF Phases, InProgress, ResultIsThere
<1>5. ModeOut(taken) \in Block /\ Len(ModeOut(taken)) = Beats
  BY <1>4, ModeOutType, BlockIsSeq
<1>6. SeenMem = Fill(mem, ModeOut(taken), Beats, cur_dst)
  <2>1. Remaining = ModeOut(taken) /\ RemainingFrom = 0
    BY DEF Remaining, RemainingFrom
  <2>2. SeenMem = Fill(mem, Remaining, Len(Remaining), cur_dst + RemainingFrom)
    BY SeenMemFills
  <2>3. cur_dst + RemainingFrom = cur_dst
    BY <1>1, <2>1
  <2>. QED BY <1>5, <2>1, <2>2, <2>3
<1>7. CASE state' = "WR_ADDR"
  <2>1. /\ done_reg /\ ~chain_busy /\ ChainStays /\ data_out_reg = ModeOut(taken)
    BY <1>1, <1>2, <1>7
    DEF ResultIsThere, StepFacts, ChainStays, ChainTakes, ChainWaits, ChainEnds, Phases
  <2>2. SeenIv' = SeenIv
    BY <1>1, <1>2, <2>1 DEF SeenIv, ChainStays
  <2>3. Remaining' = ModeOut(taken) /\ RemainingFrom' = 0
    <3>1. Remaining' = SubSeq(wr_block', 1, Beats - 0) /\ RemainingFrom' = 0
      BY <1>7 DEF Remaining, RemainingFrom
    <3>2. wr_block' = ModeOut(taken) /\ ModeOut(taken) \in Seq(Word)
      BY <1>2, <1>5, <1>7, <2>1, BlockIsSeq
    <3>3. SubSeq(ModeOut(taken), 1, Beats) = ModeOut(taken) /\ Beats - 0 = Beats
      BY <1>5, <3>2, DmaAssumption
    <3>. QED BY <3>1, <3>2, <3>3
  <2>4. SeenMem' = Fill(mem', Remaining', Len(Remaining'), cur_dst' + RemainingFrom')
    BY SeenMemFills
  <2>5. cur_dst' + RemainingFrom' = cur_dst
    BY <1>1, <1>2, <2>3
  <2>6. SeenMem' = SeenMem
    BY <1>1, <1>5, <1>6, <2>3, <2>4, <2>5
  <2>. QED BY <1>2, <1>3, <2>2, <2>6 DEF CopyRests
<1>8. CASE state' = "AES_WAIT"
  <2>1. chain_busy /\ (ChainWaits \/ ChainEnds)
    BY <1>1, <1>2, <1>8
    DEF StepFacts, ChainStays, ChainTakes, ChainWaits, ChainEnds, Phases
  <2>2. taken' = taken /\ SeenIv = ModeNextIv(taken)
    BY <1>1, <2>1 DEF ChainWaits, ChainEnds, SeenIv
  <2>3. SeenIv' = ModeNextIv(taken)
    <3>1. CASE ChainWaits
      BY <1>2, <2>2, <3>1 DEF ChainWaits, SeenIv, ModeNextIv, Ciphertext, ModeOut
    <3>2. CASE ChainEnds
      <4>1. iv_reg' = ModeNextIv(taken)
        BY <1>1, <2>2, <3>2 DEF ChainEnds, ResultIsThere, ModeNextIv, Ciphertext, ModeOut
      <4>. QED BY <1>2, <3>2, <4>1 DEF ChainEnds, SeenIv
    <3>. QED BY <2>1, <3>1, <3>2
  <2>4. Remaining' = ModeOut(taken) /\ RemainingFrom' = 0
    BY <1>8, <2>2 DEF Remaining, RemainingFrom, ModeOut
  <2>5. SeenMem' = Fill(mem', Remaining', Len(Remaining'), cur_dst' + RemainingFrom')
    BY SeenMemFills
  <2>6. cur_dst' + RemainingFrom' = cur_dst
    BY <1>1, <1>2, <2>4
  <2>7. SeenMem' = SeenMem
    BY <1>1, <1>5, <1>6, <2>4, <2>5, <2>6
  <2>. QED BY <1>2, <1>3, <2>2, <2>3, <2>7 DEF CopyRests
<1>. QED BY <1>2, <1>7, <1>8

(* Addressing the write burst.                                             *)
LEMMA AddressingCopies ==
  ASSUME NEW w, StepFacts(w), state = "WR_ADDR"
  PROVE  CopyRests
<1>. USE DEF Pulses, axiVars
<1>1. /\ WrAddr /\ mem' = mem /\ mem \in [Index -> Word] /\ ChainStays
      /\ UNCHANGED <<ctrl_mode, ctrl_encdec>> /\ ~chain_load_iv
  BY EdgeParts
  DEF StepFacts, EngineEdge, Idle, RdAddr, RdData, AesGo, AesWait, WrData, WrResp, Done,
      Phases, ChainStays, ChainTakes, ChainWaits, ChainEnds
<1>2. /\ irq_pulse' = FALSE /\ ~chain_load_iv' /\ state' \in {"WR_ADDR", "WR_DATA"}
      /\ UNCHANGED <<cur_src, cur_dst, blocks_left, status_busy, wr_block>>
      /\ state' = "WR_DATA" => beat_cnt' = 0
  BY <1>1 DEF WrAddr
<1>3. UNCHANGED <<SeenLeft, SeenJob>>
  BY <1>1, <1>2 DEF SeenLeft, SeenJob, Taken_, Advance
<1>4. SeenIv' = SeenIv
  BY <1>1, <1>2 DEF SeenIv, ChainStays
<1>5. SeenMem' = SeenMem
  <2>1. RemainingFrom = 0 /\ RemainingFrom' = 0
    BY <1>2 DEF RemainingFrom
  <2>2. Remaining' = Remaining
    BY <1>2, <2>1 DEF Remaining
  <2>. QED BY <1>1, <1>2, <2>1, <2>2, SeenMemFills
<1>. QED BY <1>2, <1>3, <1>4, <1>5 DEF CopyRests

(* Writing: each word moves from what remains into the memory.             *)
LEMMA WritingCopies ==
  ASSUME NEW w, StepFacts(w), state = "WR_DATA"
  PROVE  CopyRests
<1>. USE DEF Pulses, axiVars
<1>1. /\ ChainStays /\ UNCHANGED <<ctrl_mode, ctrl_encdec>> /\ ~chain_load_iv
      /\ mem \in [Index -> Word] /\ mem' \in [Index -> Word]
      /\ m_wvalid /\ w_state = "BURST" /\ w_word_idx = WordIdx(cur_dst + beat_cnt)
  BY EdgeParts
  DEF StepFacts, Phases, ChainStays, ChainTakes, ChainWaits, ChainEnds, WriteStep
<1>2. WrData
  BY DEF StepFacts, EngineEdge, Idle, RdAddr, RdData, AesGo, AesWait, WrAddr, WrResp, Done
<1>3. /\ wr_block \in Block /\ beat_cnt \in 0 .. Beats - 1 /\ cur_dst \in Nat
      /\ Beats \in Nat \ {0} /\ ZeroWord \in Word
  BY EdgeParts, IndexIsNat, DmaAssumption, RamAssumption DEF FsmTypeOK
<1>4. mem' = [mem EXCEPT ![WordIdx(cur_dst + beat_cnt)] = wr_block[1]]
  BY <1>1 DEF StepFacts, PortEdge, RamEdge, WIdleEdge, WBurstEdge, m_wdata
<1>5. /\ irq_pulse' = FALSE /\ ~chain_load_iv'
      /\ UNCHANGED <<cur_src, cur_dst, blocks_left, status_busy>>
      /\ wr_block' = ShiftIn(wr_block, ZeroWord)
      /\ IF beat_cnt = Beats - 1 THEN state' = "WR_RESP"
         ELSE state' = "WR_DATA" /\ beat_cnt' = beat_cnt + 1
  BY <1>1, <1>2 DEF WrData, s_wready
<1>6. UNCHANGED <<SeenLeft, SeenJob>>
  BY <1>1, <1>5 DEF SeenLeft, SeenJob, Taken_, Advance
<1>7. SeenIv' = SeenIv
  BY <1>1, <1>5 DEF SeenIv, ChainStays
<1>. DEFINE len == Beats - beat_cnt
            base == cur_dst + beat_cnt
            f == SubSeq(wr_block, 1, len)
<1>8. len \in Nat \ {0} /\ base \in Nat /\ len <= Beats
  BY <1>3
<1>9. Len(f) = len /\ \A i \in 1 .. len : f[i] = wr_block[i]
  <2>1. wr_block \in Seq(Word) /\ Len(wr_block) = Beats
    BY <1>3, BlockIsSeq
  <2>. HIDE DEF len
  <2>. QED BY <1>8, <2>1
<1>10. SeenMem = Fill(mem, f, len, base)
  <2>1. Remaining = f /\ RemainingFrom = beat_cnt
    BY DEF Remaining, RemainingFrom
  <2>. HIDE DEF f, len
  <2>. QED BY <1>9, <2>1, SeenMemFills
<1>11. ASSUME NEW g, \A i \in 1 .. len - 1 : g[i] = f[i + 1]
       PROVE  Fill(mem', g, len - 1, base + 1) = SeenMem
  <2>1. f[1] = wr_block[1]
    BY <1>8, <1>9
  <2>2. Updated(mem', mem, WordIdx(base), f[1]) /\ Follows(g, f, len - 1)
    BY <1>4, <1>11, <2>1 DEF Updated, Follows
  <2>. HIDE DEF f, len, base
  <2>3. Fill(mem', g, len - 1, base + 1) = Fill(mem, f, len, base)
    BY <1>1, <1>8, <2>2, FillShift
  <2>. QED BY <1>10, <2>3
<1>12. CASE beat_cnt = Beats - 1
  <2>1. len - 1 = 0 /\ state' = "WR_RESP"
    BY <1>3, <1>5, <1>12
  <2>2. SeenMem' = mem'
    BY <1>1, <2>1, SeenMemIsMem
  <2>. DEFINE g == << >>
  <2>3. \A i \in 1 .. len - 1 : g[i] = f[i + 1]
    BY <2>1
  <2>4. Fill(mem', g, len - 1, base + 1) = SeenMem
    BY <1>11, <2>3
  <2>. HIDE DEF len, base, g
  <2>5. Fill(mem', g, 0, base + 1) = mem'
    BY <1>1, FillNothing
  <2>6. SeenMem' = SeenMem
    BY <2>1, <2>2, <2>4, <2>5
  <2>. QED BY <1>5, <1>6, <1>7, <2>6 DEF CopyRests
<1>13. CASE beat_cnt # Beats - 1
  <2>1. state' = "WR_DATA" /\ beat_cnt' = beat_cnt + 1
    BY <1>5, <1>13
  <2>. DEFINE g == SubSeq(wr_block', 1, len - 1)
  <2>2. /\ wr_block' \in Block
        /\ \A i \in 1 .. Beats : wr_block'[i] = IF i = Beats THEN ZeroWord ELSE wr_block[i + 1]
    BY <1>3, <1>5, ShiftInBlock
  <2>3. len - 1 \in Nat /\ len - 1 <= Beats /\ len - 1 # 0
    BY <1>3, <1>8, <1>13
  <2>4. Len(g) = len - 1 /\ \A i \in 1 .. len - 1 : g[i] = wr_block'[i]
    <3>1. wr_block' \in Seq(Word) /\ Len(wr_block') = Beats
      BY <2>2, BlockIsSeq
    <3>. HIDE DEF len
    <3>. QED BY <2>3, <3>1
  <2>5. ASSUME NEW i \in 1 .. len - 1 PROVE g[i] = f[i + 1]
    <3>1. i \in 1 .. Beats /\ i # Beats /\ i + 1 \in 1 .. len
      BY <1>3, <1>8
    <3>. HIDE DEF g, f
    <3>. QED BY <1>9, <2>2, <2>4, <3>1
  <2>6. Fill(mem', g, len - 1, base + 1) = SeenMem
    BY <1>11, <2>5
  <2>7. /\ Remaining' = SubSeq(wr_block', 1, Beats - (beat_cnt + 1))
        /\ RemainingFrom' = beat_cnt + 1
    BY <2>1 DEF Remaining, RemainingFrom
  <2>8. Beats - (beat_cnt + 1) = len - 1 /\ cur_dst' + (beat_cnt + 1) = base + 1
    BY <1>3, <1>5
  <2>9. Remaining' = g
    BY <2>7, <2>8
  <2>. HIDE DEF g, len, base
  <2>10. SeenMem' = SeenMem
    BY <2>4, <2>6, <2>7, <2>8, <2>9, SeenMemFills
  <2>. QED BY <1>5, <1>6, <1>7, <2>10 DEF CopyRests
<1>. QED BY <1>12, <1>13

(* Both ways of counting the blocks left agree.                            *)
LEMMA CountsDown ==
  ASSUME NEW n \in LenValues, n # 1
  PROVE  Count((n + 2^LenBits - 1) % 2^LenBits) = Count(n) - 1
<1>. DEFINE m == 2^LenBits
<1>1. m \in Nat \ {0, 1} /\ n \in 0 .. m - 1
  BY DmaAssumption DEF LenValues
<1>. HIDE DEF m
<1>2. CASE n = 0
  <2>1. n + m - 1 = m - 1 /\ (m - 1) % m = m - 1
    BY <1>1, <1>2
  <2>. QED BY <1>1, <1>2, <2>1 DEF Count, m
<1>3. CASE n # 0
  <2>1. n + m - 1 = (m * 1) + (n - 1) /\ n - 1 \in 0 .. m - 1
    BY <1>1, <1>3
  <2>2. ((m * 1) + (n - 1)) % m = n - 1
    BY <1>1, <2>1, ModuloUnique
  <2>3. (n + m - 1) % m = n - 1 /\ n - 1 # 0
    BY <1>1, <2>1, <2>2
  <2>. QED BY <1>3, <2>3 DEF Count, m
<1>. QED BY <1>2, <1>3

(* The response: the next block, or the end.                               *)
LEMMA AnsweredCopies ==
  ASSUME NEW w, StepFacts(w), state = "WR_RESP"
  PROVE  CopyRests
<1>. USE DEF Pulses, axiVars
<1>1. /\ mem' = mem /\ mem \in [Index -> Word] /\ ChainStays
      /\ UNCHANGED <<ctrl_mode, ctrl_encdec>> /\ ~chain_load_iv /\ blocks_left \in LenValues
  BY EdgeParts
  DEF StepFacts, Phases, ChainStays, ChainTakes, ChainWaits, ChainEnds, FsmTypeOK
<1>2. WrResp
  BY DEF StepFacts, EngineEdge, Idle, RdAddr, RdData, AesGo, AesWait, WrAddr, WrData, Done
<1>3. irq_pulse' = FALSE /\ ~chain_load_iv' /\ status_busy' = status_busy
      /\ state' \in {"WR_RESP", "DONE", "RD_ADDR"}
  BY <1>2 DEF WrResp
<1>4. SeenMem' = SeenMem
  <2>1. SeenMem = mem
    BY <1>1, SeenMemIsMem
  <2>2. SeenMem' = mem'
    BY <1>1, <1>3, SeenMemIsMem
  <2>. QED BY <1>1, <2>1, <2>2
<1>5. SeenIv' = SeenIv
  BY <1>1, <1>3 DEF SeenIv, ChainStays
<1>6. UNCHANGED <<SeenLeft, SeenJob>>
  <2>1. CASE state' = "WR_RESP"
    <3>1. UNCHANGED <<cur_src, cur_dst, blocks_left>>
      BY <1>2, <2>1 DEF WrResp
    <3>. QED BY <1>1, <2>1, <3>1 DEF SeenLeft, SeenJob, Taken_, Advance
  <2>2. CASE state' = "DONE"
    <3>1. blocks_left = 1 /\ UNCHANGED <<cur_src, cur_dst>>
      BY <1>2, <2>2 DEF WrResp, LastBlock
    <3>2. SeenLeft = 0
      BY <3>1 DEF SeenLeft, Taken_, Count
    <3>. QED BY <1>1, <2>2, <3>1, <3>2 DEF SeenLeft, SeenJob, Taken_, Advance
  <2>3. CASE state' = "RD_ADDR"
    <3>1. /\ blocks_left # 1
          /\ cur_src' = Advance(cur_src) /\ cur_dst' = Advance(cur_dst)
          /\ blocks_left' = (blocks_left + 2^LenBits - 1) % 2^LenBits
      BY <1>2, <2>3 DEF WrResp, LastBlock
    <3>2. Count(blocks_left') = Count(blocks_left) - 1
      BY <1>1, <3>1, CountsDown
    <3>3. SeenLeft' = Count(blocks_left') /\ SeenLeft = Count(blocks_left) - 1
      BY <2>3 DEF SeenLeft, Taken_, Count
    <3>4. SeenJob' = SeenJob
      BY <1>1, <2>3, <3>1 DEF SeenJob, Taken_
    <3>. QED BY <3>2, <3>3, <3>4
  <2>. QED BY <1>3, <2>1, <2>2, <2>3
<1>. QED BY <1>3, <1>4, <1>5, <1>6 DEF CopyRests

LEMMA DoneCopies ==
  ASSUME NEW w, StepFacts(w), state = "DONE"
  PROVE  Copy!Complete
<1>. USE DEF Pulses, axiVars
<1>1. /\ mem' = mem /\ mem \in [Index -> Word] /\ ChainStays /\ status_busy
      /\ UNCHANGED <<ctrl_mode, ctrl_encdec>> /\ ~chain_load_iv
  BY EdgeParts
  DEF StepFacts, Phases, ChainStays, ChainTakes, ChainWaits, ChainEnds, BusyIsWorking
<1>2. Done
  BY DEF StepFacts, EngineEdge, Idle, RdAddr, RdData, AesGo, AesWait, WrAddr, WrData, WrResp
<1>3. /\ state' = "IDLE" /\ status_busy' = FALSE /\ irq_pulse' = TRUE /\ ~chain_load_iv'
      /\ UNCHANGED <<cur_src, cur_dst, blocks_left>>
  BY <1>2 DEF Done
<1>4. SeenMem' = SeenMem
  <2>1. SeenMem = mem
    BY <1>1, SeenMemIsMem
  <2>2. SeenMem' = mem'
    BY <1>1, <1>3, SeenMemIsMem
  <2>. QED BY <1>1, <2>1, <2>2
<1>5. SeenLeft = 0 /\ SeenLeft' = 0
  BY <1>3 DEF SeenLeft
<1>6. SeenJob' = SeenJob
  BY <1>1, <1>3 DEF SeenJob, Taken_, Advance
<1>7. SeenIv' = SeenIv
  BY <1>1, <1>3 DEF SeenIv, ChainStays
<1>. QED BY <1>1, <1>3, <1>4, <1>5, <1>6, <1>7 DEF Copy!Complete

LEMMA EdgeSees ==
  ASSUME NEW w, StepFacts(w)
  PROVE  CopyRests \/ (do_start(w) /\ Copy!Start) \/ Copy!DoBlock \/ Copy!Complete
<1>1. state \in EngineStates
  BY EdgeParts
<1>. QED BY <1>1, IdleCopies, ReadingCopies, TakingCopies, WaitingCopies, AddressingCopies,
            WritingCopies, AnsweredCopies, DoneCopies
         DEF EngineStates

LEMMA EdgeCopies ==
  ASSUME NEW w, StepFacts(w), SeenRegs' \in Copy!Regs
  PROVE  Copy!Next
<1>1. CopyRests => Copy!Quiet
  BY DEF CopyRests, Copy!Quiet
<1>. QED BY <1>1, EdgeSees DEF Copy!Next

CopyIInv == EngineIInv /\ SourceRead

LEMMA CopyStep ==
  ASSUME CopyIInv, NEW w \in Writes, MayWrite(w), Edge(w)
  PROVE  CopyIInv' /\ Copy!Next
<1>1. EngineEdge(w) /\ PortEdge /\ RegisterEdge(w) /\ WriteOK(w)
  BY WritesAreOK DEF Edge, PortEdge
<1>2. EngineIInv' /\ (ChainStays \/ ChainTakes \/ ChainWaits \/ ChainEnds)
  BY EngineKeeps DEF CopyIInv
<1>3. SourceRead'
  BY <1>1, SourceReadKept DEF CopyIInv, EngineIInv
<1>4. StepFacts(w)
  BY <1>1, <1>2 DEF StepFacts, CopyIInv, EngineIInv, WriteOK
<1>5. SeenRegs' \in Copy!Regs
  BY <1>2, DmaAssumption
  DEF EngineIInv, PortInv, UnitInv, RegTypeOK, SeenRegs, Copy!Regs, Copy!Index, Copy!CopyBlock, Index
<1>. QED BY <1>2, <1>3, <1>4, <1>5, EdgeCopies DEF CopyIInv

LEMMA SeenStops ==
  ASSUME UNCHANGED vars
  PROVE  /\ UNCHANGED <<SeenMem, SeenRegs, SeenLeft, SeenJob, SeenIv, status_busy, irq_pulse>>
         /\ SourceRead => SourceRead'
<1>. USE DEF vars, chainVars, ramVars, regVars, fsmVars
<1>1. UNCHANGED <<SeenRegs, SeenLeft, SeenJob, status_busy, irq_pulse>>
  BY DEF SeenRegs, SeenLeft, SeenJob, Taken_, Advance
<1>2. UNCHANGED SeenIv
  BY DEF SeenIv, chain_busy, ModeNextIv, Ciphertext, ModeOut
<1>3. UNCHANGED <<Remaining, RemainingFrom>>
  BY DEF Remaining, RemainingFrom, ModeOut
<1>4. UNCHANGED SeenMem
  BY <1>3, SeenMemFills
<1>5. SourceRead => SourceRead'
  BY DEF SourceRead, Got
<1>. QED BY <1>1, <1>2, <1>4, <1>5

LEMMA CopyStops ==
  ASSUME CopyIInv, UNCHANGED vars
  PROVE  CopyIInv' /\ UNCHANGED Copy!vars
BY EngineStops, SeenStops DEF CopyIInv, Copy!vars

LEMMA InitCopies == Init => CopyIInv /\ Copy!Init
<1>. SUFFICES ASSUME Init PROVE CopyIInv /\ Copy!Init
  OBVIOUS
<1>1. EngineIInv
  BY InitEngine
<1>2. SourceRead /\ state = "IDLE" /\ ~chain_load_iv /\ ~chain_busy
  BY DEF Init, ChainInit, SourceRead, chain_busy
<1>3. /\ mem \in [Index -> Word] /\ iv_reg \in Block /\ RegTypeOK /\ FsmTypeOK
  BY <1>1 DEF EngineIInv, PortInv, UnitInv, ChainOK, ChainTypeOK, RamTypeOK
<1>4. SeenMem \in [Copy!Index -> Word]
  BY <1>2, <1>3, SeenMemIsMem DEF Copy!Index, Index
<1>5. SeenRegs \in Copy!Regs
  BY <1>3, SeenRegsType
<1>6. SeenLeft = 0
  BY <1>2 DEF SeenLeft
<1>7. SeenJob \in Copy!Job
  <2>1. cur_src + Beats \in Nat /\ cur_dst + Beats \in Nat
    BY <1>3, IndexIsNat, DmaAssumption DEF FsmTypeOK
  <2>2. Advance(cur_src) \in Index /\ Advance(cur_dst) \in Index
    BY <2>1, WordIdxType DEF Advance
  <2>. QED BY <1>2, <1>3, <2>2 DEF SeenJob, Taken_, Copy!Job, Copy!Index, Index, RegTypeOK
<1>8. SeenIv \in Copy!CopyBlock
  BY <1>2, <1>3, DmaAssumption DEF SeenIv, Copy!CopyBlock
<1>9. status_busy = FALSE /\ irq_pulse = FALSE
  BY DEF Init
<1>. QED BY <1>1, <1>2, <1>4, <1>5, <1>6, <1>7, <1>8, <1>9 DEF CopyIInv, Copy!Init

(* From the START to the interrupt the engine is DmaCopy: each block is    *)
(* read, taken through the cipher mode and written as if in one step, with *)
(* the mode, direction, addresses, length and IV of the START, whatever    *)
(* the software writes meanwhile (dma_engine.v:4-20, 204-343).             *)
THEOREM EngineIsCopy == Spec => ImplementsCopy
<1>1. ASSUME CopyIInv, [Next]_vars PROVE CopyIInv' /\ [Copy!Next]_(Copy!vars)
  BY <1>1, CopyStep, CopyStops DEF Next
<1>. QED BY InitCopies, <1>1, PTL DEF Spec, ImplementsCopy, Copy!Spec

MCCopyIInv == MCIInv /\ (half = "engine" => SourceRead)

(* The same on the system the run checks.                                  *)
THEOREM EngineIsCopyInSoc == MCSpec => ImplementsCopyInSoc
<1>1. MCInit => MCCopyIInv /\ (half = "engine" => Copy!Init)
  BY MCInitOK, InitCopies DEF MCInit, MCCopyIInv, CopyIInv
<1>2. ASSUME MCCopyIInv, [MCNext]_MCVars
      PROVE  MCCopyIInv' /\ [half = "engine" => Copy!Next]_(Copy!vars)
  <2>1. MCIInv'
    BY <1>2, MCKeeps DEF MCCopyIInv
  <2>2. CASE EngineStep
    <3>1. CopyIInv /\ half = "engine" /\ half' = half
      BY <1>2, <2>2 DEF EngineStep, MCCopyIInv, MCIInv, CopyIInv
    <3>. QED BY <2>1, <2>2, <3>1, CopyStep DEF EngineStep, Next, MCCopyIInv, CopyIInv
  <2>3. CASE BenchStep
    BY <2>1, <2>3 DEF BenchStep, MCCopyIInv
  <2>4. CASE UNCHANGED MCVars
    <3>1. CASE half = "engine"
      BY <1>2, <2>1, <2>4, <3>1, CopyStops DEF MCVars, MCCopyIInv, MCIInv, CopyIInv
    <3>2. CASE half # "engine"
      BY <2>1, <2>4, <3>2 DEF MCVars, MCCopyIInv
    <3>. QED BY <3>1, <3>2
  <2>. QED BY <1>2, <2>2, <2>3, <2>4 DEF MCNext
<1>. QED BY <1>1, <1>2, PTL DEF MCSpec, ImplementsCopyInSoc

-----------------------------------------------------------------------------
(* The checks of the benches. *)

Low == ~m_awvalid /\ ~m_wvalid /\ ~m_bready /\ ~m_arvalid /\ ~m_rready

(* The engine's bench makes its calls in one order.                        *)
CallOrder ==
  top # "dma_ram" =>
    /\ call.stage \in {"aw", "w", "b"} => calls = 1
    /\ call.stage \in {"config", "poll", "clear"} => calls = 2
    /\ call.stage \in {"ar", "r"} => calls = 3

(* What the helpers see of READY before they ask decides how long they     *)
(* wait for it.                                                            *)
Shown(ready) == ready <=> top = "dma_ram"
Waits ==
  /\ call.stage \in {"judge", "config", "poll", "clear"} /\ (top = "dma_ram" \/ calls <= 2) =>
       Shown(seen.awready) /\ Shown(seen.arready)
  /\ call.stage = "aw" => Shown(seen.awready)
  /\ call.stage = "ar" => Shown(seen.arready)
  /\ call.stage \in {"aw", "ar"} /\ top = "dma_ram" => call.spin = 0
  /\ call.stage \in {"w", "r"} => call.spun = IF top = "dma_ram" THEN 0 ELSE SpinLimit

(* Between calls, and in an operation, the engine and the memory keep      *)
(* step; during a burst of the bench the engine leaves the port alone.     *)
PortFree ==
  /\ call.stage \in {"judge", "config", "poll", "clear"} => WriteStep /\ ReadStep /\ SourceRead
  /\ BurstStage => Low

(* The first k words of the write burst c are in the memory m, every other *)
(* word is that of e.                                                      *)
Strobes(c, k, n) == {i \in 1 .. k : WordIdx(c.addr + i - 1) = n /\ c.strobes[i]}
InMemory(m, e, c, k) ==
  \A n \in Index :
    /\ \A i \in Strobes(c, k, n) : m[n] = c.words[i]
    /\ Strobes(c, k, n) = {} => m[n] = e[n]

Writing ==
  /\ call.stage \in {"aw", "w", "b"} =>
       /\ call.op = "write" /\ r_state = "IDLE" /\ ~s_rvalid
       /\ Len(call.words) <= Beats /\ call.strobes \in [1 .. Len(call.words) -> BOOLEAN]
  /\ call.stage = "aw" =>
       mem = expects /\ call.at = 1 /\ (w_state = "BURST" => w_word_idx = WordIdx(call.addr))
  /\ call.stage = "w" =>
       /\ w_state = "BURST" /\ w_word_idx = WordIdx(call.addr + call.at - 1) /\ seen.wready
       /\ InMemory(mem, expects, call, call.at - 1)
  /\ call.stage = "b" =>
       /\ w_state = "IDLE" /\ s_bvalid /\ seen.bvalid
       /\ InMemory(mem, expects, call, Len(call.words))

(* The words of a read burst that the helper has, those of the memory one  *)
(* after another, and the one on the port.                                 *)
Issued == IF r_state = "BURST" THEN call.at - 1 - r_beats_left ELSE call.at
Collecting ==
  /\ \A i \in 1 .. Len(call.out) : call.out[i] = mem[WordIdx(call.addr + i - 1)]
  /\ seen.rvalid <=> s_rvalid
  /\ s_rvalid => s_rdata = mem[WordIdx(call.addr + Len(call.out))]
  /\ Len(call.out) + (IF s_rvalid THEN 1 ELSE 0) = Issued
  /\ r_state = "BURST" => /\ r_word_idx = WordIdx(call.addr + Issued) /\ Issued \in Nat
                          /\ s_rvalid => ~s_rlast
  /\ r_state = "IDLE" => s_rvalid /\ s_rlast

Reading ==
  /\ call.stage \in {"ar", "r"} =>
       call.op = "read" /\ mem = expects /\ w_state = "IDLE" /\ call.at \in 1 .. Beats
  /\ call.stage = "ar" =>
       /\ call.out = << >> /\ (top = "dma_ram" \/ call.at # 1)
       /\ \/ r_state = "IDLE" /\ ~s_rvalid
          \/ top # "dma_ram" /\ r_state = "BURST" /\ Collecting
  /\ call.stage = "r" => Collecting /\ call.spin <= Issued

Judged ==
  call.stage = "judge" =>
    /\ call.ok /\ mem = expects
    /\ call.op = "read" =>
         call.out = [i \in 1 .. call.at |-> expects[WordIdx(call.addr + i - 1)]]

(* The response to the burst that stored the source is never taken.        *)
NotTaken ==
  top # "dma_ram" /\ (call.stage = "config" \/ (call.stage = "judge" /\ calls = 1)) => s_bvalid

(* The registers an operation has programmed so far.                       *)
Programmed ==
  /\ call.stage = "config" =>
       /\ mem = expects /\ call.op = "run"
       /\ call.at > 1 => key_reg = call.arg.key
       /\ call.at > 2 => dma_iv_reg = call.arg.iv
       /\ call.at > 3 => src_addr_reg = call.arg.src
       /\ call.at > 4 => dst_addr_reg = call.arg.dst
       /\ call.at > 5 => len_reg = call.arg.len % 2^LenBits

(* What the bench knows by heart, block after block: f is that, up to      *)
(* block k, of an operation r on the memory e.                             *)
NextBlock(r, known, n) ==
  LET t == [mode |-> r.mode, encdec |-> r.encdec, key |-> r.key,
            data |-> Block_(known.m, r.src + Beats * (n - 1)), iv |-> known.iv]
  IN  [m |-> Put(known.m, r.dst + Beats * (n - 1), ModeOut(t)), iv |-> ModeNextIv(t)]
KnownTo(e, f, r, k) ==
  /\ f[0] = [m |-> e, iv |-> r.iv]
  /\ \A n \in 1 .. k : f[n] = NextBlock(r, f[n - 1], n)
(* There is such an f, and every one ends in x.                            *)
KnownIs(e, r, k, x) ==
  /\ \E f : KnownTo(e, f, r, k) /\ f[k] = x
  /\ \A f : KnownTo(e, f, r, k) => f[k] = x

BlocksDone == call.arg.len - SeenLeft
Seen_ == [m |-> SeenMem, iv |-> SeenIv]
InRun ==
  call.stage \in {"poll", "clear"} =>
    /\ call.arg \in Runs /\ call.op = "run" /\ key_reg = call.arg.key
    /\ SeenLeft \in 0 .. call.arg.len
    /\ SeenJob = [mode |-> call.arg.mode, decrypt |-> call.arg.encdec,
                  src |-> WordIdx(call.arg.src + Beats * BlocksDone),
                  dst |-> WordIdx(call.arg.dst + Beats * BlocksDone)]
    /\ KnownIs(expects, call.arg, BlocksDone, Seen_)

(* What the checks of the benches rest on: the parts above, inductive      *)
(* together.                                                               *)
ChecksIInv ==
  /\ BenchIInv /\ top \in Tops /\ CallOrder /\ Waits /\ PortFree /\ Writing /\ Reading
  /\ Judged /\ NotTaken /\ Programmed /\ InRun

(* Words of a burst are at places of their own.                            *)
LEMMA OwnPlaces ==
  ASSUME NEW a \in Nat, NEW i \in 1 .. Beats, NEW j \in 1 .. Beats,
         WordIdx(a + i - 1) = WordIdx(a + j - 1)
  PROVE  i = j
<1>. DEFINE s == SizeWords  x == a + i - 1  y == a + j - 1
<1>1. s \in Nat \ {0} /\ Beats \in Nat /\ Beats <= s /\ i \in Nat /\ j \in Nat /\ x \in Nat /\ y \in Nat
  BY RamAssumption, BenchAssumption, DmaAssumption
<1>2. x % s = y % s
  BY DEF WordIdx
<1>. DEFINE p == x \div s  q == y \div s
<1>3. p \in Nat /\ x = (s * p) + (x % s) /\ q \in Nat /\ y = (s * q) + (y % s)
      /\ x % s \in 0 .. s - 1 /\ y % s \in 0 .. s - 1
  BY <1>1
<1>4. x - y = i - j /\ x - y < s /\ y - x < s
  BY <1>1
<1>. HIDE DEF p, q, x, y, s
<1>5. x - y = (s * p) - (s * q)
  BY <1>1, <1>2, <1>3
<1>6. ASSUME p > q PROVE FALSE
  <2>1. PICK d \in Nat : p = q + 1 + d
    <3>1. p - q - 1 \in Nat /\ p = q + 1 + (p - q - 1)
      BY <1>3, <1>6
    <3>. QED BY <3>1
  <2>2. s * p = (s * q) + s + (s * d) /\ s * d \in Nat
    BY <1>1, <1>3, <2>1
  <2>. QED BY <1>1, <1>3, <1>4, <1>5, <2>2
<1>7. ASSUME q > p PROVE FALSE
  <2>1. PICK d \in Nat : q = p + 1 + d
    <3>1. q - p - 1 \in Nat /\ q = p + 1 + (q - p - 1)
      BY <1>3, <1>7
    <3>. QED BY <3>1
  <2>2. s * q = (s * p) + s + (s * d) /\ s * d \in Nat
    BY <1>1, <1>3, <2>1
  <2>. QED BY <1>1, <1>3, <1>4, <1>5, <2>2
<1>8. p = q
  BY <1>3, <1>6, <1>7
<1>9. x - y = 0
  BY <1>1, <1>3, <1>5, <1>8
<1>. QED BY <1>1, <1>4, <1>9

(* The port of the memory during a burst of a bench: what the helper       *)
(* drives, and what it is shown.                                           *)
LEMMA TestPortWrites ==
  ASSUME Low, NEW p, NEW w, Clock(p, w)
  PROVE  /\ WIdleEdge(p.awvalid, p.awaddr) \/ WBurstEdge(p.wvalid, p.wdata, p.wlast)
         /\ use_test_port_w(p) => BEdge(p.wvalid, p.wlast, p.bready)
         /\ ~use_test_port_w(p) /\ s_bvalid => s_bvalid'
<1>1. CASE use_test_port_w(p)
  BY <1>1 DEF Clock, RamEdge
<1>2. CASE ~use_test_port_w(p)
  <2>1. WIdleEdge(m_awvalid, m_awaddr) \/ WBurstEdge(m_wvalid, m_wdata, m_wlast)
    BY <1>2 DEF Clock, RamEdge
  <2>2. BEdge(m_wvalid, m_wlast, m_bready)
    BY <1>2 DEF Clock, RamEdge
  <2>3. ~p.awvalid /\ ~p.wvalid /\ ~m_awvalid /\ ~m_wvalid /\ ~m_bready
    BY <1>2 DEF use_test_port_w, Low
  <2>4. WIdleEdge(p.awvalid, p.awaddr) \/ WBurstEdge(p.wvalid, p.wdata, p.wlast)
    BY <2>1, <2>3 DEF WIdleEdge, WBurstEdge
  <2>. QED BY <1>2, <2>2, <2>3, <2>4 DEF BEdge
<1>. QED BY <1>1, <1>2

LEMMA TestPortReads ==
  ASSUME Low, NEW p, NEW w, Clock(p, w)
  PROVE  RIdleEdge(p.arvalid, p.araddr, p.arlen) \/ RBurstEdge(p.rready)
<1>1. CASE use_test_port_r(p)
  BY <1>1 DEF Clock, RamEdge
<1>2. CASE ~use_test_port_r(p)
  <2>1. RIdleEdge(m_arvalid, m_araddr, Beats - 1) \/ RBurstEdge(m_rready)
    BY <1>2 DEF Clock, RamEdge
  <2>2. ~p.arvalid /\ ~p.rready /\ ~m_arvalid /\ ~m_rready
    BY <1>2 DEF use_test_port_r, Low
  <2>. QED BY <2>1, <2>2 DEF RIdleEdge, RBurstEdge
<1>. QED BY <1>1, <1>2

LEMMA TestPortShows ==
  ASSUME NEW p, NEW w, Clock(p, w)
  PROVE  /\ seen'.awready <=> use_test_port_w(p) /\ w_state' = "IDLE"
         /\ seen'.wready <=> use_test_port_w(p) /\ w_state' = "BURST"
         /\ seen'.bvalid <=> use_test_port_w(p) /\ s_bvalid'
         /\ seen'.arready <=> use_test_port_r(p) /\ r_state' = "IDLE"
         /\ seen'.rvalid <=> use_test_port_r(p) /\ s_rvalid'
BY DEF Clock

(* The engine stays at rest and leaves the port alone.                     *)
LEMMA LowKept ==
  ASSUME Low, state = "IDLE", NEW p, NEW w, ~do_start(w), Clock(p, w)
  PROVE  Low' /\ state' = "IDLE"
BY DEF Clock, EngineEdge, Idle, RdAddr, RdData, AesGo, AesWait, WrAddr, WrData, WrResp, Done,
       Low, axiVars

(* A write burst: the address, waited for as the port shows it.            *)
LEMMA AwChecks == ASSUME ChecksIInv, AwLoop, UNCHANGED <<top, calls>> PROVE ChecksIInv'
<1>. DEFINE p == [Port EXCEPT !.awvalid = TRUE, !.awaddr = call.addr]
<1>1. BenchIInv'
  BY AwKeeps DEF ChecksIInv
<1>2. /\ call.stage = "aw" /\ Low /\ state = "IDLE" /\ mem = expects /\ call.at = 1
      /\ w_state \in {"IDLE", "BURST"} /\ (w_state = "BURST" => w_word_idx = WordIdx(call.addr))
      /\ call.op = "write" /\ r_state = "IDLE" /\ Len(call.words) <= Beats
      /\ call.strobes \in [1 .. Len(call.words) -> BOOLEAN] /\ call.addr \in Nat
      /\ Shown(seen.awready) /\ (top = "dma_ram" => call.spin = 0) /\ top \in Tops
      /\ top # "dma_ram" => calls = 1
  <2>1. call.stage = "aw"
    BY DEF AwLoop
  <2>2. call.addr \in Nat /\ w_state \in {"IDLE", "BURST"} /\ state = "IDLE"
    BY <2>1, IndexIsNat DEF ChecksIInv, BenchIInv, CallTypeOK, Calls, RamTypeOK, EngineRests
  <2>. QED BY <2>1, <2>2 DEF ChecksIInv, PortFree, BurstStage, Writing, Waits, CallOrder
<1>3. Clock(p, NoWrite) /\ expects' = expects
  BY DEF AwLoop, Loop
<1>4. /\ p.awvalid /\ p.awaddr = call.addr /\ ~p.wvalid /\ ~p.arvalid
  BY DEF Port
<1>. HIDE DEF p
<1>5. w_state' = "BURST" /\ w_word_idx' = WordIdx(call.addr) /\ mem' = mem
  BY <1>2, <1>3, <1>4, TestPortWrites DEF WIdleEdge, WBurstEdge
<1>6. r_state' = "IDLE" /\ ~s_rvalid'
  BY <1>2, <1>3, <1>4, TestPortReads DEF RIdleEdge, RBurstEdge
<1>7. Low' /\ state' = "IDLE"
  BY <1>2, <1>3, LowKept, NoWriteIsOK
<1>8. seen'.wready /\ ~seen'.awready
  BY <1>3, <1>4, <1>5, TestPortShows DEF use_test_port_w
<1>9. /\ call'.at = 1 /\ call'.op = "write" /\ UNCHANGED <<call.words, call.strobes, call.addr>>
      /\ \/ call'.stage = "w" /\ call'.spun = IF top = "dma_ram" THEN 0 ELSE SpinLimit
         \/ call'.stage = "aw" /\ top # "dma_ram"
  <2>1. call \in Calls(Seq(Word), Seq(BOOLEAN), Runs \union {<<>>})
    BY DEF ChecksIInv, BenchIInv, CallTypeOK
  <2>2. CASE Leaves(seen.awready)
    <3>1. call' = [call EXCEPT !.stage = "w", !.spun = call.spin, !.spin = 0]
      BY <2>2 DEF AwLoop, Loop
    <3>2. call.spin = IF top = "dma_ram" THEN 0 ELSE SpinLimit
      BY <1>2, <2>2 DEF Leaves, Shown
    <3>. QED BY <1>2, <2>1, <3>1, <3>2 DEF Calls
  <2>3. CASE ~Leaves(seen.awready)
    <3>1. call' = [call EXCEPT !.spin = @ + 1]
      BY <2>3 DEF AwLoop, Loop
    <3>. QED BY <1>2, <2>1, <2>3, <3>1 DEF Calls, Leaves, Shown
  <2>. QED BY <2>2, <2>3
<1>10. top' \in Tops /\ CallOrder' /\ Waits' /\ PortFree'
  BY <1>2, <1>7, <1>8, <1>9 DEF CallOrder, Waits, PortFree, Shown, BurstStage
<1>11. Writing'
  <2>1. InMemory(mem', expects', call', call'.at - 1)
    <3>1. ASSUME NEW n \in Index PROVE Strobes(call', call'.at - 1, n) = {}
      BY <1>9 DEF Strobes
    <3>. QED BY <1>2, <1>3, <1>5, <3>1 DEF InMemory
  <2>. QED BY <1>2, <1>3, <1>5, <1>6, <1>8, <1>9, <2>1 DEF Writing
<1>12. Reading' /\ Judged' /\ NotTaken' /\ Programmed' /\ InRun'
  BY <1>9 DEF Reading, Judged, NotTaken, Programmed, InRun
<1>. QED BY <1>1, <1>10, <1>11, <1>12 DEF ChecksIInv

(* One more word, at a place of its own.                                   *)
LEMMA WordStored ==
  ASSUME NEW m \in [Index -> Word], NEW m1, NEW e, NEW c, NEW k \in 1 .. Beats, c.addr \in Nat,
         InMemory(m, e, c, k - 1), c.strobes[k] \in BOOLEAN,
         Updated(m1, m, WordIdx(c.addr + k - 1),
                 IF c.strobes[k] THEN c.words[k] ELSE m[WordIdx(c.addr + k - 1)])
  PROVE  InMemory(m1, e, c, k)
<1>. DEFINE idx == WordIdx(c.addr + k - 1)
<1>1. Beats \in Nat /\ k \in Nat /\ k - 1 \in Nat
  BY DmaAssumption
<1>2. idx \in Index
  <2>1. c.addr + k - 1 \in Nat
    BY <1>1
  <2>. QED BY <2>1, WordIdxType
<1>3. \A n \in Index : m1[n] = IF n = idx /\ c.strobes[k] THEN c.words[k] ELSE m[n]
  BY DEF Updated
<1>. HIDE DEF idx
<1>. SUFFICES ASSUME NEW n \in Index
              PROVE  /\ \A i \in Strobes(c, k, n) : m1[n] = c.words[i]
                     /\ Strobes(c, k, n) = {} => m1[n] = e[n]
  BY DEF InMemory
<1>4. /\ \A i \in Strobes(c, k - 1, n) : m[n] = c.words[i]
      /\ Strobes(c, k - 1, n) = {} => m[n] = e[n]
  BY DEF InMemory
<1>5. \A i \in 1 .. k - 1 : i \in Strobes(c, k - 1, n) <=> i \in Strobes(c, k, n)
  BY <1>1 DEF Strobes
<1>6. k \in Strobes(c, k, n) <=> n = idx /\ c.strobes[k]
  BY <1>1 DEF Strobes, idx
<1>7. ASSUME NEW i \in Strobes(c, k, n) PROVE m1[n] = c.words[i]
  <2>1. i \in 1 .. k /\ i \in Nat
    BY DEF Strobes
  <2>2. CASE i = k
    BY <1>3, <1>6, <1>7, <2>2
  <2>3. CASE i # k
    <3>1. i \in 1 .. k - 1 /\ i \in Strobes(c, k - 1, n)
      BY <1>1, <1>5, <2>1, <2>3
    <3>2. n # idx
      <4>1. WordIdx(c.addr + i - 1) = n /\ i \in 1 .. Beats
        BY <1>1, <2>1 DEF Strobes
      <4>. QED BY <2>3, <4>1, OwnPlaces DEF idx
    <3>. QED BY <1>3, <1>4, <3>1, <3>2
  <2>. QED BY <2>2, <2>3
<1>8. ASSUME Strobes(c, k, n) = {} PROVE m1[n] = e[n]
  <2>1. Strobes(c, k - 1, n) = {}
    <3>1. \A i \in Strobes(c, k - 1, n) : i \in 1 .. k - 1
      BY DEF Strobes
    <3>. QED BY <1>5, <1>8, <3>1
  <2>. QED BY <1>3, <1>4, <1>6, <1>8, <2>1
<1>. QED BY <1>7, <1>8

LEMMA WChecks == ASSUME ChecksIInv, WLoop, UNCHANGED <<top, calls>> PROVE ChecksIInv'
<1>. DEFINE last == call.at = Len(call.words)
            new == Strobed(mem[w_word_idx])
            p == [Port EXCEPT !.wvalid = TRUE, !.wdata = new, !.wlast = last]
<1>1. BenchIInv'
  BY WKeeps DEF ChecksIInv
<1>2. /\ call.stage = "w" /\ call \in Calls(Seq(Word), Seq(BOOLEAN), Runs \union {<<>>})
      /\ call.at \in 1 .. Len(call.words) /\ call.words \in Seq(Word) /\ call.addr \in Nat
      /\ state = "IDLE" /\ mem \in [Index -> Word]
  <2>1. call.stage = "w"
    BY DEF WLoop
  <2>. QED BY <2>1, IndexIsNat
       DEF ChecksIInv, BenchIInv, CallTypeOK, Calls, RamTypeOK, EngineRests, CallsInStep
<1>3. /\ Low /\ w_state = "BURST" /\ w_word_idx = WordIdx(call.addr + call.at - 1)
      /\ seen.wready /\ InMemory(mem, expects, call, call.at - 1)
      /\ call.op = "write" /\ r_state = "IDLE" /\ Len(call.words) <= Beats
      /\ call.strobes \in [1 .. Len(call.words) -> BOOLEAN] /\ top \in Tops
      /\ top # "dma_ram" => calls = 1
      /\ call.spun = IF top = "dma_ram" THEN 0 ELSE SpinLimit
  BY <1>2 DEF ChecksIInv, PortFree, BurstStage, Writing, Waits, CallOrder
<1>4. Clock(p, NoWrite) /\ expects' = expects
  BY DEF WLoop, Loop
<1>5. p.wvalid /\ p.wdata = new /\ (p.wlast <=> last) /\ ~p.bready /\ ~p.arvalid
  BY DEF Port
<1>6. call' = [call EXCEPT !.stage = IF last THEN "b" ELSE "w", !.at = @ + 1, !.spin = 0]
  BY <1>3 DEF WLoop, Loop, Leaves
<1>7. /\ call'.stage = (IF last THEN "b" ELSE "w") /\ call'.at = call.at + 1
      /\ UNCHANGED <<call.words, call.strobes, call.addr, call.op, call.spun>>
  BY <1>2, <1>6 DEF Calls
<1>. DEFINE k == call.at  idx == WordIdx(call.addr + call.at - 1)
<1>8. k \in 1 .. Beats /\ k \in 1 .. Len(call.words) /\ k \in Nat /\ call.addr + k - 1 \in Nat
  BY <1>2, <1>3, DmaAssumption
<1>9. /\ mem' = [mem EXCEPT ![idx] = new] /\ w_word_idx' = WordIdx(idx + 1)
      /\ w_state' = (IF last THEN "IDLE" ELSE "BURST") /\ (last => s_bvalid')
  <2>. HIDE DEF p, new, last, idx
  <2>1. use_test_port_w(p)
    BY <1>5 DEF use_test_port_w
  <2>2. WBurstEdge(p.wvalid, p.wdata, p.wlast) /\ BEdge(p.wvalid, p.wlast, p.bready)
    BY <1>3, <1>4, <2>1, TestPortWrites DEF WIdleEdge
  <2>. QED BY <1>3, <1>5, <2>2 DEF WBurstEdge, BEdge, idx
<1>10. w_word_idx' = WordIdx(call.addr + k)
  <2>1. WordIdx(idx + 1) = WordIdx((call.addr + k - 1) + 1)
    BY <1>8, NextIndex
  <2>2. (call.addr + k - 1) + 1 = call.addr + k
    BY <1>2, <1>8
  <2>. QED BY <1>9, <2>1, <2>2
<1>. HIDE DEF p, last
<1>11. InMemory(mem', expects', call', k)
  <2>1. new = IF call.strobes[k] THEN call.words[k] ELSE mem[idx]
    BY <1>3 DEF Strobed
  <2>2. Updated(mem', mem, idx, IF call.strobes[k] THEN call.words[k] ELSE mem[idx])
    BY <1>9, <2>1 DEF Updated
  <2>3. call.strobes[k] \in BOOLEAN
    BY <1>3, <1>8
  <2>4. InMemory(mem', expects, call, k)
    BY <1>2, <1>3, <1>8, <2>2, <2>3, WordStored
  <2>. QED BY <1>4, <1>7, <2>4 DEF InMemory, Strobes
<1>12. r_state' = "IDLE" /\ ~s_rvalid'
  BY <1>3, <1>4, <1>5, TestPortReads DEF RIdleEdge, RBurstEdge
<1>13. Low' /\ state' = "IDLE"
  BY <1>2, <1>3, <1>4, LowKept, NoWriteIsOK
<1>14. (~last => seen'.wready) /\ (last => seen'.bvalid)
  BY <1>4, <1>5, <1>9, TestPortShows DEF use_test_port_w
<1>15. top' \in Tops /\ CallOrder' /\ Waits' /\ PortFree'
  BY <1>3, <1>7, <1>13 DEF CallOrder, Waits, PortFree, BurstStage
<1>16. Writing'
  <2>1. call'.at - 1 = k /\ call'.addr + call'.at - 1 = call.addr + k
    BY <1>2, <1>7, <1>8
  <2>2. last => Len(call'.words) = k
    BY <1>7 DEF last
  <2>. HIDE DEF k, idx, new
  <2>3. CASE last
    BY <1>3, <1>7, <1>9, <1>11, <1>12, <1>14, <2>2, <2>3 DEF Writing
  <2>4. CASE ~last
    BY <1>3, <1>7, <1>9, <1>10, <1>11, <1>12, <1>14, <2>1, <2>4 DEF Writing
  <2>. QED BY <2>3, <2>4
<1>17. Reading' /\ Judged' /\ NotTaken' /\ Programmed' /\ InRun'
  BY <1>7, <1>9 DEF Reading, Judged, NotTaken, Programmed, InRun
<1>. QED BY <1>1, <1>15, <1>16, <1>17 DEF ChecksIInv

LEMMA BChecks == ASSUME ChecksIInv, BLoop, UNCHANGED <<top, calls>> PROVE ChecksIInv'
<1>. DEFINE p == [Port EXCEPT !.bready = TRUE]
<1>1. BenchIInv'
  BY BKeeps DEF ChecksIInv
<1>2. /\ call.stage = "b" /\ call \in Calls(Seq(Word), Seq(BOOLEAN), Runs \union {<<>>})
      /\ state = "IDLE" /\ mem \in [Index -> Word]
  <2>1. call.stage = "b"
    BY DEF BLoop
  <2>. QED BY <2>1 DEF ChecksIInv, BenchIInv, CallTypeOK, Calls, RamTypeOK, EngineRests
<1>3. /\ Low /\ w_state = "IDLE" /\ s_bvalid /\ seen.bvalid
      /\ InMemory(mem, expects, call, Len(call.words))
      /\ call.op = "write" /\ r_state = "IDLE" /\ top \in Tops /\ (top # "dma_ram" => calls = 1)
  BY <1>2 DEF ChecksIInv, PortFree, BurstStage, Writing, CallOrder
<1>4. Clock(p, NoWrite)
  BY DEF BLoop
<1>5. ~p.awvalid /\ ~p.wvalid /\ ~p.arvalid /\ ~p.rready
  BY DEF Port
<1>. HIDE DEF p
<1>6. call'.stage = "judge" /\ call'.op = "write" /\ call'.ok
  <2>1. call' = [call EXCEPT !.stage = "judge", !.ok = seen.bvalid]
    BY <1>3 DEF BLoop, Leaves
  <2>. QED BY <1>2, <1>3, <2>1 DEF Calls
<1>7. w_state' = "IDLE" /\ mem' = mem
  BY <1>3, <1>4, <1>5, TestPortWrites DEF WIdleEdge, WBurstEdge
<1>8. r_state' = "IDLE" /\ ~s_rvalid'
  BY <1>3, <1>4, <1>5, TestPortReads DEF RIdleEdge, RBurstEdge
<1>9. Low' /\ state' = "IDLE"
  BY <1>2, <1>3, <1>4, LowKept, NoWriteIsOK
<1>10. top # "dma_ram" => s_bvalid'
  BY <1>3, <1>4, <1>5, TestPortWrites DEF use_test_port_w
<1>11. (seen'.awready <=> top = "dma_ram") /\ (seen'.arready <=> top = "dma_ram")
  BY <1>4, <1>5, <1>7, <1>8, TestPortShows DEF use_test_port_w, use_test_port_r
<1>12. mem' = expects'
  <2>1. expects' = [n \in Index |->
                      IF Strobes(call, Len(call.words), n) = {} THEN expects[n]
                      ELSE call.words[CHOOSE i \in Strobes(call, Len(call.words), n) : TRUE]]
    BY <1>3 DEF BLoop, Leaves, Strobes
  <2>2. ASSUME NEW n \in Index PROVE expects'[n] = mem[n]
    <3>. DEFINE at == Strobes(call, Len(call.words), n)
    <3>1. expects'[n] = IF at = {} THEN expects[n] ELSE call.words[CHOOSE i \in at : TRUE]
      BY <2>1
    <3>2. (\A i \in at : mem[n] = call.words[i]) /\ (at = {} => mem[n] = expects[n])
      BY <1>3 DEF InMemory
    <3>. HIDE DEF at
    <3>3. at # {} => (CHOOSE i \in at : TRUE) \in at
      OBVIOUS
    <3>. QED BY <3>1, <3>2, <3>3
  <2>. QED BY <1>2, <1>7, <2>1, <2>2
<1>13. top' \in Tops /\ CallOrder' /\ Waits'
  BY <1>3, <1>6, <1>11 DEF CallOrder, Waits, Shown
<1>14. PortFree'
  BY <1>6, <1>7, <1>8, <1>9 DEF PortFree, BurstStage, Low, WriteStep, ReadStep, SourceRead
<1>15. Judged' /\ NotTaken'
  BY <1>3, <1>6, <1>10, <1>12 DEF Judged, NotTaken
<1>16. Writing' /\ Reading' /\ Programmed' /\ InRun'
  BY <1>6 DEF Writing, Reading, Programmed, InRun
<1>. QED BY <1>1, <1>13, <1>14, <1>15, <1>16 DEF ChecksIInv

(* A read burst.                                                           *)
LEMMA ArChecks == ASSUME ChecksIInv, ArLoop, UNCHANGED <<top, calls>> PROVE ChecksIInv'
<1>. DEFINE p == [Port EXCEPT !.arvalid = TRUE, !.araddr = call.addr, !.arlen = call.at - 1]
<1>1. BenchIInv'
  BY ArKeeps DEF ChecksIInv
<1>2. /\ call.stage = "ar" /\ call \in Calls(Seq(Word), Seq(BOOLEAN), Runs \union {<<>>})
      /\ call.addr \in Nat /\ state = "IDLE" /\ RamTypeOK(Beats)
  <2>1. call.stage = "ar"
    BY DEF ArLoop
  <2>. QED BY <2>1, IndexIsNat
       DEF ChecksIInv, BenchIInv, CallTypeOK, Calls, EngineRests
<1>3. /\ Low /\ call.op = "read" /\ mem = expects /\ w_state = "IDLE" /\ call.at \in 1 .. Beats
      /\ call.out = << >> /\ (top = "dma_ram" \/ call.at # 1) /\ top \in Tops
      /\ \/ r_state = "IDLE" /\ ~s_rvalid
         \/ top # "dma_ram" /\ r_state = "BURST" /\ Collecting
      /\ Shown(seen.arready) /\ (top = "dma_ram" => call.spin = 0) /\ (top # "dma_ram" => calls = 3)
  BY <1>2 DEF ChecksIInv, PortFree, BurstStage, Reading, Waits, CallOrder
<1>4. Clock(p, NoWrite) /\ expects' = expects
  BY DEF ArLoop, Loop
<1>5. ~p.awvalid /\ ~p.wvalid /\ p.arvalid /\ p.araddr = call.addr /\ p.arlen = call.at - 1 /\ ~p.rready
  BY DEF Port
<1>. HIDE DEF p
<1>6. w_state' = "IDLE" /\ mem' = mem
  BY <1>3, <1>4, <1>5, TestPortWrites DEF WIdleEdge, WBurstEdge
<1>7. Low' /\ state' = "IDLE"
  BY <1>2, <1>3, <1>4, LowKept, NoWriteIsOK
<1>8. /\ UNCHANGED <<call.at, call.op, call.addr, call.out>>
      /\ \/ /\ call'.stage = "r" /\ call'.spin = 0
            /\ call'.spun = IF top = "dma_ram" THEN 0 ELSE SpinLimit
         \/ call'.stage = "ar" /\ top # "dma_ram"
  <2>1. CASE Leaves(seen.arready)
    <3>1. call' = [call EXCEPT !.stage = "r", !.spun = call.spin, !.spin = 0]
      BY <2>1 DEF ArLoop, Loop
    <3>2. call.spin = IF top = "dma_ram" THEN 0 ELSE SpinLimit
      BY <1>3, <2>1 DEF Leaves, Shown
    <3>. QED BY <1>2, <3>1, <3>2 DEF Calls
  <2>2. CASE ~Leaves(seen.arready)
    <3>1. call' = [call EXCEPT !.spin = @ + 1]
      BY <2>2 DEF ArLoop, Loop
    <3>. QED BY <1>2, <1>3, <2>2, <3>1 DEF Calls, Leaves, Shown
  <2>. QED BY <2>1, <2>2
<1>9. (seen'.rvalid <=> s_rvalid') /\ (seen'.arready <=> r_state' = "IDLE") /\ seen'.rvalid \in BOOLEAN
  <2>1. (seen'.rvalid <=> s_rvalid') /\ (seen'.arready <=> r_state' = "IDLE")
    BY <1>4, <1>5, TestPortShows DEF use_test_port_r
  <2>. QED BY <1>1, <2>1 DEF BenchIInv, SeenTypeOK
<1>10. /\ call.at \in Nat /\ call.at >= 1 /\ r_beats_left \in Nat /\ r_state \in {"IDLE", "BURST"}
       /\ s_rvalid \in BOOLEAN /\ Len(call'.out) = 0
  BY <1>2, <1>3, <1>8, DmaAssumption DEF RamTypeOK
<1>11. r_state' = "BURST" /\ Collecting'
  <2>1. CASE r_state = "IDLE" /\ ~s_rvalid
    <3>1. /\ r_state' = "BURST" /\ s_rvalid' = FALSE /\ r_word_idx' = WordIdx(call.addr)
          /\ r_beats_left' = call.at - 1
      BY <1>4, <1>5, <2>1, <1>3, TestPortReads DEF RIdleEdge, RBurstEdge
    <3>2. Issued' = 0 /\ call.addr + 0 = call.addr
      BY <1>2, <1>8, <1>10, <3>1 DEF Issued
    <3>. QED BY <1>3, <1>8, <1>9, <1>10, <3>1, <3>2 DEF Collecting
  <2>2. CASE r_state = "BURST" /\ Collecting /\ top # "dma_ram"
    <3>1. RBurstEdge(p.rready)
      BY <1>3, <1>4, <2>2, TestPortReads DEF RIdleEdge
    <3>2. CASE s_rvalid
      <4>1. UNCHANGED <<s_rdata, s_rlast, s_rvalid, r_state, r_word_idx, r_beats_left>>
        BY <1>5, <3>1, <3>2 DEF RBurstEdge
      <4>2. Issued' = Issued
        BY <1>8, <4>1 DEF Issued
      <4>. QED BY <1>6, <1>8, <1>9, <2>2, <4>1, <4>2 DEF Collecting
    <3>3. CASE ~s_rvalid
      <4>1. Issued = 0 /\ Issued = call.at - 1 - r_beats_left /\ r_word_idx = WordIdx(call.addr + Issued)
        BY <1>3, <1>10, <2>2, <3>3 DEF Collecting, Issued
      <4>2. r_beats_left = call.at - 1 /\ r_beats_left # 0 /\ call.addr + 0 = call.addr
        BY <1>2, <1>3, <1>10, <2>2, <4>1
      <4>3. /\ s_rvalid' = TRUE /\ s_rdata' = mem[r_word_idx] /\ s_rlast' = FALSE
            /\ r_word_idx' = WordIdx(r_word_idx + 1) /\ r_beats_left' = r_beats_left - 1
            /\ r_state' = "BURST"
        BY <2>2, <3>1, <3>3, <4>2 DEF RBurstEdge
      <4>4. Issued' = 1
        BY <1>8, <1>10, <4>2, <4>3 DEF Issued
      <4>5. r_word_idx' = WordIdx(call.addr + 1)
        BY <1>2, <4>1, <4>2, <4>3, NextIndex
      <4>. QED BY <1>3, <1>6, <1>8, <1>9, <1>10, <4>1, <4>2, <4>3, <4>4, <4>5 DEF Collecting
    <3>. QED BY <3>2, <3>3
  <2>. QED BY <1>3, <2>1, <2>2
<1>12. Reading'
  <2>1. Issued' \in Nat
    BY <1>11 DEF Collecting
  <2>. QED BY <1>3, <1>4, <1>6, <1>8, <1>11, <2>1 DEF Reading
<1>13. top' \in Tops /\ CallOrder' /\ Waits' /\ PortFree'
  BY <1>3, <1>7, <1>8, <1>9, <1>11 DEF CallOrder, Waits, PortFree, Shown, BurstStage
<1>14. Writing' /\ Judged' /\ NotTaken' /\ Programmed' /\ InRun'
  BY <1>8 DEF Writing, Judged, NotTaken, Programmed, InRun
<1>. QED BY <1>1, <1>12, <1>13, <1>14 DEF ChecksIInv

LEMMA RChecks == ASSUME ChecksIInv, RLoop, UNCHANGED <<top, calls>> PROVE ChecksIInv'
<1>. DEFINE p == [Port EXCEPT !.rready = TRUE]
            last_seen == seen.rvalid /\ s_rlast
            out == IF seen.rvalid THEN Append(call.out, s_rdata) ELSE call.out
            stage == IF last_seen \/ call.spin = 10 * SpinLimit THEN "judge" ELSE "r"
<1>1. BenchIInv'
  BY RKeeps DEF ChecksIInv
<1>2. /\ call.stage = "r" /\ call \in Calls(Seq(Word), Seq(BOOLEAN), Runs \union {<<>>})
      /\ call.addr \in Nat /\ call.out \in Seq(Word) /\ call.spin \in Nat
      /\ state = "IDLE" /\ RamTypeOK(Beats)
  <2>1. call.stage = "r"
    BY DEF RLoop
  <2>. QED BY <2>1, IndexIsNat
       DEF ChecksIInv, BenchIInv, CallTypeOK, Calls, EngineRests
<1>3. /\ Low /\ call.op = "read" /\ mem = expects /\ w_state = "IDLE" /\ call.at \in 1 .. Beats
      /\ Collecting /\ call.spin <= Issued /\ top \in Tops /\ (top # "dma_ram" => calls = 3)
      /\ call.spun = IF top = "dma_ram" THEN 0 ELSE SpinLimit
  BY <1>2 DEF ChecksIInv, PortFree, BurstStage, Reading, Waits, CallOrder
<1>4. Clock(p, NoWrite) /\ expects' = expects
  BY DEF RLoop
<1>5. ~p.awvalid /\ ~p.wvalid /\ ~p.arvalid /\ p.rready
  BY DEF Port
<1>6. call' = [call EXCEPT !.out = out, !.spin = call.spin + 1, !.ok = last_seen, !.stage = stage]
  BY DEF RLoop
<1>. HIDE DEF p, last_seen, out, stage
<1>7. /\ call'.out = out /\ call'.spin = call.spin + 1 /\ call'.ok = last_seen
      /\ call'.stage = stage /\ UNCHANGED <<call.at, call.op, call.addr, call.spun>>
  BY <1>2, <1>6 DEF Calls
<1>8. w_state' = "IDLE" /\ mem' = mem
  BY <1>3, <1>4, <1>5, TestPortWrites DEF WIdleEdge, WBurstEdge
<1>9. Low' /\ state' = "IDLE"
  BY <1>2, <1>3, <1>4, LowKept, NoWriteIsOK
<1>10. /\ seen'.rvalid <=> s_rvalid'
       /\ seen'.arready <=> r_state' = "IDLE"
       /\ top = "dma_ram" => seen'.awready
  BY <1>4, <1>5, <1>8, TestPortShows DEF use_test_port_r, use_test_port_w
<1>11. /\ call.at \in Nat /\ call.at >= 1 /\ call.at <= Beats /\ Beats \in Nat
       /\ r_beats_left \in Nat /\ r_state \in {"IDLE", "BURST"}
       /\ s_rvalid \in BOOLEAN /\ s_rlast \in BOOLEAN /\ s_rdata \in Word
       /\ Beats <= 10 * SpinLimit /\ SpinLimit \in Nat
  BY <1>2, <1>3, DmaAssumption, BenchAssumption DEF RamTypeOK
<1>. DEFINE c == Len(call.out)
<1>12. /\ c \in Nat /\ (seen.rvalid <=> s_rvalid)
       /\ \A i \in 1 .. c : call.out[i] = mem[WordIdx(call.addr + i - 1)]
       /\ s_rvalid => s_rdata = mem[WordIdx(call.addr + c)]
       /\ c + (IF s_rvalid THEN 1 ELSE 0) = Issued
  <2>1. c \in Nat
    BY <1>2
  <2>2. /\ (seen.rvalid <=> s_rvalid)
        /\ s_rvalid => s_rdata = mem[WordIdx(call.addr + c)]
        /\ c + (IF s_rvalid THEN 1 ELSE 0) = Issued
    BY <1>3 DEF Collecting
  <2>3. \A i \in 1 .. c : call.out[i] = mem[WordIdx(call.addr + i - 1)]
    BY <1>3 DEF Collecting
  <2>. QED BY <2>1, <2>2, <2>3
<1>13. /\ Len(out) = Issued /\ Issued \in Nat
       /\ \A i \in 1 .. Issued : out[i] = mem[WordIdx(call.addr + i - 1)]
  <2>1. CASE s_rvalid
    <3>1. Len(out) = c + 1 /\ \A i \in 1 .. c + 1 : out[i] = IF i = c + 1 THEN s_rdata ELSE call.out[i]
      BY <1>2, <1>11, <1>12, <2>1 DEF out
    <3>2. Issued = c + 1 /\ call.addr + c = call.addr + (c + 1) - 1
      BY <1>2, <1>12, <2>1
    <3>3. ASSUME NEW i \in 1 .. c + 1 PROVE out[i] = mem[WordIdx(call.addr + i - 1)]
      <4>1. i = c + 1 \/ i \in 1 .. c
        BY <1>12
      <4>. HIDE DEF c
      <4>. QED BY <1>12, <2>1, <3>1, <3>2, <4>1
    <3>. QED BY <1>12, <3>1, <3>2, <3>3
  <2>2. CASE ~s_rvalid
    <3>1. out = call.out /\ Issued = c
      BY <1>12, <2>2 DEF out
    <3>. QED BY <1>12, <3>1
  <2>. QED BY <1>11, <2>1, <2>2
<1>. HIDE DEF c
<1>14. CASE r_state = "BURST"
  <2>1. /\ Issued = call.at - 1 - r_beats_left /\ r_word_idx = WordIdx(call.addr + Issued)
        /\ (s_rvalid => ~s_rlast)
    BY <1>3, <1>14 DEF Collecting, Issued
  <2>2. stage = "r"
    <3>1. call.spin # 10 * SpinLimit
      BY <1>2, <1>3, <1>11, <1>13, <2>1
    <3>2. ~last_seen
      BY <1>12, <2>1 DEF last_seen
    <3>. QED BY <3>1, <3>2 DEF stage
  <2>3. RBurstEdge(p.rready)
    BY <1>4, <1>14, <1>3, TestPortReads DEF RIdleEdge
  <2>4. s_rvalid' = TRUE /\ s_rdata' = mem[r_word_idx] /\ s_rlast' = (r_beats_left = 0)
    BY <1>5, <2>3 DEF RBurstEdge
  <2>5. /\ Len(call'.out) = Issued /\ Issued \in Nat
        /\ \A i \in 1 .. Issued : call'.out[i] = mem'[WordIdx(call'.addr + i - 1)]
        /\ s_rdata' = mem'[WordIdx(call'.addr + Issued)] /\ call'.addr = call.addr
    BY <1>7, <1>8, <1>13, <2>1, <2>4
  <2>6. Collecting' /\ Issued' = Issued + 1
    <3>1. CASE r_beats_left = 0
      <4>1. r_state' = "IDLE"
        BY <1>5, <2>3, <3>1 DEF RBurstEdge
      <4>2. Issued' = Issued + 1
        BY <1>7, <1>11, <2>1, <3>1, <4>1 DEF Issued
      <4>3. s_rvalid' /\ s_rlast' /\ (seen'.rvalid <=> s_rvalid')
        BY <1>10, <2>4, <3>1
      <4>. QED BY <2>5, <4>1, <4>2, <4>3 DEF Collecting
    <3>2. CASE r_beats_left # 0
      <4>1. /\ r_state' = "BURST" /\ r_beats_left' = r_beats_left - 1
            /\ r_word_idx' = WordIdx(r_word_idx + 1)
        BY <1>5, <1>14, <2>3, <3>2 DEF RBurstEdge
      <4>2. Issued' = Issued + 1
        BY <1>7, <1>11, <2>1, <4>1 DEF Issued
      <4>3. r_word_idx' = WordIdx(call.addr + Issued')
        <5>1. WordIdx(WordIdx(call.addr + Issued) + 1) = WordIdx(call.addr + Issued + 1)
          <6>1. call.addr + Issued \in Nat
            BY <1>2, <1>13
          <6>. QED BY <6>1, NextIndex
        <5>2. call.addr + Issued + 1 = call.addr + Issued'
          BY <1>2, <1>13, <4>2
        <5>. QED BY <2>1, <4>1, <5>1, <5>2
      <4>4. s_rvalid' /\ ~s_rlast' /\ (seen'.rvalid <=> s_rvalid') /\ Issued' \in Nat
        <5>1. ~s_rlast'
          <6>1. (r_beats_left = 0) = FALSE
            BY <3>2
          <6>. QED BY <2>4, <6>1
        <5>2. Issued' \in Nat
          BY <1>13, <4>2
        <5>. QED BY <1>10, <2>4, <5>1, <5>2
      <4>. QED BY <2>5, <4>1, <4>2, <4>3, <4>4 DEF Collecting
    <3>. QED BY <3>1, <3>2
  <2>7. call'.stage = "r" /\ call'.spin <= Issued'
    BY <1>2, <1>3, <1>7, <1>13, <2>2, <2>6
  <2>8. Reading'
    BY <1>3, <1>4, <1>7, <1>8, <2>6, <2>7 DEF Reading
  <2>9. top' \in Tops /\ CallOrder' /\ Waits' /\ PortFree'
    BY <1>3, <1>7, <1>9, <2>7 DEF CallOrder, Waits, PortFree, BurstStage
  <2>10. Writing' /\ Judged' /\ NotTaken' /\ Programmed' /\ InRun'
    BY <2>7 DEF Writing, Judged, NotTaken, Programmed, InRun
  <2>. QED BY <1>1, <2>8, <2>9, <2>10 DEF ChecksIInv
<1>15. CASE r_state = "IDLE"
  <2>1. s_rvalid /\ s_rlast /\ Issued = call.at
    BY <1>3, <1>15 DEF Collecting, Issued
  <2>2. last_seen /\ stage = "judge"
    BY <1>12, <2>1 DEF last_seen, stage
  <2>3. r_state' = "IDLE" /\ ~s_rvalid'
    BY <1>4, <1>5, <1>15, <1>3, TestPortReads DEF RIdleEdge, RBurstEdge
  <2>4. out = [i \in 1 .. call.at |-> expects[WordIdx(call.addr + i - 1)]]
    <3>1. out \in Seq(Word)
      BY <1>2, <1>11 DEF out
    <3>2. out = [i \in 1 .. call.at |-> out[i]]
      BY <1>13, <2>1, <3>1
    <3>. QED BY <1>3, <1>13, <2>1, <3>2
  <2>5. call'.stage = "judge" /\ call'.op = "read" /\ call'.ok
    BY <1>3, <1>7, <2>2
  <2>6. Judged'
    BY <1>3, <1>4, <1>7, <1>8, <2>4, <2>5 DEF Judged
  <2>7. top' \in Tops /\ CallOrder' /\ Waits' /\ NotTaken'
    BY <1>3, <1>10, <2>3, <2>5 DEF CallOrder, Waits, Shown, NotTaken
  <2>8. PortFree'
    BY <1>8, <1>9, <2>3, <2>5 DEF PortFree, BurstStage, Low, WriteStep, ReadStep, SourceRead
  <2>9. Writing' /\ Reading' /\ Programmed' /\ InRun'
    BY <2>5 DEF Writing, Reading, Programmed, InRun
  <2>. QED BY <1>1, <2>6, <2>7, <2>8, <2>9 DEF ChecksIInv
<1>. QED BY <1>11, <1>14, <1>15

-----------------------------------------------------------------------------
(* What the bench knows by heart, block after block. *)

LEMMA KnownStart ==
  ASSUME NEW e, NEW r PROVE KnownIs(e, r, 0, [m |-> e, iv |-> r.iv])
<1>. DEFINE x == [m |-> e, iv |-> r.iv]  f == [n \in {0} |-> x]
<1>1. f[0] = x
  OBVIOUS
<1>. HIDE DEF f
<1>2. KnownTo(e, f, r, 0)
  BY <1>1 DEF KnownTo
<1>3. ASSUME NEW g, KnownTo(e, g, r, 0) PROVE g[0] = x
  BY <1>3 DEF KnownTo
<1>. QED BY <1>1, <1>2, <1>3 DEF KnownIs

LEMMA KnownNext ==
  ASSUME NEW e, NEW r, NEW k \in Nat, NEW x, KnownIs(e, r, k, x)
  PROVE  KnownIs(e, r, k + 1, NextBlock(r, x, k + 1))
<1>. DEFINE y == NextBlock(r, x, k + 1)
<1>1. (k + 1) - 1 = k /\ k + 1 \in 1 .. k + 1 /\ \A n \in 1 .. k + 1 : n \in 1 .. k \/ n = k + 1
  OBVIOUS
<1>2. ASSUME NEW g, KnownTo(e, g, r, k + 1) PROVE g[k + 1] = y
  <2>1. KnownTo(e, g, r, k)
    BY <1>2 DEF KnownTo
  <2>2. g[k] = x
    BY <2>1 DEF KnownIs
  <2>3. g[k + 1] = NextBlock(r, g[(k + 1) - 1], k + 1)
    BY <1>1, <1>2 DEF KnownTo
  <2>. QED BY <1>1, <2>2, <2>3
<1>3. PICK f : KnownTo(e, f, r, k) /\ f[k] = x
  BY DEF KnownIs
<1>. DEFINE g == [n \in 0 .. k + 1 |-> IF n = k + 1 THEN y ELSE f[n]]
<1>. HIDE DEF y
<1>4. g[k + 1] = y /\ \A n \in 0 .. k : g[n] = f[n]
  OBVIOUS
<1>. HIDE DEF g
<1>5. g[0] = [m |-> e, iv |-> r.iv]
  BY <1>3, <1>4 DEF KnownTo
<1>6. ASSUME NEW n \in 1 .. k + 1 PROVE g[n] = NextBlock(r, g[n - 1], n)
  <2>1. CASE n = k + 1
    <3>1. g[n - 1] = x
      BY <1>3, <1>4, <2>1
    <3>. QED BY <1>4, <2>1, <3>1 DEF y
  <2>2. CASE n # k + 1
    <3>1. n \in 1 .. k /\ n \in 0 .. k /\ n - 1 \in 0 .. k
      BY <2>2
    <3>2. f[n] = NextBlock(r, f[n - 1], n)
      BY <1>3, <3>1 DEF KnownTo
    <3>. QED BY <1>4, <3>1, <3>2
  <2>. QED BY <2>1, <2>2
<1>7. KnownTo(e, g, r, k + 1)
  BY <1>5, <1>6 DEF KnownTo
<1>8. \A h : KnownTo(e, h, r, k + 1) => h[k + 1] = y
  BY <1>2 DEF y
<1>. QED BY <1>4, <1>7, <1>8 DEF KnownIs, y

LEMMA KnownEnd ==
  ASSUME NEW r, r.len \in Nat, NEW x, KnownIs(expects, r, r.len, x)
  PROVE  Known(r) = x.m
<1>. DEFINE len == r.len
            Eq(a) == a = [n \in 0 .. len |->
                            IF n = 0 THEN [m |-> expects, iv |-> r.iv]
                            ELSE NextBlock(r, a[n - 1], n)]
            after == CHOOSE a : Eq(a)
<1>1. Known(r) = after[len].m
  BY DEF Known, NextBlock
<1>2. PICK f : KnownTo(expects, f, r, len)
  BY DEF KnownIs
<1>. DEFINE g == [n \in 0 .. len |-> f[n]]
<1>3. Eq(g)
  <2>1. ASSUME NEW n \in 0 .. len
        PROVE  g[n] = IF n = 0 THEN [m |-> expects, iv |-> r.iv] ELSE NextBlock(r, g[n - 1], n)
    <3>1. CASE n = 0
      BY <1>2, <3>1 DEF KnownTo
    <3>2. CASE n # 0
      <4>1. n \in 1 .. len /\ n - 1 \in 0 .. len
        BY <3>2
      <4>2. f[n] = NextBlock(r, f[n - 1], n)
        BY <1>2, <4>1 DEF KnownTo
      <4>3. g[n] = f[n] /\ g[n - 1] = f[n - 1]
        BY <4>1
      <4>. HIDE DEF g
      <4>. QED BY <3>2, <4>2, <4>3
    <3>. QED BY <3>1, <3>2
  <2>. DEFINE h == [n \in 0 .. len |->
                      IF n = 0 THEN [m |-> expects, iv |-> r.iv] ELSE NextBlock(r, g[n - 1], n)]
  <2>2. g = h
    <3>1. \A n \in 0 .. len : g[n] = h[n]
      BY <2>1
    <3>2. g = [n \in 0 .. len |-> g[n]] /\ h = [n \in 0 .. len |-> h[n]]
      OBVIOUS
    <3>. HIDE DEF g, h
    <3>. QED BY <3>1, <3>2
  <2>. QED BY <2>2
<1>4. Eq(after)
  <2>. HIDE DEF g, Eq
  <2>. QED BY <1>3 DEF after
<1>5. KnownTo(expects, after, r, len)
  <2>. HIDE DEF after
  <2>1. \A n \in 0 .. len : after[n] = IF n = 0 THEN [m |-> expects, iv |-> r.iv]
                                       ELSE NextBlock(r, after[n - 1], n)
    BY <1>4
  <2>. QED BY <2>1 DEF KnownTo
<1>6. after[len] = x
  <2>. HIDE DEF after
  <2>. QED BY <1>5 DEF KnownIs
<1>. QED BY <1>1, <1>6

-----------------------------------------------------------------------------
(* In an operation the engine has the port for itself. *)

LEMMA OwnPort ==
  ASSUME ChecksIInv, call.stage \in {"config", "poll", "clear"}, NEW w, WriteOK(w),
         Clock(Port, w)
  PROVE  /\ StepFacts(w)
         /\ WriteStep' /\ ReadStep' /\ SourceRead'
         /\ ~seen'.awready /\ ~seen'.arready
         /\ state = "IDLE" => mem' = mem /\ (s_bvalid => s_bvalid')
<1>1. /\ top # "dma_ram" /\ PortInv /\ SourceRead
  BY DEF ChecksIInv, BenchIInv, PortInv, PortFree, EngineRests
<1>2. ~use_test_port_w(Port) /\ ~use_test_port_r(Port)
  BY <1>1 DEF use_test_port_w, use_test_port_r, Port
<1>3. UnitEdge(w) /\ PortEdge
  BY <1>2 DEF Clock, UnitEdge, PortEdge
<1>4. PortInv' /\ (ChainStays \/ ChainTakes \/ ChainWaits \/ ChainEnds)
  BY <1>1, <1>3, PortKeeps
<1>5. EngineEdge(w) /\ RegisterEdge(w)
  BY <1>3 DEF UnitEdge
<1>6. SourceRead'
  BY <1>1, <1>3, <1>5, SourceReadKept
<1>7. StepFacts(w)
  BY <1>1, <1>3, <1>4, <1>5 DEF StepFacts, WriteOK
<1>8. ~seen'.awready /\ ~seen'.arready
  BY <1>2, TestPortShows
<1>9. state = "IDLE" => mem' = mem
  BY <1>7, EdgeParts
<1>10. state = "IDLE" => (s_bvalid => s_bvalid')
  BY <1>1, <1>3 DEF PortEdge, RamEdge, BEdge, PortInv, WriteStep
<1>. QED BY <1>4, <1>6, <1>7, <1>8, <1>9, <1>10 DEF PortInv, PortFree

(* What a register write of an operation leaves in the registers.          *)
LEMMA ProgramStep ==
  ASSUME NEW r, NEW i \in 1 .. 6, RegisterEdge(Program(r)[i])
  PROVE  /\ key_reg' = IF i = 1 THEN r.key ELSE key_reg
         /\ dma_iv_reg' = IF i = 2 THEN r.iv ELSE dma_iv_reg
         /\ src_addr_reg' = IF i = 3 THEN r.src ELSE src_addr_reg
         /\ dst_addr_reg' = IF i = 4 THEN r.dst ELSE dst_addr_reg
         /\ len_reg' = IF i = 5 THEN r.len % 2^LenBits ELSE len_reg
<1>. DEFINE n == r.len % 2^LenBits  w == Program(r)[i]
<1>1. i = 1 \/ i = 2 \/ i = 3 \/ i = 4 \/ i = 5 \/ i = 6
  OBVIOUS
<1>2. /\ i = 1 => w = [reg |-> "KEY", value |-> r.key]
      /\ i = 2 => w = [reg |-> "IV", value |-> r.iv]
      /\ i = 3 => w = [reg |-> "SRC", value |-> r.src]
      /\ i = 4 => w = [reg |-> "DST", value |-> r.dst]
      /\ i = 5 => w = [reg |-> "LEN", value |-> n]
      /\ i = 6 => w = [reg |-> "CTRL", start |-> TRUE, encdec |-> r.encdec, mode |-> r.mode]
  BY ProgramIs
<1>3. RegisterEdge(w)
  OBVIOUS
<1>. HIDE DEF n, w
<1>4. /\ key_reg' = Written(w, "KEY", key_reg) /\ dma_iv_reg' = Written(w, "IV", dma_iv_reg)
      /\ src_addr_reg' = Written(w, "SRC", src_addr_reg)
      /\ dst_addr_reg' = Written(w, "DST", dst_addr_reg)
      /\ len_reg' = Written(w, "LEN", len_reg)
  BY <1>3 DEF RegisterEdge
<1>5. /\ key_reg' = IF i = 1 THEN r.key ELSE key_reg
      /\ dma_iv_reg' = IF i = 2 THEN r.iv ELSE dma_iv_reg
      /\ src_addr_reg' = IF i = 3 THEN r.src ELSE src_addr_reg
      /\ dst_addr_reg' = IF i = 4 THEN r.dst ELSE dst_addr_reg
      /\ len_reg' = IF i = 5 THEN n ELSE len_reg
  <2>. USE DEF Written
  <2>1. CASE i = 1
    BY <1>2, <1>4, <2>1
  <2>2. CASE i = 2
    BY <1>2, <1>4, <2>2
  <2>3. CASE i = 3
    BY <1>2, <1>4, <2>3
  <2>4. CASE i = 4
    BY <1>2, <1>4, <2>4
  <2>5. CASE i = 5
    BY <1>2, <1>4, <2>5
  <2>6. CASE i = 6
    BY <1>2, <1>4, <2>6
  <2>. QED BY <1>1, <2>1, <2>2, <2>3, <2>4, <2>5, <2>6
<1>. QED BY <1>5 DEF n

(* LEN = 0 stands for as many blocks as LEN can count.                     *)
LEMMA CountIs == ASSUME NEW r \in Runs PROVE Count(r.len % 2^LenBits) = r.len
<1>. DEFINE m == 2^LenBits
<1>1. m \in Nat \ {0, 1} /\ r.len \in 1 .. m
  BY RunTypes
<1>2. Count(r.len % m) = IF r.len % m = 0 THEN m ELSE r.len % m
  BY DEF Count
<1>. HIDE DEF m
<1>3. r.len = m \/ r.len < m
  BY <1>1
<1>4. (r.len = m => r.len % m = 0) /\ (r.len < m => r.len % m = r.len)
  BY <1>1
<1>5. Count(r.len % m) = r.len
  BY <1>1, <1>2, <1>3, <1>4
<1>. QED BY <1>5 DEF m

-----------------------------------------------------------------------------
(* A block that DmaCopy does is the next one of the bench.                 *)

LEMMA WrapPlace ==
  ASSUME NEW a \in Nat, NEW i \in 1 .. Beats
  PROVE  Copy!Wrap(WordIdx(a) + i - 1) = WordIdx(a + i - 1)
<1>1. i - 1 \in Nat
  <2>1. Beats \in Nat
    BY DmaAssumption
  <2>. QED BY <2>1
<1>2. WordIdx(a) \in Nat
  BY WordIdxType, IndexIsNat
<1>3. WordIdx(WordIdx(a) + (i - 1)) = WordIdx(a + (i - 1))
  BY <1>1, NextIndex
<1>4. WordIdx(a) + (i - 1) = WordIdx(a) + i - 1 /\ a + (i - 1) = a + i - 1
  BY <1>1, <1>2
<1>. QED BY <1>3, <1>4 DEF Copy!Wrap, WordIdx

LEMMA StoreIsPut ==
  ASSUME NEW a \in Nat, NEW b
  PROVE  Copy!Store(WordIdx(a), b) = Put(SeenMem, a, b)
<1>. DEFINE Hit(n) == \E i \in 1 .. Beats : WordIdx(a + i - 1) = n
            Stores(n) == \E i \in 1 .. Beats : Copy!Wrap(WordIdx(a) + i - 1) = n
            First(n) == CHOOSE i \in 1 .. Beats : WordIdx(a + i - 1) = n
            Last(n) == CHOOSE i \in 1 .. Beats :
                         /\ Copy!Wrap(WordIdx(a) + i - 1) = n
                         /\ \A j \in 1 .. Beats : Copy!Wrap(WordIdx(a) + j - 1) = n => j <= i
<1>1. \A i \in 1 .. Beats : Copy!Wrap(WordIdx(a) + i - 1) = WordIdx(a + i - 1)
  BY WrapPlace
<1>2. ASSUME NEW n PROVE (Hit(n) <=> Stores(n)) /\ (Hit(n) => Last(n) = First(n))
  <2>1. \A i, j \in 1 .. Beats : WordIdx(a + i - 1) = n /\ WordIdx(a + j - 1) = n => i = j
    BY OwnPlaces
  <2>2. \A i \in 1 .. Beats :
          (WordIdx(a + i - 1) = n) <=>
            /\ Copy!Wrap(WordIdx(a) + i - 1) = n
            /\ \A j \in 1 .. Beats : Copy!Wrap(WordIdx(a) + j - 1) = n => j <= i
    BY <1>1, <2>1
  <2>. QED BY <1>1, <2>1, <2>2
<1>3. /\ Put(SeenMem, a, b) = [n \in Index |-> IF Hit(n) THEN b[First(n)] ELSE SeenMem[n]]
      /\ Copy!Store(WordIdx(a), b) =
           [n \in Copy!Index |-> IF Stores(n) THEN b[Last(n)] ELSE SeenMem[n]]
  BY Zenon DEF Copy!Store, Put
<1>. HIDE DEF Hit, Stores, First, Last
<1>4. Copy!Index = Index
  BY DEF Copy!Index, Index
<1>. QED BY <1>2, <1>3, <1>4

LEMMA BlockCopies ==
  ASSUME NEW r \in Runs, NEW k \in Nat, key_reg = r.key, Copy!DoBlock,
         SeenJob = [mode |-> r.mode, decrypt |-> r.encdec, src |-> WordIdx(r.src + Beats * k),
                    dst |-> WordIdx(r.dst + Beats * k)]
  PROVE  /\ Seen_' = NextBlock(r, Seen_, k + 1)
         /\ SeenJob' = [mode |-> r.mode, decrypt |-> r.encdec,
                        src |-> WordIdx(r.src + Beats * (k + 1)),
                        dst |-> WordIdx(r.dst + Beats * (k + 1))]
         /\ SeenLeft > 0 /\ SeenLeft' = SeenLeft - 1
<1>. DEFINE a == r.src + Beats * k  d == r.dst + Beats * k
<1>1. a \in Nat /\ d \in Nat /\ Beats \in Nat /\ (k + 1) - 1 = k
  <2>1. Beats \in Nat /\ r.src \in Nat /\ r.dst \in Nat
    BY RunTypes, IndexIsNat, DmaAssumption
  <2>2. Beats * k \in Nat
    BY <2>1
  <2>. QED BY <2>1, <2>2
<1>2. a + Beats = r.src + Beats * (k + 1) /\ d + Beats = r.dst + Beats * (k + 1)
  <2>1. r.src \in Nat /\ r.dst \in Nat /\ Beats \in Nat
    BY <1>1, RunTypes, IndexIsNat
  <2>2. Beats * (k + 1) = (Beats * k) + Beats /\ Beats * k \in Nat
    BY <2>1
  <2>. QED BY <2>1, <2>2
<1>3. /\ SeenJob.mode = r.mode /\ SeenJob.decrypt = r.encdec /\ SeenJob.src = WordIdx(a)
      /\ SeenJob.dst = WordIdx(d)
  OBVIOUS
<1>. HIDE DEF a, d
<1>4. Copy!BlockAt(WordIdx(a)) = Block_(SeenMem, a)
  <2>1. \A i \in 1 .. Beats : Copy!Wrap(WordIdx(a) + i - 1) = WordIdx(a + i - 1)
    BY <1>1, WrapPlace
  <2>. QED BY <2>1 DEF Copy!BlockAt, Block_
<1>. DEFINE t == [mode |-> r.mode, encdec |-> r.encdec, key |-> r.key,
                  data |-> Block_(SeenMem, a), iv |-> SeenIv]
<1>5. /\ SeenMem' = Copy!Store(WordIdx(d), ModeOut(t)) /\ SeenIv' = ModeNextIv(t)
      /\ SeenLeft > 0 /\ SeenLeft' = SeenLeft - 1
      /\ SeenJob' = [mode |-> r.mode, decrypt |-> r.encdec, src |-> Copy!Wrap(WordIdx(a) + Beats),
                     dst |-> Copy!Wrap(WordIdx(d) + Beats)]
  BY <1>3, <1>4 DEF Copy!DoBlock, BlockOut, BlockIv, SeenRegs
<1>6. SeenMem' = Put(SeenMem, d, ModeOut(t))
  BY <1>1, <1>5, StoreIsPut
<1>7. Seen_' = NextBlock(r, Seen_, k + 1)
  BY <1>1, <1>5, <1>6 DEF Seen_, NextBlock, a, d
<1>8. /\ Copy!Wrap(WordIdx(a) + Beats) = WordIdx(a + Beats)
      /\ Copy!Wrap(WordIdx(d) + Beats) = WordIdx(d + Beats)
  BY <1>1, NextIndex DEF Copy!Wrap, WordIdx
<1>. QED BY <1>2, <1>5, <1>7, <1>8

-----------------------------------------------------------------------------
(* The operation of the bench. *)

LEMMA RunStages ==
  ASSUME ChecksIInv, call.stage \in {"config", "poll", "clear"},
         call.stage' \in {"config", "poll", "clear", "judge"}, UNCHANGED <<top, calls>>,
         WriteStep', ReadStep', SourceRead', ~seen'.awready, ~seen'.arready
  PROVE  /\ top' \in Tops /\ CallOrder' /\ Waits' /\ PortFree' /\ Writing' /\ Reading'
         /\ top # "dma_ram" /\ calls = 2
<1>1. top \in Tops /\ CallOrder /\ top # "dma_ram" /\ calls = 2
  BY DEF ChecksIInv, BenchIInv, EngineRests, CallOrder
<1>. QED BY <1>1 DEF CallOrder, Waits, Shown, PortFree, BurstStage, Writing, Reading

LEMMA ConfigChecks == ASSUME ChecksIInv, Configure, UNCHANGED <<top, calls>> PROVE ChecksIInv'
<1>. DEFINE r == call.arg  i == call.at  w == Program(r)[i]
            stage == IF i = 6 THEN "poll" ELSE "config"
<1>1. BenchIInv'
  BY ConfigureKeeps DEF ChecksIInv
<1>2. /\ call.stage = "config" /\ r \in Runs /\ i \in 1 .. 6 /\ state = "IDLE"
      /\ call \in Calls(Seq(Word), Seq(BOOLEAN), Runs \union {<<>>})
      /\ top # "dma_ram" /\ call.op \in {"none", "write", "read", "run"}
  BY DEF Configure, ChecksIInv, BenchIInv, CallsInStep, EngineRests, CallTypeOK, Calls
<1>3. Len(Program(r)) = 6 /\ WriteOK(w) /\ (i # 6 => ~do_start(w))
  BY <1>2, ProgramIsOK
<1>4. Clock(Port, w) /\ expects' = expects /\ call' = [call EXCEPT !.at = @ + 1, !.stage = stage]
  BY <1>2, <1>3 DEF Configure
<1>5. /\ call'.stage = stage /\ call'.arg = r /\ call'.at = i + 1 /\ call'.op = call.op
  BY <1>2, <1>4 DEF Calls
<1>6. s_bvalid /\ Programmed
  BY <1>2 DEF ChecksIInv, NotTaken
<1>7. /\ StepFacts(w) /\ WriteStep' /\ ReadStep' /\ SourceRead'
      /\ ~seen'.awready /\ ~seen'.arready /\ mem' = mem /\ s_bvalid'
  <2>. HIDE DEF w
  <2>. QED BY <1>2, <1>3, <1>4, <1>6, OwnPort
<1>8. call'.stage \in {"config", "poll", "clear", "judge"}
  BY <1>5
<1>9. top' \in Tops /\ CallOrder' /\ Waits' /\ PortFree' /\ Writing' /\ Reading'
  BY <1>2, <1>7, <1>8, RunStages
<1>10. Judged' /\ NotTaken'
  BY <1>5, <1>7 DEF Judged, NotTaken
<1>11. RegisterEdge(w) /\ mem = expects
  BY <1>2, <1>6, <1>7 DEF StepFacts, Programmed
<1>12. /\ key_reg' = IF i = 1 THEN r.key ELSE key_reg
       /\ dma_iv_reg' = IF i = 2 THEN r.iv ELSE dma_iv_reg
       /\ src_addr_reg' = IF i = 3 THEN r.src ELSE src_addr_reg
       /\ dst_addr_reg' = IF i = 4 THEN r.dst ELSE dst_addr_reg
       /\ len_reg' = IF i = 5 THEN r.len % 2^LenBits ELSE len_reg
  <2>. HIDE DEF r, i
  <2>. QED BY <1>2, <1>11, ProgramStep DEF w
<1>13. /\ i > 1 => key_reg = r.key
       /\ i > 2 => dma_iv_reg = r.iv
       /\ i > 3 => src_addr_reg = r.src
       /\ i > 4 => dst_addr_reg = r.dst
       /\ i > 5 => len_reg = r.len % 2^LenBits
  BY <1>2, <1>6 DEF Programmed
<1>. HIDE DEF w, stage, i, r
<1>14. Programmed'
  <2>. DEFINE n == r.len % 2^LenBits
  <2>1. /\ key_reg' = IF i = 1 THEN r.key ELSE key_reg
        /\ dma_iv_reg' = IF i = 2 THEN r.iv ELSE dma_iv_reg
        /\ src_addr_reg' = IF i = 3 THEN r.src ELSE src_addr_reg
        /\ dst_addr_reg' = IF i = 4 THEN r.dst ELSE dst_addr_reg
        /\ len_reg' = IF i = 5 THEN n ELSE len_reg
    BY <1>12
  <2>2. /\ i > 1 => key_reg = r.key
        /\ i > 2 => dma_iv_reg = r.iv
        /\ i > 3 => src_addr_reg = r.src
        /\ i > 4 => dst_addr_reg = r.dst
        /\ i > 5 => len_reg = n
    BY <1>13
  <2>. HIDE DEF n
  <2>3. /\ i + 1 > 1 => key_reg' = r.key
        /\ i + 1 > 2 => dma_iv_reg' = r.iv
        /\ i + 1 > 3 => src_addr_reg' = r.src
        /\ i + 1 > 4 => dst_addr_reg' = r.dst
        /\ i + 1 > 5 => len_reg' = n
    BY <1>2, <2>1, <2>2 DEF i
  <2>4. mem' = expects'
    BY <1>4, <1>7, <1>11
  <2>. QED BY <1>2, <1>5, <1>6, <2>3, <2>4 DEF Programmed, n
<1>15. CASE i # 6
  <2>1. call'.stage = "config"
    BY <1>5, <1>15 DEF stage
  <2>. QED BY <1>1, <1>9, <1>10, <1>14, <2>1 DEF ChecksIInv, InRun
<1>16. CASE i = 6
  <2>1. w = [reg |-> "CTRL", start |-> TRUE, encdec |-> r.encdec, mode |-> r.mode]
    BY <1>16, ProgramIs DEF w
  <2>2. do_start(w)
    <3>1. ~status_busy
      BY <1>2 DEF ChecksIInv, BenchIInv, UnitInv, BusyIsWorking
    <3>. QED BY <2>1, <3>1 DEF do_start
  <2>3. /\ SeenMem' = mem /\ SeenIv' = r.iv
        /\ SeenLeft' = Count(SeenRegs.len)
        /\ SeenJob' = [mode |-> r.mode, decrypt |-> r.encdec, src |-> r.src, dst |-> r.dst]
    <3>1. /\ key_reg = r.key /\ dma_iv_reg = r.iv /\ src_addr_reg = r.src /\ dst_addr_reg = r.dst
      <4>1. i > 1 /\ i > 2 /\ i > 3 /\ i > 4
        BY <1>16
      <4>. QED BY <1>13, <4>1
    <3>2. SeenRegs.iv = r.iv /\ SeenRegs.src = r.src /\ SeenRegs.dst = r.dst
      BY <3>1 DEF SeenRegs
    <3>3. /\ SeenLeft' = Count(SeenRegs.len) /\ SeenIv' = SeenRegs.iv
          /\ SeenJob' = [mode |-> w.mode, decrypt |-> w.encdec, src |-> SeenRegs.src,
                         dst |-> SeenRegs.dst]
      BY <1>2, <1>7, <2>2, StartSees
    <3>4. SeenMem' = mem
      BY <1>2, <1>7, IdleSees
    <3>5. w.mode = r.mode /\ w.encdec = r.encdec
      BY <2>1
    <3>. QED BY <3>2, <3>3, <3>4, <3>5
  <2>4. SeenLeft' = r.len
    <3>. DEFINE n == r.len % 2^LenBits
    <3>1. len_reg = n
      <4>1. i > 5
        BY <1>16
      <4>. QED BY <1>13, <4>1
    <3>2. SeenRegs.len = n
      BY <3>1 DEF SeenRegs
    <3>3. Count(n) = r.len
      BY <1>2, CountIs
    <3>. QED BY <2>3, <3>2, <3>3
  <2>5. BlocksDone' = 0
    <3>1. r.len \in Nat
      BY <1>2, RunTypes
    <3>. QED BY <1>5, <2>4, <3>1 DEF BlocksDone
  <2>6. SeenJob' = [mode |-> r.mode, decrypt |-> r.encdec,
                    src |-> WordIdx(r.src + Beats * 0), dst |-> WordIdx(r.dst + Beats * 0)]
    <3>1. r.src \in Index /\ r.dst \in Index /\ r.src \in Nat /\ r.dst \in Nat /\ Beats \in Nat
      BY <1>2, RunTypes, IndexIsNat, DmaAssumption
    <3>2. r.src + Beats * 0 = r.src /\ r.dst + Beats * 0 = r.dst
      BY <3>1
    <3>3. WordIdx(r.src + Beats * 0) = r.src /\ WordIdx(r.dst + Beats * 0) = r.dst
      BY <3>1, <3>2, SmallIndex
    <3>. QED BY <2>3, <3>3
  <2>7. KnownIs(expects, r, 0, Seen_')
    <3>1. Seen_' = [m |-> expects, iv |-> r.iv]
      BY <1>11, <2>3 DEF Seen_
    <3>. QED BY <3>1, KnownStart
  <2>8. SeenLeft' \in 0 .. r.len
    BY <1>2, <2>4, RunTypes
  <2>9. key_reg' = r.key /\ call'.op = "run"
    <3>1. i > 1
      BY <1>16
    <3>2. key_reg' = r.key
      BY <1>12, <1>13, <3>1
    <3>3. call.op = "run"
      BY <1>2 DEF ChecksIInv, Programmed
    <3>. QED BY <1>5, <3>2, <3>3
  <2>10. InRun'
    BY <1>2, <1>4, <1>5, <2>5, <2>6, <2>7, <2>8, <2>9 DEF InRun
  <2>. QED BY <1>1, <1>9, <1>10, <1>14, <2>10 DEF ChecksIInv
<1>. QED BY <1>15, <1>16

LEMMA PollChecks == ASSUME ChecksIInv, Poll, UNCHANGED <<top, calls>> PROVE ChecksIInv'
<1>. DEFINE r == call.arg  k == BlocksDone
            stage == IF status_done THEN "clear" ELSE "poll"
<1>1. BenchIInv'
  BY PollKeeps DEF ChecksIInv
<1>2. /\ call.stage = "poll" /\ Clock(Port, NoWrite) /\ expects' = expects
      /\ call' = [call EXCEPT !.stage = stage]
  BY DEF Poll
<1>3. /\ call'.stage = stage /\ UNCHANGED <<call.arg, call.op>>
  <2>1. call \in Calls(Seq(Word), Seq(BOOLEAN), Runs \union {<<>>})
    BY DEF ChecksIInv, BenchIInv, CallTypeOK
  <2>. QED BY <1>2, <2>1 DEF Calls
<1>4. /\ StepFacts(NoWrite) /\ WriteStep' /\ ReadStep' /\ SourceRead'
      /\ ~seen'.awready /\ ~seen'.arready
  BY <1>2, OwnPort, NoWriteIsOK
<1>5. call'.stage \in {"config", "poll", "clear", "judge"}
  BY <1>3
<1>6. top' \in Tops /\ CallOrder' /\ Waits' /\ PortFree' /\ Writing' /\ Reading'
  BY <1>2, <1>4, <1>5, RunStages
<1>7. Judged' /\ NotTaken' /\ Programmed'
  BY <1>3 DEF Judged, NotTaken, Programmed
<1>8. /\ r \in Runs /\ call.op = "run" /\ key_reg = r.key /\ SeenLeft \in 0 .. r.len
      /\ SeenJob = [mode |-> r.mode, decrypt |-> r.encdec,
                    src |-> WordIdx(r.src + Beats * k), dst |-> WordIdx(r.dst + Beats * k)]
      /\ KnownIs(expects, r, k, Seen_)
  BY <1>2 DEF ChecksIInv, InRun
<1>9. r.len \in Nat /\ k = r.len - SeenLeft
  BY <1>8, RunTypes DEF BlocksDone
<1>10. k \in Nat
  BY <1>8, <1>9
<1>11. key_reg' = r.key
  BY <1>4, <1>8 DEF StepFacts, RegisterEdge, Written, NoWrite
<1>12. BlocksDone' = r.len - SeenLeft'
  BY <1>3 DEF BlocksDone
<1>. HIDE DEF k, stage
<1>13. InRun'
  <2>1. CopyRests \/ Copy!DoBlock \/ Copy!Complete
    BY <1>4, EdgeSees, NoWriteIsOK
  <2>2. CASE CopyRests \/ Copy!Complete
    <3>1. UNCHANGED <<SeenMem, SeenLeft, SeenJob, SeenIv>>
      BY <2>2 DEF CopyRests, Copy!Complete
    <3>2. Seen_' = Seen_ /\ BlocksDone' = k
      BY <1>9, <1>12, <3>1 DEF Seen_
    <3>. QED BY <1>2, <1>3, <1>8, <1>11, <3>1, <3>2 DEF InRun
  <2>3. CASE Copy!DoBlock
    <3>. HIDE DEF r
    <3>1. /\ Seen_' = NextBlock(r, Seen_, k + 1)
          /\ SeenJob' = [mode |-> r.mode, decrypt |-> r.encdec,
                         src |-> WordIdx(r.src + Beats * (k + 1)),
                         dst |-> WordIdx(r.dst + Beats * (k + 1))]
          /\ SeenLeft > 0 /\ SeenLeft' = SeenLeft - 1
      BY <1>8, <1>10, <2>3, BlockCopies
    <3>2. SeenLeft' \in 0 .. r.len /\ BlocksDone' = k + 1
      BY <1>8, <1>9, <1>12, <3>1
    <3>3. KnownIs(expects, r, k + 1, Seen_')
      BY <1>8, <1>10, <3>1, KnownNext
    <3>4. call'.arg = r /\ call'.op = "run" /\ key_reg' = r.key
      BY <1>3, <1>8, <1>11 DEF r
    <3>. QED BY <1>2, <1>8, <3>1, <3>2, <3>3, <3>4 DEF InRun
  <2>. QED BY <2>1, <2>2, <2>3
<1>. QED BY <1>1, <1>6, <1>7, <1>13 DEF ChecksIInv

LEMMA ClearChecks == ASSUME ChecksIInv, Clear, UNCHANGED <<top, calls>> PROVE ChecksIInv'
<1>. DEFINE r == call.arg  w == [reg |-> "DONE"]
<1>1. BenchIInv'
  BY ClearKeeps DEF ChecksIInv
<1>2. /\ call.stage = "clear" /\ Clock(Port, w) /\ expects' = Known(r)
      /\ call' = [call EXCEPT !.stage = "judge", !.ok = TRUE]
  BY DEF Clear
<1>3. /\ call'.stage = "judge" /\ call'.ok /\ call'.op = call.op
  <2>1. call \in Calls(Seq(Word), Seq(BOOLEAN), Runs \union {<<>>})
    BY DEF ChecksIInv, BenchIInv, CallTypeOK
  <2>. QED BY <1>2, <2>1 DEF Calls
<1>4. state = "IDLE"
  BY <1>2 DEF ChecksIInv, BenchIInv, EngineRests
<1>5. WriteOK(w)
  BY DEF WriteOK
<1>6. /\ StepFacts(w) /\ WriteStep' /\ ReadStep' /\ SourceRead'
      /\ ~seen'.awready /\ ~seen'.arready /\ mem' = mem
  <2>. HIDE DEF w
  <2>. QED BY <1>2, <1>4, <1>5, OwnPort
<1>7. call'.stage \in {"config", "poll", "clear", "judge"}
  BY <1>3
<1>8. /\ top' \in Tops /\ CallOrder' /\ Waits' /\ PortFree' /\ Writing' /\ Reading'
      /\ calls' = 2
  BY <1>2, <1>6, <1>7, RunStages
<1>9. r \in Runs /\ call.op = "run" /\ KnownIs(expects, r, BlocksDone, Seen_)
  BY <1>2 DEF ChecksIInv, InRun
<1>10. r.len \in Nat
  BY <1>9, RunTypes
<1>11. BlocksDone = r.len
  <2>1. SeenLeft = 0
    BY <1>4 DEF SeenLeft
  <2>. QED BY <1>10, <2>1 DEF BlocksDone
<1>12. Seen_.m = mem
  <2>1. SeenMem = mem
    BY <1>4, <1>6, IdleSees
  <2>. QED BY <2>1 DEF Seen_
<1>13. Known(r) = Seen_.m
  <2>. HIDE DEF r
  <2>. QED BY <1>9, <1>10, <1>11, KnownEnd
<1>14. Judged'
  BY <1>2, <1>3, <1>6, <1>9, <1>12, <1>13 DEF Judged
<1>15. NotTaken' /\ Programmed' /\ InRun'
  BY <1>3, <1>8 DEF NotTaken, Programmed, InRun
<1>. QED BY <1>1, <1>8, <1>14, <1>15 DEF ChecksIInv

-----------------------------------------------------------------------------
(* The next call. *)

LEMMA JudgeRests ==
  ASSUME ChecksIInv, call.stage = "judge"
  PROVE  /\ Low /\ w_state = "IDLE" /\ r_state = "IDLE" /\ ~s_rvalid /\ mem = expects
         /\ top = "dma_ram" \/ calls <= 2 => Shown(seen.awready) /\ Shown(seen.arready)
         /\ WriteStep /\ ReadStep /\ SourceRead
<1>1. /\ state = "IDLE" /\ WriteStep /\ ReadStep /\ SourceRead /\ mem = expects
      /\ w_state \in {"IDLE", "BURST"} /\ r_state \in {"IDLE", "BURST"}
  BY DEF ChecksIInv, BenchIInv, RamTypeOK, EngineRests, PortFree, Judged
<1>2. top = "dma_ram" \/ calls <= 2 => Shown(seen.awready) /\ Shown(seen.arready)
  BY DEF ChecksIInv, Waits
<1>. QED BY <1>1, <1>2 DEF Low, WriteStep, ReadStep

LEMMA WriteCallChecks ==
  ASSUME ChecksIInv, BenchIInv', NEW a, NEW n \in 1 .. Beats, NEW ws \in [1 .. n -> Word],
         NEW bs \in [1 .. n -> BOOLEAN], Begin_(WriteCall(a, ws, bs)),
         top = "dma_ram" \/ calls = 0
  PROVE  ChecksIInv'
<1>. DEFINE c == WriteCall(a, ws, bs)
<1>1. /\ c.stage = "aw" /\ c.op = "write" /\ c.at = 1 /\ c.spin = 0 /\ c.words = ws
      /\ c.strobes = bs
  BY DEF WriteCall, NoCall
<1>2. call.stage = "judge" /\ calls' = calls + 1 /\ call' = c /\ UNCHANGED <<vars, top, seen, expects>>
  BY DEF Begin_
<1>. HIDE DEF c
<1>3. Len(ws) = n /\ n <= Beats
  BY DmaAssumption
<1>4. top \in Tops /\ calls \in Nat
  BY DEF ChecksIInv, BenchIInv
<1>5. /\ Low /\ w_state = "IDLE" /\ r_state = "IDLE" /\ ~s_rvalid /\ mem = expects
      /\ Shown(seen.awready)
  BY <1>2, <1>4, JudgeRests
<1>6. /\ UNCHANGED <<mem, w_state, r_state, s_rvalid, state, m_awvalid, m_wvalid, m_bready,
                     m_arvalid, m_rready>>
  BY <1>2 DEF vars, ramVars, axiVars, fsmVars
<1>7. top' \in Tops /\ CallOrder' /\ Waits'
  BY <1>1, <1>2, <1>4, <1>5 DEF CallOrder, Waits, Shown
<1>8. PortFree'
  BY <1>1, <1>2, <1>5, <1>6 DEF PortFree, BurstStage, Low
<1>9. Writing'
  BY <1>1, <1>2, <1>3, <1>5, <1>6 DEF Writing
<1>10. Reading' /\ Judged' /\ NotTaken' /\ Programmed' /\ InRun'
  BY <1>1, <1>2 DEF Reading, Judged, NotTaken, Programmed, InRun
<1>. QED BY <1>7, <1>8, <1>9, <1>10 DEF ChecksIInv

LEMMA ReadCallChecks ==
  ASSUME ChecksIInv, BenchIInv', NEW a, NEW n \in 1 .. Beats, Begin_(ReadCall(a, n)),
         top = "dma_ram" \/ (calls = 2 /\ n = Beats)
  PROVE  ChecksIInv'
<1>. DEFINE c == ReadCall(a, n)
<1>1. /\ c.stage = "ar" /\ c.op = "read" /\ c.at = n /\ c.spin = 0 /\ c.out = << >>
  BY DEF ReadCall, NoCall
<1>2. call.stage = "judge" /\ calls' = calls + 1 /\ call' = c /\ UNCHANGED <<vars, top, seen, expects>>
  BY DEF Begin_
<1>. HIDE DEF c
<1>3. n = Beats => n # 1
  BY BenchAssumption, DmaAssumption
<1>4. top \in Tops /\ calls \in Nat
  BY DEF ChecksIInv, BenchIInv
<1>5. /\ Low /\ w_state = "IDLE" /\ r_state = "IDLE" /\ ~s_rvalid /\ mem = expects
      /\ Shown(seen.arready)
  BY <1>2, <1>4, JudgeRests
<1>6. /\ UNCHANGED <<mem, w_state, r_state, s_rvalid, state, m_awvalid, m_wvalid, m_bready,
                     m_arvalid, m_rready>>
  BY <1>2 DEF vars, ramVars, axiVars, fsmVars
<1>7. top' \in Tops /\ CallOrder' /\ Waits'
  BY <1>1, <1>2, <1>4, <1>5 DEF CallOrder, Waits, Shown
<1>8. PortFree'
  BY <1>1, <1>2, <1>5, <1>6 DEF PortFree, BurstStage, Low
<1>9. Reading'
  BY <1>1, <1>2, <1>3, <1>5, <1>6 DEF Reading
<1>10. Writing' /\ Judged' /\ NotTaken' /\ Programmed' /\ InRun'
  BY <1>1, <1>2 DEF Writing, Judged, NotTaken, Programmed, InRun
<1>. QED BY <1>7, <1>8, <1>9, <1>10 DEF ChecksIInv

LEMMA RunCallChecks ==
  ASSUME ChecksIInv, BenchIInv', NEW r, Begin_(RunCall(r)), top # "dma_ram", calls = 1
  PROVE  ChecksIInv'
<1>. DEFINE c == RunCall(r)
<1>1. c.stage = "config" /\ c.op = "run" /\ c.at = 1
  BY DEF RunCall, NoCall
<1>2. call.stage = "judge" /\ calls' = 2 /\ call' = c /\ UNCHANGED <<vars, top, seen, expects>>
  BY DEF Begin_
<1>. HIDE DEF c
<1>3. top \in Tops /\ s_bvalid
  BY <1>2 DEF ChecksIInv, NotTaken
<1>4. /\ mem = expects /\ Shown(seen.awready) /\ Shown(seen.arready)
      /\ WriteStep /\ ReadStep /\ SourceRead
  BY <1>2, JudgeRests
<1>5. SourceRead'
  BY <1>2, <1>4, SeenStops
<1>6. /\ UNCHANGED <<mem, s_bvalid>> /\ WriteStep' /\ ReadStep'
  BY <1>2, <1>4 DEF vars, ramVars, axiVars, fsmVars, WriteStep, ReadStep
<1>7. top' \in Tops /\ CallOrder' /\ Waits'
  BY <1>1, <1>2, <1>3, <1>4 DEF CallOrder, Waits, Shown
<1>8. PortFree'
  BY <1>1, <1>2, <1>5, <1>6 DEF PortFree, BurstStage
<1>9. Programmed' /\ NotTaken'
  BY <1>1, <1>2, <1>3, <1>4, <1>6 DEF Programmed, NotTaken
<1>10. Writing' /\ Reading' /\ Judged' /\ InRun'
  BY <1>1, <1>2 DEF Writing, Reading, Judged, InRun
<1>. QED BY <1>7, <1>8, <1>9, <1>10 DEF ChecksIInv

LEMMA BeginChecks == ASSUME ChecksIInv, MemoryCall \/ EngineCall PROVE ChecksIInv'
<1>1. BenchIInv'
  BY MemoryCallKeeps, EngineCallKeeps DEF ChecksIInv
<1>2. CASE MemoryCall
  <2>1. top = "dma_ram"
    BY <1>2 DEF MemoryCall
  <2>2. PICK a \in Index, n \in 1 .. Beats :
          \/ \E ws \in [1 .. n -> Word], bs \in [1 .. n -> BOOLEAN] : Begin_(WriteCall(a, ws, bs))
          \/ Begin_(ReadCall(a, n))
    BY <1>2 DEF MemoryCall, WriteCall, ReadCall
  <2>. QED BY <1>1, <2>1, <2>2, WriteCallChecks, ReadCallChecks
<1>3. CASE EngineCall
  <2>1. Beats \in 1 .. Beats /\ top # "dma_ram"
    <3>1. Beats \in 1 .. Beats
      BY DmaAssumption
    <3>. QED BY <1>3, <3>1 DEF EngineCall
  <2>2. \/ calls = 0 /\ \E a \in RunSrc, b \in Block :
                          Begin_(WriteCall(a, b, [i \in 1 .. Beats |-> TRUE]))
        \/ calls = 1 /\ \E r \in Runs : Begin_(RunCall(r))
        \/ calls = 2 /\ \E a \in RunDst : Begin_(ReadCall(a, Beats))
    BY <1>3, Zenon DEF EngineCall, Runs, WriteCall, ReadCall, RunCall
  <2>3. ASSUME NEW a \in RunSrc, NEW b \in Block, calls = 0,
               Begin_(WriteCall(a, b, [i \in 1 .. Beats |-> TRUE]))
        PROVE  ChecksIInv'
    <3>. DEFINE bs == [i \in 1 .. Beats |-> TRUE]
    <3>1. b \in [1 .. Beats -> Word] /\ bs \in [1 .. Beats -> BOOLEAN]
      BY DmaAssumption
    <3>2. Begin_(WriteCall(a, b, bs))
      BY <2>3
    <3>. HIDE DEF bs
    <3>. QED BY <1>1, <2>1, <2>3, <3>1, <3>2, WriteCallChecks
  <2>. QED BY <1>1, <2>1, <2>2, <2>3, RunCallChecks, ReadCallChecks
<1>. QED BY <1>2, <1>3

LEMMA ChecksRest ==
  ASSUME ChecksIInv, UNCHANGED <<vars, top, seen, call, calls, expects>>
  PROVE  ChecksIInv'
<1>1. BenchIInv' /\ top' \in Tops /\ CallOrder' /\ Waits'
  <2>1. BenchIInv'
    BY BenchRests DEF ChecksIInv
  <2>. QED BY <2>1 DEF ChecksIInv, CallOrder, Waits, Shown
<1>. USE DEF vars, ramVars, regVars, axiVars, fsmVars
<1>2. PortFree'
  BY SeenStops DEF ChecksIInv, PortFree, BurstStage, Low, WriteStep, ReadStep
<1>3. Writing'
  BY DEF ChecksIInv, Writing, InMemory, Strobes
<1>4. Reading'
  BY DEF ChecksIInv, Reading, Collecting, Issued
<1>5. Judged' /\ NotTaken' /\ Programmed'
  BY DEF ChecksIInv, Judged, NotTaken, Programmed
<1>6. InRun'
  <2>1. UNCHANGED <<SeenLeft, SeenJob, Seen_, BlocksDone, expects, call, key_reg>>
    BY SeenStops DEF Seen_, BlocksDone
  <2>. QED BY <2>1 DEF ChecksIInv, InRun
<1>. QED BY <1>1, <1>2, <1>3, <1>4, <1>5, <1>6 DEF ChecksIInv

LEMMA InitChecks == BenchInit => ChecksIInv
<1>. SUFFICES ASSUME BenchInit PROVE ChecksIInv
  OBVIOUS
<1>1. Init /\ top \in Tops /\ seen = Idling /\ call = NoCall /\ calls = 0 /\ expects = mem
  BY DEF BenchInit
<1>2. call.stage = "judge" /\ call.ok /\ call.op = "none"
  BY <1>1 DEF NoCall
<1>3. WriteStep /\ ReadStep /\ SourceRead
  BY <1>1, InitEngine, InitCopies DEF EngineIInv, PortInv, CopyIInv
<1>4. BenchIInv /\ CallOrder
  BY <1>1, <1>2, InitBench DEF CallOrder
<1>5. Waits
  <2>1. Shown(seen.awready) /\ Shown(seen.arready)
    BY <1>1 DEF Shown, Idling, Blind
  <2>. QED BY <1>2, <2>1 DEF Waits
<1>6. PortFree /\ Judged /\ NotTaken
  BY <1>1, <1>2, <1>3 DEF PortFree, BurstStage, Judged, NotTaken
<1>7. Writing /\ Reading /\ Programmed /\ InRun
  BY <1>2 DEF Writing, Reading, Programmed, InRun
<1>. QED BY <1>1, <1>4, <1>5, <1>6, <1>7 DEF ChecksIInv

LEMMA ChecksKept == ASSUME ChecksIInv, BenchNext PROVE ChecksIInv'
<1>1. CASE MemoryCall \/ EngineCall
  BY <1>1, BeginChecks
<1>2. CASE InCall
  BY <1>2, AwChecks, WChecks, BChecks, ArChecks, RChecks, ConfigChecks, PollChecks, ClearChecks
  DEF InCall
<1>3. CASE Return
  BY <1>3, ChecksRest DEF Return
<1>. QED BY <1>1, <1>2, <1>3 DEF BenchNext

MCChecksIInv == half \in {"engine", "bench"} /\ (half = "bench" => ChecksIInv)

(* The checks of both benches hold, for a memory of any size, bursts of    *)
(* any length with any strobes, and operations of any number of blocks on  *)
(* any regions, overlapping ones included: a burst is answered and reads   *)
(* back what was written, a polled operation leaves the published answer   *)
(* in the destination and every other word untouched, although the         *)
(* response to the burst that stored the source is never taken             *)
(* (dma_engine_sim_main.cpp:57-206, dma_ram_sim_main.cpp:33-126).          *)
THEOREM DmaBenchesPass == MCSpec => []BenchInv
<1>1. MCInit => MCChecksIInv
  BY InitChecks DEF MCInit, MCChecksIInv
<1>2. ASSUME MCChecksIInv, [MCNext]_MCVars PROVE MCChecksIInv'
  <2>1. CASE EngineStep
    BY <1>2, <2>1 DEF EngineStep, MCChecksIInv
  <2>2. CASE BenchStep
    BY <1>2, <2>2, ChecksKept DEF BenchStep, MCChecksIInv
  <2>3. CASE UNCHANGED MCVars
    BY <1>2, <2>3, ChecksRest DEF MCVars, benchVars, MCChecksIInv
  <2>. QED BY <1>2, <2>1, <2>2, <2>3 DEF MCNext
<1>3. MCChecksIInv => BenchInv
  BY DEF MCChecksIInv, BenchInv, BenchPasses, ChecksIInv, Judged, Waits, NotTaken, BenchIInv,
         EngineRests
<1>. QED BY <1>1, <1>2, <1>3, PTL DEF MCSpec
=============================================================================
