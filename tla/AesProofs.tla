---------------------------- MODULE AesProofs ----------------------------
(***************************************************************************)
(* Proofs about the AES.  The peripheral, for every set of blocks and keys,*)
(* every block cipher with an inverse, every sequence of register writes   *)
(* and every time the block unit takes.  The core, on real keys and blocks:*)
(* it is a block unit, it takes 21 cycles, and it can undo what it does.   *)
(***************************************************************************)
EXTENDS AesPeriph, AesCore, SequenceTheorems, TLAPS

(* What the block unit computes of a block that was taken.                 *)
CoreResult(t) ==
  Cipher(core_encdec(t.mode, t.encdec), t.key,
         core_data_in(t.mode, t.encdec, t.data, t.iv))

(* Around that the chain builds the modes of SP 800-38A.                   *)
LEMMA ModesAreStandard ==
  ASSUME NEW t \in Taken
  PROVE  /\ chain_out(t.mode, t.encdec, t.data, t.iv, CoreResult(t)) = ModeOut(t)
         /\ next_iv(t.mode, t.encdec, t.data, t.iv, CoreResult(t)) = ModeNextIv(t)
<1>1. t.mode \in {"ECB", "CBC", "CTR"} /\ t.encdec \in BOOLEAN
  BY DEF Taken, Mode
<1>2. CASE t.mode = "CTR"
  <2>1. core_encdec(t.mode, t.encdec) = FALSE
    BY <1>2 DEF core_encdec
  <2>. QED BY <1>2, <2>1 DEF CoreResult, core_data_in, chain_out, next_iv, ModeOut, ModeNextIv
<1>3. CASE t.mode # "CTR" /\ t.encdec = TRUE
  <2>1. core_encdec(t.mode, t.encdec) = TRUE
    BY <1>3 DEF core_encdec
  <2>. QED BY <1>1, <1>3, <2>1
           DEF CoreResult, core_data_in, chain_out, next_iv, ModeOut, ModeNextIv, Ciphertext
<1>4. CASE t.mode # "CTR" /\ t.encdec = FALSE
  <2>1. core_encdec(t.mode, t.encdec) = FALSE
    BY <1>4 DEF core_encdec
  <2>. QED BY <1>1, <1>4, <2>1
           DEF CoreResult, core_data_in, chain_out, next_iv, ModeOut, ModeNextIv, Ciphertext
<1>. QED BY <1>1, <1>2, <1>3, <1>4

-----------------------------------------------------------------------------
(* The inductive invariant. *)

(* A result is there only when nothing is in progress, and is a block.     *)
BlockOK == core_done => op = None /\ core_out \in Block

(* Until a block is over the chain holds the operands it was taken with,   *)
(* IV included, and the block unit works, or has worked, on them.          *)
InProgress ==
  chain_busy /\ taken # None =>
    /\ mode_reg = taken.mode /\ encdec_reg = taken.encdec
    /\ data_in_reg = taken.data /\ iv_reg = taken.iv
    /\ op # None => Cipher(op.decrypt, op.key, op.data) = CoreResult(taken)
    /\ core_done => core_out = CoreResult(taken)

IInv ==
  /\ TypeOK /\ BlockOK /\ InProgress
  /\ ResultIsTheBlock /\ IvAdvances /\ ReadbackIsChainIv /\ DoneIsShown

LEMMA InitIInv == Init => IInv
<1>. SUFFICES ASSUME Init PROVE IInv
  OBVIOUS
<1>1. /\ op = None /\ core_done = FALSE /\ core_out = None /\ chain_state = "IDLE"
      /\ done_reg = FALSE /\ taken = None /\ data_out_reg = None
  BY DEF Init, ChainInit, BlockInit
<1>2. TypeOK
  BY <1>1, PeriphAssumption
  DEF Init, ChainInit, TypeOK, ChainTypeOK, BlockTypeOK, Mode, chain_busy, IvUse
<1>. QED BY <1>1, <1>2 DEF IInv, BlockOK, InProgress, chain_busy, ResultIsTheBlock, IvAdvances,
                            ReadbackIsChainIv, DoneIsShown, Init

-----------------------------------------------------------------------------
(* The chain under the peripheral's writes: START and LOAD_IV reach it     *)
(* only while it is idle.                                                  *)
ChainOK == ChainTypeOK /\ BlockOK /\ InProgress /\ ResultIsTheBlock /\ IvAdvances

LEMMA IdleChain ==
  ASSUME IInv,
         NEW load \in BOOLEAN, NEW start \in BOOLEAN, NEW encdec \in BOOLEAN, NEW mode \in Mode,
         ChainIdle(load, per_iv, start, encdec, mode, key_reg, data_reg)
  PROVE  ChainOK' /\ ~done_reg' /\ (chain_busy' <=> start) /\ (~start => taken' = taken)
<1>1. /\ chain_state = "IDLE" /\ op = None /\ ~core_done
      /\ key_reg \in Key /\ data_reg \in Block /\ per_iv \in Block /\ iv_reg \in Block
      /\ data_out_reg \in Block \union {None} /\ core_out \in Block \union {None}
  BY DEF ChainIdle, IInv, TypeOK, ChainTypeOK, BlockTypeOK, chain_busy
<1>2. done_reg' = FALSE /\ iv_reg' \in Block /\ data_out_reg' = data_out_reg
  BY <1>1 DEF ChainIdle
<1>3. CASE ~start
  <2>1. /\ UNCHANGED <<mode_reg, encdec_reg, data_in_reg, chain_state, taken, op, core_out>>
        /\ core_done' = FALSE
    BY <1>3 DEF ChainIdle, Pass
  <2>2. ChainTypeOK'
    BY <1>1, <1>2, <2>1 DEF IInv, TypeOK, ChainTypeOK, BlockTypeOK, chain_busy
  <2>3. ResultIsTheBlock'
    BY <1>1, <1>2, <2>1 DEF IInv, ResultIsTheBlock, chain_busy, ModeOut
  <2>. QED BY <1>1, <1>2, <1>3, <2>1, <2>2, <2>3
           DEF ChainOK, BlockOK, InProgress, IvAdvances, chain_busy
<1>4. CASE start
  <2>. DEFINE t == [mode |-> mode, encdec |-> encdec, key |-> key_reg,
                    data |-> data_reg, iv |-> iv_reg]
  <2>1. /\ mode_reg' = mode /\ encdec_reg' = encdec /\ data_in_reg' = data_reg
        /\ chain_state' = "CORE" /\ taken' = (IF load THEN None ELSE t)
        /\ op' = [decrypt |-> core_encdec(mode, encdec), key |-> key_reg,
                  data |-> core_data_in(mode, encdec, data_reg, iv_reg)]
        /\ op' \in Operation /\ core_done' = FALSE /\ core_out' = core_out
    BY <1>4 DEF ChainIdle, Begin, live_mode
  <2>2. t \in Taken
    BY <1>1 DEF Taken
  <2>3. op' # None
    BY <2>1, BlockNone
  <2>4. ChainTypeOK'
    BY <1>1, <1>2, <2>1, <2>2, <2>3 DEF ChainTypeOK, BlockTypeOK, chain_busy
  <2>5. InProgress'
    <3>. SUFFICES ASSUME taken' # None PROVE
           /\ mode_reg' = taken'.mode /\ encdec_reg' = taken'.encdec
           /\ data_in_reg' = taken'.data /\ iv_reg' = taken'.iv
           /\ Cipher(op'.decrypt, op'.key, op'.data) = CoreResult(taken')
      BY <2>1 DEF InProgress
    <3>1. ~load /\ taken' = t /\ iv_reg' = iv_reg
      BY <1>1, <2>1 DEF ChainIdle
    <3>. QED BY <2>1, <3>1 DEF CoreResult
  <2>. QED BY <1>2, <1>4, <2>1, <2>4, <2>5
           DEF ChainOK, BlockOK, ResultIsTheBlock, IvAdvances, chain_busy
<1>. QED BY <1>3, <1>4

LEMMA WaitingChain ==
  ASSUME IInv, ChainWait(FALSE, per_iv)
  PROVE  ChainOK' /\ ~done_reg' /\ chain_busy' /\ taken' = taken
<1>1. /\ chain_state = "CORE" /\ chain_state' = "CORE" /\ ~core_done /\ done_reg' = FALSE
      /\ UNCHANGED <<iv_reg, mode_reg, encdec_reg, data_in_reg, data_out_reg, taken>>
      /\ op \in Operation /\ op # None
  BY BlockNone DEF ChainWait, IInv, TypeOK, ChainTypeOK, BlockTypeOK, chain_busy
<1>2. CASE Finish
  <2>1. /\ op' = None /\ core_done' = TRUE
        /\ core_out' = Cipher(op.decrypt, op.key, op.data) /\ core_out' \in Block
    BY <1>1, <1>2, CipherType DEF Finish, Operation
  <2>2. ChainTypeOK'
    BY <1>1, <2>1 DEF IInv, TypeOK, ChainTypeOK, BlockTypeOK, chain_busy
  <2>3. InProgress'
    BY <1>1, <2>1 DEF IInv, InProgress, chain_busy, CoreResult
  <2>. QED BY <1>1, <2>1, <2>2, <2>3 DEF ChainOK, BlockOK, ResultIsTheBlock, IvAdvances, chain_busy
<1>3. CASE Pass
  <2>1. op' = op /\ core_done' = FALSE /\ core_out' = core_out
    BY <1>3 DEF Pass
  <2>2. ChainTypeOK'
    BY <1>1, <2>1 DEF IInv, TypeOK, ChainTypeOK, BlockTypeOK, chain_busy
  <2>3. InProgress'
    BY <1>1, <2>1 DEF IInv, InProgress, chain_busy, CoreResult
  <2>. QED BY <1>1, <2>1, <2>2, <2>3 DEF ChainOK, BlockOK, ResultIsTheBlock, IvAdvances, chain_busy
<1>. QED BY <1>2, <1>3 DEF ChainWait

LEMMA EndingChain ==
  ASSUME IInv, ChainDone(FALSE, per_iv)
  PROVE  ChainOK' /\ done_reg' /\ ~chain_busy' /\ taken' = taken
<1>1. /\ chain_state = "CORE" /\ chain_state' = "IDLE" /\ core_done /\ op = None
      /\ done_reg' = TRUE /\ op' = op /\ core_done' = FALSE /\ core_out' = core_out
      /\ UNCHANGED <<mode_reg, encdec_reg, data_in_reg, taken>>
      /\ core_out \in Block /\ mode_reg \in Mode /\ encdec_reg \in BOOLEAN
      /\ data_in_reg \in Block /\ iv_reg \in Block
  BY DEF ChainDone, Pass, IInv, TypeOK, BlockOK, ChainTypeOK, BlockTypeOK
<1>2. /\ data_out_reg' = chain_out(mode_reg, encdec_reg, data_in_reg, iv_reg, core_out)
      /\ iv_reg' = next_iv(mode_reg, encdec_reg, data_in_reg, iv_reg, core_out)
  BY DEF ChainDone
<1>3. data_out_reg' \in Block
  BY <1>1, <1>2, XorType DEF chain_out
<1>4. iv_reg' \in Block
  BY <1>1, <1>2, IncType DEF next_iv
<1>5. ChainTypeOK'
  BY <1>1, <1>3, <1>4 DEF IInv, TypeOK, ChainTypeOK, BlockTypeOK, chain_busy
<1>6. taken # None => data_out_reg' = ModeOut(taken) /\ iv_reg' = ModeNextIv(taken)
  <2>. SUFFICES ASSUME taken # None
                PROVE  data_out_reg' = ModeOut(taken) /\ iv_reg' = ModeNextIv(taken)
    OBVIOUS
  <2>1. taken \in Taken
    BY DEF IInv, TypeOK, ChainTypeOK
  <2>2. /\ mode_reg = taken.mode /\ encdec_reg = taken.encdec
        /\ data_in_reg = taken.data /\ iv_reg = taken.iv /\ core_out = CoreResult(taken)
    BY <1>1 DEF IInv, InProgress, chain_busy
  <2>. QED BY <1>2, <2>1, <2>2, ModesAreStandard
<1>7. ResultIsTheBlock' /\ IvAdvances'
  BY <1>1, <1>6 DEF ResultIsTheBlock, IvAdvances, ModeOut, ModeNextIv, Ciphertext
<1>. QED BY <1>1, <1>5, <1>7 DEF ChainOK, BlockOK, InProgress, chain_busy

-----------------------------------------------------------------------------
(* One edge of the peripheral. *)

LEMMA EdgeIInv == ASSUME IInv, NEW w \in Writes, Edge(w) PROVE IInv'
<1>. DEFINE encdec == w.reg = "CTRL" /\ w.encdec
            mode == IF w.reg = "CTRL" THEN w.mode ELSE "ECB"
<1>1. /\ w.reg = "CTRL" => w.start \in BOOLEAN /\ w.load \in BOOLEAN /\ w.encdec \in BOOLEAN
                           /\ w.mode \in Mode
      /\ w.reg = "KEY" => w.key \in Key
      /\ w.reg \in {"DATA", "IV"} => w.block \in Block
  BY PeriphAssumption DEF Writes, Ctrl, Mode
<1>2. /\ do_load_iv(w) \in BOOLEAN /\ do_start(w) \in BOOLEAN /\ encdec \in BOOLEAN
      /\ mode \in Mode
      /\ do_load_iv(w) \/ do_start(w) => chain_state = "IDLE" /\ w.reg = "CTRL"
  BY <1>1 DEF do_load_iv, do_start, chain_busy, Mode
<1>3. /\ ChainOK'
      /\ \/ /\ ~chain_busy /\ ~done_reg' /\ (chain_busy' <=> do_start(w))
            /\ ~do_start(w) => taken' = taken
         \/ chain_busy /\ chain_busy'
         \/ chain_busy /\ done_reg'
  <2>1. ChainEdge(do_load_iv(w), per_iv, do_start(w), encdec, mode, key_reg, data_reg)
    BY DEF Edge
  <2>. HIDE DEF encdec, mode
  <2>2. CASE ChainIdle(do_load_iv(w), per_iv, do_start(w), encdec, mode, key_reg, data_reg)
    BY <1>2, <2>2, IdleChain DEF ChainIdle, chain_busy
  <2>3. CASE ChainWait(do_load_iv(w), per_iv)
    <3>1. do_load_iv(w) = FALSE /\ chain_state = "CORE"
      BY <1>2, <2>3 DEF ChainWait
    <3>. QED BY <2>3, <3>1, WaitingChain DEF chain_busy
  <2>4. CASE ChainDone(do_load_iv(w), per_iv)
    <3>1. do_load_iv(w) = FALSE /\ chain_state = "CORE"
      BY <1>2, <2>4 DEF ChainDone
    <3>. QED BY <2>4, <3>1, EndingChain DEF chain_busy
  <2>. QED BY <2>1, <2>2, <2>3, <2>4 DEF ChainEdge
<1>4. TypeOK'
  <2>1. key_reg' \in Key /\ data_reg' \in Block
    BY <1>1 DEF Edge, IInv, TypeOK
  <2>2. per_iv' \in Block
    BY <1>1 DEF Edge, MirrorIv, IInv, TypeOK, ChainTypeOK
  <2>3. irq_pulse' \in BOOLEAN /\ status_done' \in BOOLEAN /\ cleared' \in BOOLEAN
    BY DEF Edge, Irq, StatusDone, IInv, TypeOK, ChainTypeOK
  <2>4. iv_use' \in IvUse
    BY DEF Edge, IvUse, IInv, TypeOK
  <2>. QED BY <1>3, <2>1, <2>2, <2>3, <2>4 DEF TypeOK, ChainOK
<1>5. ReadbackIsChainIv'
  <2>. SUFFICES ASSUME ~chain_busy', ~done_reg', taken' # None, iv_use' = "chain"
                PROVE  per_iv' = ModeNextIv(taken')
    BY DEF ReadbackIsChainIv, ModeNextIv, Ciphertext, ModeOut
  <2>1. ~chain_busy /\ ~do_start(w) /\ taken' = taken
    BY <1>3
  <2>2. w.reg # "IV" /\ iv_use = "chain"
    BY <2>1 DEF Edge
  <2>3. per_iv' = IF done_reg THEN iv_reg ELSE per_iv
    BY <2>2 DEF Edge, MirrorIv
  <2>. QED BY <2>1, <2>2, <2>3 DEF IInv, IvAdvances, ReadbackIsChainIv
<1>6. DoneIsShown'
  <2>. SUFFICES ASSUME ~chain_busy', ~done_reg', ~cleared'
                PROVE  status_done'
    BY DEF DoneIsShown
  <2>1. ~chain_busy /\ ~do_start(w)
    BY <1>3
  <2>2. w.reg # "DONE" /\ ~cleared
    BY <2>1 DEF Edge
  <2>. QED BY <2>1, <2>2 DEF Edge, StatusDone, IInv, DoneIsShown
<1>. QED BY <1>3, <1>4, <1>5, <1>6 DEF IInv, ChainOK

LEMMA Invariance == Spec => []IInv
<1>1. IInv /\ UNCHANGED vars => IInv'
  <2>. SUFFICES ASSUME IInv, UNCHANGED vars PROVE IInv'
    OBVIOUS
  <2>1. UNCHANGED <<op, core_done, core_out, chain_state, mode_reg, encdec_reg, data_in_reg,
                    iv_reg, data_out_reg, done_reg, taken, key_reg, data_reg, per_iv,
                    status_done, irq_pulse, cleared, iv_use>>
    BY DEF vars, chainVars, blockVars
  <2>2. TypeOK' /\ BlockOK' /\ DoneIsShown'
    BY <2>1 DEF IInv, TypeOK, ChainTypeOK, BlockTypeOK, chain_busy, BlockOK, DoneIsShown
  <2>3. InProgress'
    BY <2>1 DEF IInv, InProgress, CoreResult, chain_busy
  <2>4. ResultIsTheBlock'
    BY <2>1 DEF IInv, ResultIsTheBlock, ModeOut, chain_busy
  <2>5. IvAdvances' /\ ReadbackIsChainIv'
    BY <2>1 DEF IInv, IvAdvances, ReadbackIsChainIv, ModeNextIv, Ciphertext, ModeOut, chain_busy
  <2>. QED BY <2>2, <2>3, <2>4, <2>5 DEF IInv
<1>2. IInv /\ [Next]_vars => IInv'
  BY <1>1, EdgeIInv DEF Next
<1>. QED BY <1>2, InitIInv, PTL DEF Spec

-----------------------------------------------------------------------------
(* Whatever software writes while a block is in progress, its result is    *)
(* that of SP 800-38A for the operands it was taken with (aes.v:121-160,   *)
(* aes_chain.v:100-147).                                                   *)
THEOREM ResultIsOfTheOperands == Spec => []ResultIsTheBlock
<1>1. IInv => ResultIsTheBlock
  BY DEF IInv
<1>. QED BY <1>1, Invariance, PTL

(* The chaining value after a block is that of the block, software that    *)
(* leaves the IV alone reads it back, and a polling loop ends.             *)
THEOREM PeriphInvariant == Spec => []PeriphInv
<1>1. IInv => PeriphInv
  BY DEF IInv, PeriphInv
<1>. QED BY <1>1, Invariance, PTL

-----------------------------------------------------------------------------
(***************************************************************************)
(* The core, for all keys and blocks.                                      *)
(***************************************************************************)

(* Exclusive or, as arithmetic on the bits of four bits.                   *)
Xor2(a, b, i) == (a \div i + b \div i) % 2
XorNibble(a, b) == Xor2(a, b, 1) + 2 * Xor2(a, b, 2) + 4 * Xor2(a, b, 4) + 8 * Xor2(a, b, 8)

LEMMA XorNibbleType == \A a, b \in 0 .. 15 : XorNibble(a, b) \in 0 .. 15
<1>. SUFFICES ASSUME NEW a \in 0 .. 15, NEW b \in 0 .. 15 PROVE XorNibble(a, b) \in 0 .. 15
  OBVIOUS
<1>1. /\ Xor2(a, b, 1) \in 0 .. 1 /\ Xor2(a, b, 2) \in 0 .. 1
      /\ Xor2(a, b, 4) \in 0 .. 1 /\ Xor2(a, b, 8) \in 0 .. 1
  BY DEF Xor2
<1>. QED BY <1>1 DEF XorNibble

(* The table holds the exclusive or of its row and its column. *)
LEMMA NibbleXorIs == \A a, b \in 0 .. 15 : NibbleXor[a + 1][b + 1] = XorNibble(a, b)
<1>. DEFINE row(a) == [b \in 1 .. 16 |-> XorNibble(a - 1, b - 1)]
            rows == [a \in 1 .. 16 |-> row(a) \o << >>]
<1>2. \A a \in 1 .. 16 : row(a) \in Seq(0 .. 15) /\ Len(row(a)) = 16
  BY XorNibbleType
<1>3. \A a \in 1 .. 16 : row(a) \o << >> = row(a)
  <2>. HIDE DEF row
  <2>. QED BY <1>2, ConcatEmptySeq
<1>4. rows \in Seq(Seq(0 .. 15)) /\ Len(rows) = 16
  <2>. HIDE DEF row
  <2>. QED BY <1>2, <1>3
<1>5. NibbleXor = rows
  <2>1. NibbleXor = rows \o << >>
    BY DEF NibbleXor, XorNibble, Xor2
  <2>. HIDE DEF rows
  <2>. QED BY <1>4, <2>1, ConcatEmptySeq
<1>6. \A a \in 1 .. 16 : NibbleXor[a] = row(a)
  BY <1>3, <1>5
<1>7. ASSUME NEW a \in 0 .. 15, NEW b \in 0 .. 15 PROVE NibbleXor[a + 1][b + 1] = XorNibble(a, b)
  <2>1. NibbleXor[a + 1] = row(a + 1)
    BY <1>6
  <2>2. (a + 1) - 1 = a /\ (b + 1) - 1 = b /\ b + 1 \in 1 .. 16
    OBVIOUS
  <2>. QED BY <2>1, <2>2
<1>. QED BY <1>7

(* So the exclusive or of bytes is that of their halves.                   *)
LEMMA XorIs ==
  ASSUME NEW a \in Byte, NEW b \in Byte
  PROVE  a \oplus b = 16 * XorNibble(a \div 16, b \div 16) + XorNibble(a % 16, b % 16)
         /\ a \oplus b \in Byte
<1>1. a \div 16 \in 0 .. 15 /\ b \div 16 \in 0 .. 15 /\ a % 16 \in 0 .. 15 /\ b % 16 \in 0 .. 15
  BY DEF Byte
<1>2. a \oplus b = 16 * XorNibble(a \div 16, b \div 16) + XorNibble(a % 16, b % 16)
  BY <1>1, NibbleXorIs DEF \oplus
<1>3. \A x, y \in 0 .. 15 : 16 * x + y \in 0 .. 255
  OBVIOUS
<1>. QED BY <1>1, <1>2, <1>3, XorNibbleType DEF Byte

(* What the datapath computes of bytes are bytes, of blocks blocks.        *)
LEMMA XorByteType == \A a, b \in Byte : a \oplus b \in Byte
BY XorIs

LEMMA SboxType == \A a \in Byte : aes_sbox_fwd(a) \in Byte /\ aes_sbox_inv(a) \in Byte
<1>1. ASSUME NEW a \in Byte PROVE aes_sbox_fwd(a) \in Byte
  BY SMTT(60) DEF aes_sbox_fwd, sboxFwdTable, Byte
<1>2. ASSUME NEW a \in Byte PROVE aes_sbox_inv(a) \in Byte
  BY SMTT(60) DEF aes_sbox_inv, sboxInvTable, Byte
<1>. QED BY <1>1, <1>2

LEMMA ProductTypes ==
  ASSUME NEW a \in Byte
  PROVE  /\ aes_gmul2(a) \in Byte /\ aes_gmul3(a) \in Byte /\ aes_gmul9(a) \in Byte
         /\ aes_gmul11(a) \in Byte /\ aes_gmul13(a) \in Byte /\ aes_gmul14(a) \in Byte
<1>1. \A b \in Byte : aes_xtime(b) \in Byte
  <2>. SUFFICES ASSUME NEW b \in Byte PROVE aes_xtime(b) \in Byte
    OBVIOUS
  <2>1. 27 \in Byte /\ (2 * b) % 256 \in Byte /\ (b < 128 => 2 * b \in Byte)
    BY DEF Byte
  <2>2. ((2 * b) % 256) \oplus 27 \in Byte
    BY <2>1, XorByteType
  <2>3. b >= 128 \/ b < 128
    BY DEF Byte
  <2>. QED BY <2>1, <2>2, <2>3 DEF aes_xtime, Byte
<1>2. xtime4(a) \in Byte /\ xtime8(a) \in Byte
  BY <1>1 DEF xtime4, xtime8
<1>. QED BY <1>1, <1>2, XorByteType
     DEF aes_gmul2, aes_gmul3, aes_gmul9, aes_gmul11, aes_gmul13, aes_gmul14

LEMMA ByteAtType == ASSUME NEW s \in State, NEW i \in 0 .. 15 PROVE byte_at(s, i) \in Byte
BY DEF byte_at, State

LEMMA XorStateType == ASSUME NEW s \in State, NEW t \in State PROVE XorState(s, t) \in State
<1>. DEFINE f(i) == byte_at(s, i) \oplus byte_at(t, i)
<1>1. \A i \in 0 .. 15 : f(i) \in Byte
  BY ByteAtType, XorByteType
<1>. HIDE DEF f
<1>. QED BY <1>1 DEF XorState, EachByte, State, f

LEMMA LayerTypes ==
  ASSUME NEW s \in State
  PROVE  /\ aes_sub_bytes(s) \in State /\ aes_inv_sub_bytes(s) \in State
         /\ aes_shift_rows(s) \in State /\ aes_inv_shift_rows(s) \in State
         /\ aes_mix_columns(s) \in State /\ aes_inv_mix_columns(s) \in State
<1>1. aes_sub_bytes(s) \in State
  <2>. DEFINE f(i) == aes_sbox_fwd(byte_at(s, i))
  <2>1. \A i \in 0 .. 15 : f(i) \in Byte
    BY ByteAtType, SboxType
  <2>. HIDE DEF f
  <2>. QED BY <2>1 DEF aes_sub_bytes, EachByte, State, f
<1>2. aes_inv_sub_bytes(s) \in State
  <2>. DEFINE f(i) == aes_sbox_inv(byte_at(s, i))
  <2>1. \A i \in 0 .. 15 : f(i) \in Byte
    BY ByteAtType, SboxType
  <2>. HIDE DEF f
  <2>. QED BY <2>1 DEF aes_inv_sub_bytes, EachByte, State, f
<1>3. aes_shift_rows(s) \in State
  <2>. DEFINE f(i) == byte_at(s, shiftRowsFrom[i + 1])
  <2>1. \A i \in 0 .. 15 : shiftRowsFrom[i + 1] \in 0 .. 15
    BY DEF shiftRowsFrom
  <2>2. \A i \in 0 .. 15 : f(i) \in Byte
    BY <2>1, ByteAtType
  <2>. HIDE DEF f
  <2>. QED BY <2>2 DEF aes_shift_rows, EachByte, State, f
<1>4. aes_inv_shift_rows(s) \in State
  <2>. DEFINE f(i) == byte_at(s, invShiftRowsFrom[i + 1])
  <2>1. \A i \in 0 .. 15 : invShiftRowsFrom[i + 1] \in 0 .. 15
    BY DEF invShiftRowsFrom
  <2>2. \A i \in 0 .. 15 : f(i) \in Byte
    BY <2>1, ByteAtType
  <2>. HIDE DEF f
  <2>. QED BY <2>2 DEF aes_inv_shift_rows, EachByte, State, f
<1>5. \A i \in 0 .. 15, n \in 0 .. 3 : byte_at(s, Below(i, n)) \in Byte
  <2>1. \A i \in 0 .. 15, n \in 0 .. 3 : Below(i, n) \in 0 .. 15
    BY DEF Below
  <2>. QED BY <2>1, ByteAtType
<1>6. aes_mix_columns(s) \in State
  <2>. DEFINE f(i) == MixByte(byte_at(s, i), byte_at(s, Below(i, 1)),
                           byte_at(s, Below(i, 2)), byte_at(s, Below(i, 3)))
  <2>1. \A a, b, c, d \in Byte : MixByte(a, b, c, d) \in Byte
    BY ProductTypes, XorByteType DEF MixByte
  <2>2. ASSUME NEW i \in 0 .. 15 PROVE f(i) \in Byte
    <3>1. /\ byte_at(s, i) \in Byte /\ byte_at(s, Below(i, 1)) \in Byte
          /\ byte_at(s, Below(i, 2)) \in Byte /\ byte_at(s, Below(i, 3)) \in Byte
      BY <1>5, ByteAtType
    <3>. QED BY <2>1, <3>1
  <2>. HIDE DEF f
  <2>. QED BY <2>2 DEF aes_mix_columns, EachByte, State, f
<1>7. aes_inv_mix_columns(s) \in State
  <2>. DEFINE f(i) == InvMixByte(byte_at(s, i), byte_at(s, Below(i, 1)),
                              byte_at(s, Below(i, 2)), byte_at(s, Below(i, 3)))
  <2>1. \A a, b, c, d \in Byte : InvMixByte(a, b, c, d) \in Byte
    BY ProductTypes, XorByteType DEF InvMixByte
  <2>2. ASSUME NEW i \in 0 .. 15 PROVE f(i) \in Byte
    <3>1. /\ byte_at(s, i) \in Byte /\ byte_at(s, Below(i, 1)) \in Byte
          /\ byte_at(s, Below(i, 2)) \in Byte /\ byte_at(s, Below(i, 3)) \in Byte
      BY <1>5, ByteAtType
    <3>. QED BY <2>1, <3>1
  <2>. HIDE DEF f
  <2>. QED BY <2>2 DEF aes_inv_mix_columns, EachByte, State, f
<1>. QED BY <1>1, <1>2, <1>3, <1>4, <1>6, <1>7

LEMMA NextRoundKeyType ==
  ASSUME NEW key \in State, NEW r \in 1 .. 10
  PROVE  NextRoundKey(key, r) \in State
<1>. DEFINE g(k)  == aes_sbox_fwd(byte_at(key, 12 + ((k + 1) % 4)))
                     \oplus (IF k = 0 THEN rcon_byte(r) ELSE 0)
            w0(k) == byte_at(key, k) \oplus g(k)
            w1(k) == byte_at(key, 4 + k) \oplus w0(k)
            w2(k) == byte_at(key, 8 + k) \oplus w1(k)
            w3(k) == byte_at(key, 12 + k) \oplus w2(k)
<1>1. rcon_byte(r) \in Byte /\ 0 \in Byte
  BY DEF rcon_byte, Byte
<1>2. ASSUME NEW k \in 0 .. 3
      PROVE  w0(k) \in Byte /\ w1(k) \in Byte /\ w2(k) \in Byte /\ w3(k) \in Byte
  <2>1. /\ 12 + ((k + 1) % 4) \in 0 .. 15 /\ 4 + k \in 0 .. 15 /\ 8 + k \in 0 .. 15
        /\ 12 + k \in 0 .. 15 /\ k \in 0 .. 15
    OBVIOUS
  <2>2. g(k) \in Byte
    <3>1. aes_sbox_fwd(byte_at(key, 12 + ((k + 1) % 4))) \in Byte
      BY <2>1, ByteAtType, SboxType
    <3>. QED BY <1>1, <3>1, XorByteType
  <2>. HIDE DEF g
  <2>. QED BY <2>1, <2>2, ByteAtType, XorByteType
<1>3. NextRoundKey(key, r) = <<w0(0), w0(1), w0(2), w0(3), w1(0), w1(1), w1(2), w1(3),
                               w2(0), w2(1), w2(2), w2(3), w3(0), w3(1), w3(2), w3(3)>>
  BY DEF NextRoundKey
<1>. HIDE DEF w0, w1, w2, w3
<1>. QED BY <1>2, <1>3 DEF State

-----------------------------------------------------------------------------
(* The reference as a chain of states.                                     *)

(* From x on, each element a step from the one before it.                  *)
Chain(K, S, x, F) ==
  K \in [0 .. 10 -> S] /\ K[0] = x /\ \A r \in 1 .. 10 : K[r] = F[r][K[r - 1]]

(* There is one, as recursion over eleven elements is eleven definitions.  *)
LEMMA ChainExists ==
  ASSUME NEW S, NEW x \in S, NEW F \in [1 .. 10 -> [S -> S]]
  PROVE  \E K : Chain(K, S, x, F)
<1>. DEFINE k1 == F[1][x]   k2 == F[2][k1]   k3 == F[3][k2]   k4 == F[4][k3]
            k5 == F[5][k4]  k6 == F[6][k5]   k7 == F[7][k6]   k8 == F[8][k7]
            k9 == F[9][k8]  k10 == F[10][k9]
            K == [r \in 0 .. 10 |-> <<x, k1, k2, k3, k4, k5, k6, k7, k8, k9, k10>>[r + 1]]
<1>1. \A r \in 1 .. 10, k \in S : F[r][k] \in S
  OBVIOUS
<1>2. k1 \in S /\ k2 \in S /\ k3 \in S /\ k4 \in S /\ k5 \in S
  BY <1>1
<1>3. k6 \in S /\ k7 \in S /\ k8 \in S /\ k9 \in S /\ k10 \in S
  <2>. HIDE DEF k5
  <2>. QED BY <1>1, <1>2
<1>. HIDE DEF k1, k2, k3, k4, k5, k6, k7, k8, k9, k10
<1>4. /\ K[0] = x /\ K[1] = k1 /\ K[2] = k2 /\ K[3] = k3 /\ K[4] = k4 /\ K[5] = k5
      /\ K[6] = k6 /\ K[7] = k7 /\ K[8] = k8 /\ K[9] = k9 /\ K[10] = k10
  OBVIOUS
<1>5. \A r \in 0 .. 10 : r \in {0, 1, 2, 3, 4, 5, 6, 7, 8, 9, 10}
  OBVIOUS
<1>6. DOMAIN K = 0 .. 10 /\ K = [r \in 0 .. 10 |-> K[r]]
  OBVIOUS
<1>. HIDE DEF K
<1>7. K \in [0 .. 10 -> S]
  <2>1. \A r \in 0 .. 10 : K[r] \in S
    BY <1>2, <1>3, <1>4, <1>5
  <2>. QED BY <1>6, <2>1
<1>8. ASSUME NEW r \in 1 .. 10 PROVE K[r] = F[r][K[r - 1]]
  <2>1. r \in {1, 2, 3, 4, 5, 6, 7, 8, 9, 10}
    OBVIOUS
  <2>2. K[1] = F[1][K[0]] /\ K[2] = F[2][K[1]] /\ K[3] = F[3][K[2]]
    BY <1>4 DEF k1, k2, k3
  <2>3. K[4] = F[4][K[3]]
    BY <1>4 DEF k4
  <2>4. K[5] = F[5][K[4]] /\ K[6] = F[6][K[5]] /\ K[7] = F[7][K[6]]
    BY <1>4 DEF k5, k6, k7
  <2>5. K[8] = F[8][K[7]] /\ K[9] = F[9][K[8]] /\ K[10] = F[10][K[9]]
    BY <1>4 DEF k8, k9, k10
  <2>6. CASE r \in {1, 2, 3, 4}
    <3>1. CASE r = 1
      BY <2>2, <3>1
    <3>2. CASE r = 2
      BY <2>2, <3>2
    <3>3. CASE r = 3
      BY <2>2, <3>3
    <3>4. CASE r = 4
      BY <2>3, <3>4
    <3>. QED BY <2>6, <3>1, <3>2, <3>3, <3>4
  <2>7. CASE r \in {5, 6, 7}
    <3>1. CASE r = 5
      BY <2>4, <3>1
    <3>2. CASE r = 6
      BY <2>4, <3>2
    <3>3. CASE r = 7
      BY <2>4, <3>3
    <3>. QED BY <2>7, <3>1, <3>2, <3>3
  <2>8. CASE r \in {8, 9, 10}
    <3>1. CASE r = 8
      BY <2>5, <3>1
    <3>2. CASE r = 9
      BY <2>5, <3>2
    <3>3. CASE r = 10
      BY <2>5, <3>3
    <3>. QED BY <2>8, <3>1, <3>2, <3>3
  <2>. QED BY <2>1, <2>6, <2>7, <2>8
<1>. QED BY <1>4, <1>7, <1>8 DEF Chain

(* The first r + 1 elements of a chain.                                    *)
Upto(K, r) == [i \in 1 .. r + 1 |-> K[i - 1]]

(* They grow as the reference's sequences of keys and states do.           *)
LEMMA UptoGrows ==
  ASSUME NEW S, NEW K \in [0 .. 10 -> S], NEW r \in 1 .. 10
  PROVE  /\ Upto(K, r - 1)[r] = K[r - 1]
         /\ Append(Upto(K, r - 1), K[r]) = Upto(K, r)
<1>1. Upto(K, r - 1) \in Seq(S) /\ Len(Upto(K, r - 1)) = r
  BY DEF Upto
<1>2. Upto(K, r) \in Seq(S) /\ Len(Upto(K, r)) = r + 1
  BY DEF Upto
<1>3. K[r] \in S
  OBVIOUS
<1>4. /\ Append(Upto(K, r - 1), K[r]) \in Seq(S) /\ Len(Append(Upto(K, r - 1), K[r])) = r + 1
      /\ \A i \in 1 .. r : Append(Upto(K, r - 1), K[r])[i] = Upto(K, r - 1)[i]
      /\ Append(Upto(K, r - 1), K[r])[r + 1] = K[r]
  BY <1>1, <1>3, AppendProperties
<1>5. \A i \in 1 .. r + 1 : Append(Upto(K, r - 1), K[r])[i] = Upto(K, r)[i]
  BY <1>4 DEF Upto
<1>6. Upto(K, r - 1)[r] = K[r - 1]
  BY DEF Upto
<1>. QED BY <1>2, <1>4, <1>5, <1>6, SeqEqual

(* A function that does as the reference on what it has so far does so to  *)
(* the end.                                                                *)
LEMMA AllTheWay ==
  ASSUME NEW w, NEW K, NEW N \in 0 .. 10, w[0] = Upto(K, 0),
         \A r \in 1 .. N : w[r - 1] = Upto(K, r - 1) => w[r] = Upto(K, r)
  PROVE  w[N] = Upto(K, N)
<1>. DEFINE P(r) == r <= N => w[r] = Upto(K, r)
<1>1. P(0)
  OBVIOUS
<1>2. ASSUME NEW r \in 1 .. 10, P(r - 1) PROVE P(r)
  BY <1>2
<1>3. P(1) /\ P(2) /\ P(3) /\ P(4) /\ P(5)
  <2>. HIDE DEF P
  <2>1. P(1)
    BY <1>1, <1>2
  <2>2. P(2)
    BY <1>2, <2>1
  <2>3. P(3)
    BY <1>2, <2>2
  <2>4. P(4)
    BY <1>2, <2>3
  <2>. QED BY <1>2, <2>1, <2>2, <2>3, <2>4
<1>4. P(6) /\ P(7) /\ P(8) /\ P(9) /\ P(10)
  <2>. HIDE DEF P
  <2>1. P(6)
    BY <1>2, <1>3
  <2>2. P(7)
    BY <1>2, <2>1
  <2>3. P(8)
    BY <1>2, <2>2
  <2>4. P(9)
    BY <1>2, <2>3
  <2>. QED BY <1>2, <2>1, <2>2, <2>3, <2>4
<1>5. N \in {0, 1, 2, 3, 4, 5, 6, 7, 8, 9, 10}
  OBVIOUS
<1>. QED BY <1>1, <1>3, <1>4, <1>5

(* The round keys of a key.                                                *)
KeyStep == [r \in 1 .. 10 |-> [k \in State |-> NextRoundKey(k, r)]]

(* The reference's recursive definitions are chains: RoundKeys here, and   *)
(* after and back below, have the one solution that AllTheWay finds.       *)
LEMMA RoundKeysAre ==
  ASSUME NEW key \in State, NEW K, Chain(K, State, key, KeyStep)
  PROVE  RoundKeys(key) = Upto(K, 10)
<1>. DEFINE S(v, r) == IF r = 0 THEN <<key>>
                       ELSE LET u == v[r - 1] IN Append(u, NextRoundKey(u[r], r))
            w[r \in 0 .. 10] == S(w, r)
            G == [r \in 0 .. 10 |-> Upto(K, r)]
<1>1. RoundKeys(key) = w[10]
  BY DEF RoundKeys
<1>2. K \in [0 .. 10 -> State] /\ K[0] = key
  BY DEF Chain
<1>3. Upto(K, 0) = <<key>>
  BY <1>2 DEF Upto
<1>4. ASSUME NEW v, NEW r \in 1 .. 10, v[r - 1] = Upto(K, r - 1)
      PROVE  S(v, r) = Upto(K, r)
  <2>1. K[r] = NextRoundKey(K[r - 1], r)
    BY <1>2 DEF Chain, KeyStep
  <2>2. S(v, r) = Append(Upto(K, r - 1), NextRoundKey(Upto(K, r - 1)[r], r))
    BY <1>4
  <2>. HIDE DEF S
  <2>. QED BY <1>2, <2>1, <2>2, UptoGrows
<1>5. \A v : S(v, 0) = <<key>>
  OBVIOUS
<1>6. G = [r \in 0 .. 10 |-> S(G, r)]
  <2>. HIDE DEF S
  <2>1. \A r \in 0 .. 10 : G[r] = Upto(K, r)
    OBVIOUS
  <2>2. \A r \in 1 .. 10 : S(G, r) = Upto(K, r)
    BY <1>4, <2>1
  <2>3. \A r \in 0 .. 10 : r = 0 \/ r \in 1 .. 10
    OBVIOUS
  <2>. QED BY <1>3, <1>5, <2>1, <2>2, <2>3
<1>7. w = [r \in 0 .. 10 |-> S(w, r)]
  <2>. HIDE DEF S, G
  <2>. QED BY <1>6, Zenon
<1>. HIDE DEF S, w, G
<1>8. w[0] = Upto(K, 0) /\ \A r \in 1 .. 10 : w[r] = S(w, r)
  BY <1>3, <1>5, <1>7
<1>. QED BY <1>1, <1>4, <1>8, AllTheWay

(* The states of a block on its way through the cipher, and back.          *)
CipherRound(s, k) == XorState(aes_mix_columns(aes_shift_rows(aes_sub_bytes(s))), k)
Undo(s)           == aes_inv_sub_bytes(aes_inv_shift_rows(s))
UndoRound(s, k)   == Undo(aes_inv_mix_columns(XorState(s, k)))

EncStep(K) == [r \in 1 .. 10 |-> [s \in State |-> CipherRound(s, K[r])]]
DecStep(K) == [n \in 1 .. 10 |-> [s \in State |-> UndoRound(s, K[10 - n])]]

(* The reference's cipher, and its inverse, by the states on the way.      *)
LEMMA EncryptIs ==
  ASSUME NEW key \in State, NEW block \in State,
         NEW K, Chain(K, State, key, KeyStep),
         NEW E, Chain(E, State, XorState(block, K[0]), EncStep(K))
  PROVE  Encrypt(key, block) = XorState(aes_shift_rows(aes_sub_bytes(E[9])), K[10])
<1>. DEFINE keys == RoundKeys(key)
            Round(s, r) ==
              XorState(aes_mix_columns(aes_shift_rows(aes_sub_bytes(s))), keys[r + 1])
            S(v, r) == IF r = 0 THEN <<XorState(block, keys[1])>>
                       ELSE LET u == v[r - 1] IN Append(u, Round(u[r], r))
            after[r \in 0 .. 9] == S(after, r)
            G == [r \in 0 .. 9 |-> Upto(E, r)]
<1>1. Encrypt(key, block) = XorState(aes_shift_rows(aes_sub_bytes(after[9][10])), keys[11])
  BY DEF Encrypt
<1>2. \A r \in 0 .. 10 : keys[r + 1] = K[r]
  BY RoundKeysAre DEF Upto
<1>. HIDE DEF keys
<1>3. E \in [0 .. 10 -> State] /\ E[0] = XorState(block, keys[1])
  BY <1>2 DEF Chain
<1>4. Upto(E, 0) = <<XorState(block, keys[1])>>
  BY <1>3 DEF Upto
<1>5. ASSUME NEW v, NEW r \in 1 .. 9, v[r - 1] = Upto(E, r - 1)
      PROVE  S(v, r) = Upto(E, r)
  <2>1. E[r] = Round(E[r - 1], r)
    <3>1. E[r] = CipherRound(E[r - 1], K[r])
      BY <1>3 DEF Chain, EncStep
    <3>. QED BY <1>2, <3>1 DEF CipherRound
  <2>2. S(v, r) = Append(Upto(E, r - 1), Round(Upto(E, r - 1)[r], r))
    BY <1>5
  <2>. HIDE DEF S, Round
  <2>3. Upto(E, r - 1)[r] = E[r - 1] /\ Append(Upto(E, r - 1), E[r]) = Upto(E, r)
    <3>1. r \in 1 .. 10
      OBVIOUS
    <3>. QED BY <1>3, <3>1, UptoGrows
  <2>. QED BY <2>1, <2>2, <2>3
<1>6. \A v : S(v, 0) = <<XorState(block, keys[1])>>
  OBVIOUS
<1>7. G = [r \in 0 .. 9 |-> S(G, r)]
  <2>. HIDE DEF S
  <2>1. \A r \in 0 .. 9 : G[r] = Upto(E, r)
    OBVIOUS
  <2>2. \A r \in 1 .. 9 : S(G, r) = Upto(E, r)
    BY <1>5, <2>1
  <2>3. \A r \in 0 .. 9 : r = 0 \/ r \in 1 .. 9
    OBVIOUS
  <2>. QED BY <1>4, <1>6, <2>1, <2>2, <2>3
<1>8. after = [r \in 0 .. 9 |-> S(after, r)]
  <2>. HIDE DEF S, G
  <2>. QED BY <1>7, Zenon
<1>. HIDE DEF S, after, G
<1>9. after[0] = Upto(E, 0) /\ \A r \in 1 .. 9 : after[r] = S(after, r)
  BY <1>4, <1>6, <1>8
<1>10. after[9] = Upto(E, 9)
  BY <1>5, <1>9, AllTheWay
<1>11. after[9][10] = E[9]
  BY <1>10 DEF Upto
<1>. QED BY <1>1, <1>2, <1>11

LEMMA DecryptIs ==
  ASSUME NEW key \in State, NEW block \in State,
         NEW K, Chain(K, State, key, KeyStep),
         NEW E, Chain(E, State, Undo(XorState(block, K[10])), DecStep(K))
  PROVE  Decrypt(key, block) = XorState(E[9], K[0])
<1>. DEFINE keys == RoundKeys(key)
            Undone(s) == aes_inv_sub_bytes(aes_inv_shift_rows(s))
            UndoMix(s, r) == aes_inv_mix_columns(XorState(s, keys[r + 1]))
            S(v, n) == IF n = 0 THEN <<Undone(XorState(block, keys[11]))>>
                       ELSE LET u == v[n - 1] IN Append(u, Undone(UndoMix(u[n], 10 - n)))
            back[n \in 0 .. 9] == S(back, n)
            G == [n \in 0 .. 9 |-> Upto(E, n)]
<1>1. Decrypt(key, block) = XorState(back[9][10], keys[1])
  BY DEF Decrypt
<1>2. \A r \in 0 .. 10 : keys[r + 1] = K[r]
  BY RoundKeysAre DEF Upto
<1>. HIDE DEF keys
<1>3. E \in [0 .. 10 -> State] /\ E[0] = Undone(XorState(block, keys[11]))
  BY <1>2 DEF Chain, Undo
<1>4. Upto(E, 0) = <<Undone(XorState(block, keys[11]))>>
  BY <1>3 DEF Upto
<1>5. ASSUME NEW v, NEW n \in 1 .. 9, v[n - 1] = Upto(E, n - 1)
      PROVE  S(v, n) = Upto(E, n)
  <2>1. E[n] = Undone(UndoMix(E[n - 1], 10 - n))
    <3>1. E[n] = UndoRound(E[n - 1], K[10 - n])
      BY <1>3 DEF Chain, DecStep
    <3>2. keys[10 - n + 1] = K[10 - n]
      BY <1>2
    <3>. QED BY <3>1, <3>2 DEF UndoRound, Undo
  <2>2. S(v, n) = Append(Upto(E, n - 1), Undone(UndoMix(Upto(E, n - 1)[n], 10 - n)))
    BY <1>5
  <2>. HIDE DEF S, Undone, UndoMix
  <2>3. Upto(E, n - 1)[n] = E[n - 1] /\ Append(Upto(E, n - 1), E[n]) = Upto(E, n)
    <3>1. n \in 1 .. 10
      OBVIOUS
    <3>. QED BY <1>3, <3>1, UptoGrows
  <2>. QED BY <2>1, <2>2, <2>3
<1>6. \A v : S(v, 0) = <<Undone(XorState(block, keys[11]))>>
  OBVIOUS
<1>7. G = [n \in 0 .. 9 |-> S(G, n)]
  <2>. HIDE DEF S
  <2>1. \A n \in 0 .. 9 : G[n] = Upto(E, n)
    OBVIOUS
  <2>2. \A n \in 1 .. 9 : S(G, n) = Upto(E, n)
    BY <1>5, <2>1
  <2>3. \A n \in 0 .. 9 : n = 0 \/ n \in 1 .. 9
    OBVIOUS
  <2>. QED BY <1>4, <1>6, <2>1, <2>2, <2>3
<1>8. back = [n \in 0 .. 9 |-> S(back, n)]
  <2>. HIDE DEF S, G
  <2>. QED BY <1>7, Zenon
<1>. HIDE DEF S, back, G
<1>9. back[0] = Upto(E, 0) /\ \A n \in 1 .. 9 : back[n] = S(back, n)
  BY <1>4, <1>6, <1>8
<1>10. back[9] = Upto(E, 9)
  BY <1>5, <1>9, AllTheWay
<1>11. back[9][10] = E[9]
  BY <1>10 DEF Upto
<1>. QED BY <1>1, <1>2, <1>11

LEMMA StepTypes ==
  ASSUME NEW K \in [0 .. 10 -> State]
  PROVE  EncStep(K) \in [1 .. 10 -> [State -> State]]
         /\ DecStep(K) \in [1 .. 10 -> [State -> State]]
<1>1. ASSUME NEW s \in State, NEW k \in State
      PROVE  CipherRound(s, k) \in State /\ UndoRound(s, k) \in State /\ Undo(s) \in State
  <2>1. CipherRound(s, k) \in State
    BY LayerTypes, XorStateType DEF CipherRound
  <2>2. Undo(s) \in State
    BY LayerTypes DEF Undo
  <2>3. UndoRound(s, k) \in State
    BY LayerTypes, XorStateType DEF UndoRound, Undo
  <2>. QED BY <2>1, <2>2, <2>3
<1>2. \A r \in 1 .. 10 : K[r] \in State /\ K[10 - r] \in State
  <2>. SUFFICES ASSUME NEW r \in 1 .. 10 PROVE K[r] \in State /\ K[10 - r] \in State
    OBVIOUS
  <2>1. r \in 0 .. 10 /\ 10 - r \in 0 .. 10
    OBVIOUS
  <2>. QED BY <2>1
<1>. QED BY <1>1, <1>2 DEF EncStep, DecStep

-----------------------------------------------------------------------------
(* The inductive invariant of the core. *)

CoreOperation == [decrypt : BOOLEAN, key : Keys, data : State]

CoreTypes ==
  /\ CoreTypeOK /\ rk \in [0 .. 10 -> State \union {NoBlock}]
  /\ state # "IDLE" => job \in CoreOperation

(* The round keys there are: all but while the expander works.             *)
LastKeyOf == IF ke_state = "EXPAND" THEN round_idx - 1 ELSE 10

KeysKeepStep ==
  /\ ke_state = "EXPAND" => state = "KEYEXP" /\ round_idx \in 1 .. 10 /\ ~ke_done
  /\ state = "KEYEXP" => ke_state = "EXPAND" \/ ke_done
  /\ ke_done => ke_state = "IDLE" /\ state = "KEYEXP"
  /\ state # "IDLE" =>
       /\ rk[0] = job.key /\ (core_encdec_reg <=> job.decrypt)
       /\ \A r \in 1 .. LastKeyOf : rk[r] = NextRoundKey(rk[r - 1], r)
       /\ \A r \in 0 .. LastKeyOf : rk[r] \in State

(* Where a block is on its way: before round rnum; or before the undoing,  *)
(* with round key rnum, of the round after.                                *)
OnItsWay ==
  IF core_encdec_reg
  THEN \E E : /\ Chain(E, State, Undo(XorState(job.data, rk[10])), DecStep(rk))
              /\ Undo(core_data_reg) = E[9 - rnum]
  ELSE \E E : /\ Chain(E, State, XorState(job.data, rk[0]), EncStep(rk))
              /\ core_data_reg = E[rnum - 1]

BlockKeepsStep ==
  /\ state = "KEYEXP" => core_data_reg = job.data
  /\ state = "ROUND" => rnum \in 1 .. 9
  /\ state = "FINAL" => rnum = IF core_encdec_reg THEN 0 ELSE 10
  /\ state \in {"ROUND", "FINAL"} => OnItsWay

CoreIInv == CoreTypes /\ BusyIsInProgress /\ KeysKeepStep /\ BlockKeepsStep

LEMMA CoreInitInv == CoreInit => CoreIInv
<1>. SUFFICES ASSUME CoreInit PROVE CoreIInv
  OBVIOUS
<1>1. Zero \in State
  BY DEF Zero, State, Byte
<1>2. state = "IDLE" /\ ke_state = "IDLE" /\ ~busy /\ ~ke_done
  BY DEF CoreInit
<1>3. CoreTypes
  <2>1. rk \in [0 .. 10 -> State \union {NoBlock}]
    BY DEF CoreInit
  <2>2. {core_encdec_reg, busy, done, ke_done} \subseteq BOOLEAN
    BY Zenon DEF CoreInit
  <2>3. rnum = 0 /\ round_idx = 0 /\ core_data_reg = Zero /\ data_out = NoBlock
    BY DEF CoreInit
  <2>. QED BY <1>1, <1>2, <2>1, <2>2, <2>3 DEF CoreTypes, CoreTypeOK
<1>. QED BY <1>2, <1>3 DEF CoreIInv, BusyIsInProgress, KeysKeepStep, BlockKeepsStep

(* From the end of the expansion on, rk is the key schedule of the job.    *)
LEMMA KeysAreChain ==
  ASSUME CoreIInv, state \in {"ROUND", "FINAL"} \/ ke_done
  PROVE  Chain(rk, State, job.key, KeyStep)
<1>1. ke_state = "IDLE" /\ LastKeyOf = 10 /\ state # "IDLE"
  BY DEF CoreIInv, KeysKeepStep, LastKeyOf, CoreTypes, CoreTypeOK
<1>2. rk \in [0 .. 10 -> State]
  BY <1>1 DEF CoreIInv, KeysKeepStep, CoreTypes
<1>. QED BY <1>1, <1>2 DEF CoreIInv, KeysKeepStep, Chain, KeyStep

(* The expander adds one round key, while nothing else can write them.     *)
LEMMA CoreKeysStep ==
  ASSUME CoreIInv, NEW start \in BOOLEAN, NEW encdec \in BOOLEAN, NEW key_in \in Keys,
         NEW data_in \in Data, CoreEdge(start, encdec, key_in, data_in), KeyEdge(start, key_in)
  PROVE  KeysKeepStep' /\ rk' \in [0 .. 10 -> State \union {NoBlock}]
         /\ (state \in {"ROUND", "FINAL"} \/ ke_done => rk' = rk)
<1>1. CASE KeyIdle(start, key_in) /\ ke_start(start)
  <2>1. CoreIdle(start, encdec, key_in, data_in)
    BY <1>1 DEF CoreEdge, CoreKeyExp, CoreRound, CoreFinal, ke_start
  <2>2. /\ rk' = [rk EXCEPT ![0] = key_in] /\ round_idx' = 1
        /\ ke_state' = "EXPAND" /\ ~ke_done' /\ state' = "KEYEXP"
        /\ job'.key = key_in /\ job'.decrypt = encdec /\ core_encdec_reg' = encdec
        /\ state = "IDLE" /\ ~ke_done
    BY <1>1, <2>1 DEF KeyIdle, CoreIdle, ke_start, CoreIInv, KeysKeepStep
  <2>3. rk \in [0 .. 10 -> State \union {NoBlock}] /\ key_in \in State
    BY CoreOperands DEF CoreIInv, CoreTypes
  <2>4. rk' \in [0 .. 10 -> State \union {NoBlock}] /\ rk'[0] = key_in
    BY <2>2, <2>3
  <2>5. LastKeyOf' = 0
    BY <2>2 DEF LastKeyOf
  <2>. QED BY <2>2, <2>3, <2>4, <2>5 DEF KeysKeepStep
<1>2. CASE KeyIdle(start, key_in) /\ ~ke_start(start)
  <2>1. UNCHANGED <<rk, round_idx, ke_state>> /\ ke_state = "IDLE" /\ ~ke_done'
    BY <1>2 DEF KeyIdle
  <2>2. LastKeyOf' = LastKeyOf
    BY <2>1 DEF LastKeyOf
  <2>3. state' # "IDLE" => /\ state # "IDLE" /\ UNCHANGED <<job, core_encdec_reg>>
                          /\ state' # "KEYEXP"
    BY <1>2, <2>1 DEF CoreEdge, CoreIdle, CoreKeyExp, CoreRound, CoreFinal, ke_start,
          CoreIInv, KeysKeepStep, CoreTypes, CoreTypeOK
  <2>. QED BY <2>1, <2>2, <2>3 DEF KeysKeepStep, CoreIInv, CoreTypes
<1>3. CASE KeyExpand
  <2>1. /\ state = "KEYEXP" /\ round_idx \in 1 .. 10 /\ ~ke_done /\ ke_state = "EXPAND"
        /\ rk[0] = job.key /\ (core_encdec_reg <=> job.decrypt)
        /\ \A r \in 1 .. round_idx - 1 : rk[r] = NextRoundKey(rk[r - 1], r)
        /\ \A r \in 0 .. round_idx - 1 : rk[r] \in State
        /\ rk \in [0 .. 10 -> State \union {NoBlock}]
    BY <1>3 DEF KeyExpand, CoreIInv, KeysKeepStep, LastKeyOf, CoreTypes
  <2>2. CoreKeyExp
    BY <2>1 DEF CoreEdge, CoreIdle, CoreRound, CoreFinal
  <2>3. UNCHANGED <<state, job, core_encdec_reg>>
    BY <2>1, <2>2 DEF CoreKeyExp
  <2>4. rk' = [rk EXCEPT ![round_idx] = NextRoundKey(rk[round_idx - 1], round_idx)]
    BY <1>3 DEF KeyExpand
  <2>5. NextRoundKey(rk[round_idx - 1], round_idx) \in State
    BY <2>1, NextRoundKeyType
  <2>6. /\ rk' \in [0 .. 10 -> State \union {NoBlock}]
        /\ \A r \in 0 .. 10 : r # round_idx => rk'[r] = rk[r]
        /\ rk'[round_idx] = NextRoundKey(rk[round_idx - 1], round_idx)
    BY <2>1, <2>4, <2>5
  <2>7. LastKeyOf' = round_idx /\ (ke_state' = "EXPAND" => round_idx' \in 1 .. 10 /\ ~ke_done')
        /\ (ke_state' = "EXPAND" \/ ke_done') /\ (ke_done' => ke_state' = "IDLE")
    <3>1. CASE LastKey
      <4>1. ke_done' /\ ke_state' = "IDLE" /\ round_idx = 10
        BY <1>3, <3>1 DEF KeyExpand, LastKey
      <4>. QED BY <4>1 DEF LastKeyOf
    <3>2. CASE ~LastKey
      <4>1. ~ke_done' /\ ke_state' = "EXPAND" /\ round_idx' = round_idx + 1 /\ round_idx # 10
        BY <1>3, <2>1, <3>2 DEF KeyExpand, LastKey
      <4>. QED BY <2>1, <4>1 DEF LastKeyOf
    <3>. QED BY <3>1, <3>2
  <2>8. \A r \in 1 .. round_idx : rk'[r] = NextRoundKey(rk'[r - 1], r)
    <3>. SUFFICES ASSUME NEW r \in 1 .. round_idx PROVE rk'[r] = NextRoundKey(rk'[r - 1], r)
      OBVIOUS
    <3>1. r - 1 \in 0 .. 10 /\ r - 1 # round_idx
      BY <2>1
    <3>2. rk'[r - 1] = rk[r - 1]
      BY <2>6, <3>1
    <3>3. CASE r = round_idx
      BY <2>6, <3>2, <3>3
    <3>4. CASE r # round_idx
      BY <2>1, <2>6, <3>2, <3>4
    <3>. QED BY <3>3, <3>4
  <2>9. \A r \in 0 .. round_idx : rk'[r] \in State
    BY <2>1, <2>5, <2>6
  <2>10. rk'[0] = job.key
    BY <2>1, <2>6
  <2>. QED BY <2>1, <2>3, <2>6, <2>7, <2>8, <2>9, <2>10 DEF KeysKeepStep
<1>. QED BY <1>1, <1>2, <1>3 DEF KeyEdge

(* What the datapath does in a cycle is a block again.                     *)
LEMMA RoundTypes ==
  ASSUME NEW s \in State, NEW k \in State
  PROVE  CipherRound(s, k) \in State /\ Undo(s) \in State
BY LayerTypes, XorStateType DEF CipherRound, Undo

(* The operands are taken.                                                 *)
LEMMA CoreIdleStep ==
  ASSUME CoreIInv, NEW start \in BOOLEAN, NEW encdec \in BOOLEAN, NEW key_in \in Keys,
         NEW data_in \in Data, CoreIdle(start, encdec, key_in, data_in)
  PROVE  /\ BlockKeepsStep' /\ BusyIsInProgress' /\ (state' # "IDLE" => job' \in CoreOperation)
         /\ state' \in {"IDLE", "KEYEXP"} /\ {core_encdec_reg', busy', done'} \subseteq BOOLEAN
         /\ rnum' \in 0 .. 10 /\ core_data_reg' \in State /\ data_out' \in State \union {NoBlock}
<1>1. /\ {core_encdec_reg, busy, done} \subseteq BOOLEAN /\ rnum \in 0 .. 10
      /\ core_data_reg \in State /\ data_out \in State \union {NoBlock}
  BY DEF CoreIInv, CoreTypes, CoreTypeOK
<1>2. CASE start
  <2>1. /\ core_encdec_reg' = encdec /\ core_data_reg' = data_in /\ state' = "KEYEXP"
        /\ job' = [decrypt |-> encdec, key |-> key_in, data |-> data_in]
        /\ busy' = start /\ done' = FALSE /\ rnum' = rnum /\ data_out' = data_out
    BY <1>2 DEF CoreIdle
  <2>2. data_in \in State /\ job' \in CoreOperation
    BY <2>1, CoreOperands DEF CoreOperation
  <2>. QED BY <1>1, <1>2, <2>1, <2>2 DEF BlockKeepsStep, BusyIsInProgress
<1>3. CASE ~start
  BY <1>1, <1>3 DEF CoreIdle, BlockKeepsStep, BusyIsInProgress
<1>. QED BY <1>2, <1>3

(* The initial AddRoundKey starts the chain.                               *)
LEMMA CoreKeyExpStep ==
  ASSUME CoreIInv, CoreKeyExp, ke_done => rk' = rk
  PROVE  /\ BlockKeepsStep' /\ core_data_reg' \in State
         /\ rnum' \in 0 .. 10 /\ state' \in {"KEYEXP", "ROUND"}
<1>1. /\ core_data_reg \in State /\ core_data_reg = job.data /\ rnum \in 0 .. 10
      /\ state = "KEYEXP" /\ core_encdec_reg \in BOOLEAN
  BY DEF CoreKeyExp, CoreIInv, CoreTypes, CoreTypeOK, BlockKeepsStep
<1>2. CASE ~ke_done
  <2>1. UNCHANGED <<core_data_reg, rnum, state, job>>
    BY <1>2 DEF CoreKeyExp
  <2>. QED BY <1>1, <2>1 DEF BlockKeepsStep
<1>3. CASE ke_done
  <2>1. /\ core_data_reg' = XorState(core_data_reg, rk[IF core_encdec_reg THEN 10 ELSE 0])
        /\ rnum' = (IF core_encdec_reg THEN 9 ELSE 1) /\ state' = "ROUND"
        /\ UNCHANGED <<core_encdec_reg, job, rk>>
    BY <1>3 DEF CoreKeyExp
  <2>2. rk \in [0 .. 10 -> State]
    BY <1>3, KeysAreChain DEF Chain
  <2>3. core_data_reg' \in State /\ Undo(core_data_reg') \in State
    BY <1>1, <2>1, <2>2, XorStateType, RoundTypes
  <2>4. OnItsWay'
    <3>1. CASE core_encdec_reg
      <4>1. PICK E : Chain(E, State, Undo(core_data_reg'), DecStep(rk))
        BY <2>2, <2>3, StepTypes, ChainExists
      <4>2. E[9 - rnum'] = Undo(core_data_reg')
        BY <2>1, <3>1, <4>1 DEF Chain
      <4>3. Undo(core_data_reg)' = Undo(core_data_reg') /\ DecStep(rk)' = DecStep(rk)
            /\ Undo(core_data_reg') = Undo(XorState(job.data, rk[10]))' /\ core_encdec_reg'
        BY <1>1, <2>1, <3>1
      <4>. QED BY <4>1, <4>2, <4>3 DEF OnItsWay
    <3>2. CASE ~core_encdec_reg
      <4>1. PICK E : Chain(E, State, core_data_reg', EncStep(rk))
        BY <2>2, <2>3, StepTypes, ChainExists
      <4>2. E[rnum' - 1] = core_data_reg'
        BY <2>1, <3>2, <4>1 DEF Chain
      <4>3. EncStep(rk)' = EncStep(rk)
            /\ core_data_reg' = XorState(job.data, rk[0])' /\ ~core_encdec_reg'
        BY <1>1, <2>1, <3>2
      <4>. QED BY <4>1, <4>2, <4>3 DEF OnItsWay
    <3>. QED BY <3>1, <3>2
  <2>. QED BY <2>1, <2>3, <2>4 DEF BlockKeepsStep
<1>. QED BY <1>2, <1>3

(* A round is a step of the chain, or undoes one.                          *)
LEMMA CoreRoundStep ==
  ASSUME CoreIInv, CoreRound, rk' = rk
  PROVE  /\ BlockKeepsStep' /\ core_data_reg' \in State
         /\ rnum' \in 0 .. 10 /\ state' \in {"ROUND", "FINAL"}
<1>1. /\ core_data_reg \in State /\ rnum \in 1 .. 9 /\ state = "ROUND"
      /\ core_encdec_reg \in BOOLEAN /\ OnItsWay
  BY DEF CoreRound, CoreIInv, CoreTypes, CoreTypeOK, BlockKeepsStep
<1>2. UNCHANGED <<core_encdec_reg, job, rk>>
  BY DEF CoreRound
<1>3. rk \in [0 .. 10 -> State] /\ rk[rnum] \in State
  BY <1>1, KeysAreChain DEF Chain
<1>4. CASE core_encdec_reg
  <2>1. PICK E : /\ Chain(E, State, Undo(XorState(job.data, rk[10])), DecStep(rk))
                 /\ Undo(core_data_reg) = E[9 - rnum]
    BY <1>1, <1>4 DEF OnItsWay
  <2>2. core_data_reg' = aes_inv_mix_columns(XorState(Undo(core_data_reg), rk[rnum]))
    BY <1>4 DEF CoreRound, dec_round_next, sub_shift_dec, rk_sel, Undo
  <2>3. rnum' = rnum - 1 /\ state' = IF rnum = 1 THEN "FINAL" ELSE "ROUND"
    BY <1>4 DEF CoreRound, LastMiddle
  <2>4. core_data_reg' \in State
    BY <1>1, <1>3, <2>2, RoundTypes, XorStateType, LayerTypes
  <2>5. Undo(core_data_reg') = E[9 - rnum']
    <3>1. 10 - rnum \in 1 .. 10 /\ (10 - rnum) - 1 = 9 - rnum /\ 10 - (10 - rnum) = rnum
          /\ 9 - rnum' = 10 - rnum
      BY <1>1, <2>3
    <3>2. E[10 - rnum] = DecStep(rk)[10 - rnum][E[9 - rnum]]
      BY <2>1, <3>1 DEF Chain
    <3>3. E[10 - rnum] = UndoRound(E[9 - rnum], rk[rnum])
      <4>1. E[9 - rnum] \in State
        BY <1>1, <2>1 DEF Chain
      <4>. QED BY <3>1, <3>2, <4>1 DEF DecStep
    <3>. QED BY <2>1, <2>2, <3>1, <3>3 DEF UndoRound
  <2>6. /\ Undo(core_data_reg)' = Undo(core_data_reg')
        /\ DecStep(rk)' = DecStep(rk) /\ core_encdec_reg'
        /\ Undo(XorState(job.data, rk[10])) = Undo(XorState(job.data, rk[10]))'
    BY <1>2, <1>4
  <2>7. OnItsWay'
    BY <2>1, <2>5, <2>6 DEF OnItsWay
  <2>. QED BY <1>1, <2>3, <2>4, <2>6, <2>7 DEF BlockKeepsStep
<1>5. CASE ~core_encdec_reg
  <2>1. PICK E : /\ Chain(E, State, XorState(job.data, rk[0]), EncStep(rk))
                 /\ core_data_reg = E[rnum - 1]
    BY <1>1, <1>5 DEF OnItsWay
  <2>2. core_data_reg' = CipherRound(core_data_reg, rk[rnum])
    BY <1>5 DEF CoreRound, enc_round_next, sub_shift_enc, rk_sel, CipherRound
  <2>3. rnum' = rnum + 1 /\ state' = IF rnum = 9 THEN "FINAL" ELSE "ROUND"
    BY <1>5 DEF CoreRound, LastMiddle
  <2>4. core_data_reg' \in State
    BY <1>1, <1>3, <2>2, RoundTypes
  <2>5. core_data_reg' = E[rnum' - 1]
    <3>1. E[rnum] = EncStep(rk)[rnum][E[rnum - 1]]
      BY <1>1, <2>1 DEF Chain
    <3>. QED BY <1>1, <2>1, <2>2, <2>3, <3>1 DEF EncStep
  <2>6. EncStep(rk)' = EncStep(rk) /\ ~core_encdec_reg'
        /\ XorState(job.data, rk[0]) = XorState(job.data, rk[0])'
    BY <1>2, <1>5
  <2>7. OnItsWay'
    BY <2>1, <2>5, <2>6 DEF OnItsWay
  <2>. QED BY <1>1, <2>3, <2>4, <2>6, <2>7 DEF BlockKeepsStep
<1>. QED BY <1>4, <1>5

(* What comes out is the cipher of the operands.                           *)
LEMMA CoreFinalStep ==
  ASSUME CoreIInv, CoreFinal
  PROVE  data_out' = CipherOf(job.decrypt, job.key, job.data) /\ data_out' \in State
<1>1. /\ core_data_reg \in State /\ state = "FINAL" /\ core_encdec_reg \in BOOLEAN /\ OnItsWay
      /\ (core_encdec_reg <=> job.decrypt) /\ job \in CoreOperation
      /\ rnum = IF core_encdec_reg THEN 0 ELSE 10
  BY DEF CoreFinal, CoreIInv, CoreTypes, CoreTypeOK, BlockKeepsStep, KeysKeepStep
<1>2. job.key \in State /\ job.data \in State
  BY <1>1, CoreOperands DEF CoreOperation
<1>3. Chain(rk, State, job.key, KeyStep)
  BY <1>1, KeysAreChain
<1>4. rk \in [0 .. 10 -> State]
  BY <1>3 DEF Chain
<1>5. CASE core_encdec_reg
  <2>1. PICK E : /\ Chain(E, State, Undo(XorState(job.data, rk[10])), DecStep(rk))
                 /\ Undo(core_data_reg) = E[9]
    BY <1>1, <1>5 DEF OnItsWay
  <2>2. data_out' = XorState(Undo(core_data_reg), rk[0])
    BY <1>1, <1>5 DEF CoreFinal, dec_final_next, sub_shift_dec, rk_sel, Undo
  <2>3. Decrypt(job.key, job.data) = XorState(E[9], rk[0])
    BY <1>2, <1>3, <2>1, DecryptIs
  <2>4. data_out' \in State
    BY <1>1, <1>4, <2>2, RoundTypes, XorStateType
  <2>. QED BY <1>1, <1>5, <2>1, <2>2, <2>3, <2>4 DEF CipherOf
<1>6. CASE ~core_encdec_reg
  <2>1. PICK E : /\ Chain(E, State, XorState(job.data, rk[0]), EncStep(rk))
                 /\ core_data_reg = E[9]
    BY <1>1, <1>6 DEF OnItsWay
  <2>2. data_out' = XorState(aes_shift_rows(aes_sub_bytes(core_data_reg)), rk[10])
    BY <1>1, <1>6 DEF CoreFinal, enc_final_next, sub_shift_enc, rk_sel
  <2>3. Encrypt(job.key, job.data) = XorState(aes_shift_rows(aes_sub_bytes(E[9])), rk[10])
    BY <1>2, <1>3, <2>1, EncryptIs
  <2>4. data_out' \in State
    BY <1>1, <1>4, <2>2, LayerTypes, XorStateType
  <2>. QED BY <1>1, <1>6, <2>1, <2>2, <2>3, <2>4 DEF CipherOf
<1>. QED BY <1>5, <1>6

(* An edge of the clock, seen by both machines.                            *)
LEMMA CoreEdgeInv ==
  ASSUME CoreIInv, NEW start \in BOOLEAN, NEW encdec \in BOOLEAN, NEW key_in \in Keys,
         NEW data_in \in Data, CoreEdge(start, encdec, key_in, data_in), KeyEdge(start, key_in)
  PROVE  CoreIInv'
<1>1. KeysKeepStep' /\ rk' \in [0 .. 10 -> State \union {NoBlock}]
  BY CoreKeysStep
<1>2. state \in {"ROUND", "FINAL"} \/ ke_done => rk' = rk
  BY CoreKeysStep
<1>3. /\ state \in {"IDLE", "KEYEXP", "ROUND", "FINAL"} /\ (busy <=> state # "IDLE")
      /\ {core_encdec_reg, busy, done} \subseteq BOOLEAN /\ rnum \in 0 .. 10
      /\ core_data_reg \in State /\ data_out \in State \union {NoBlock}
      /\ (state # "IDLE" => job \in CoreOperation)
  BY DEF CoreIInv, CoreTypes, CoreTypeOK, BusyIsInProgress
<1>4. ke_state' \in {"IDLE", "EXPAND"} /\ ke_done' \in BOOLEAN /\ round_idx' \in 0 .. 10
  <2>1. ke_state \in {"IDLE", "EXPAND"} /\ round_idx \in 0 .. 10
    BY DEF CoreIInv, CoreTypes, CoreTypeOK
  <2>2. CASE KeyIdle(start, key_in)
    <3>1. ke_done' \in BOOLEAN
      BY <2>2, Zenon DEF KeyIdle
    <3>2. CASE ke_start(start)
      <4>1. round_idx' = 1 /\ ke_state' = "EXPAND"
        BY <2>2, <3>2 DEF KeyIdle
      <4>. QED BY <3>1, <4>1
    <3>3. CASE ~ke_start(start)
      BY <2>1, <2>2, <3>1, <3>3 DEF KeyIdle
    <3>. QED BY <3>2, <3>3
  <2>3. CASE KeyExpand
    <3>1. ke_done' = LastKey /\ (LastKey => ke_state' = "IDLE" /\ round_idx' = round_idx)
      BY <2>3 DEF KeyExpand
    <3>2. ~LastKey => ke_state' = ke_state /\ round_idx' = round_idx + 1
      BY <2>3 DEF KeyExpand
    <3>. QED BY <2>1, <3>1, <3>2 DEF LastKey
  <2>. QED BY <2>2, <2>3 DEF KeyEdge
<1>5. /\ BlockKeepsStep' /\ BusyIsInProgress' /\ (state' # "IDLE" => job' \in CoreOperation)
      /\ state' \in {"IDLE", "KEYEXP", "ROUND", "FINAL"}
      /\ {core_encdec_reg', busy', done'} \subseteq BOOLEAN
      /\ rnum' \in 0 .. 10 /\ core_data_reg' \in State /\ data_out' \in State \union {NoBlock}
  <2>1. CASE CoreIdle(start, encdec, key_in, data_in)
    BY <2>1, CoreIdleStep
  <2>2. CASE CoreKeyExp
    <3>1. state = "KEYEXP" /\ done' = FALSE /\ UNCHANGED <<core_encdec_reg, busy, data_out, job>>
      BY <2>2 DEF CoreKeyExp
    <3>2. /\ BlockKeepsStep' /\ core_data_reg' \in State /\ rnum' \in 0 .. 10
          /\ state' \in {"KEYEXP", "ROUND"}
      BY <1>2, <2>2, CoreKeyExpStep
    <3>. QED BY <1>3, <3>1, <3>2 DEF BusyIsInProgress
  <2>3. CASE CoreRound
    <3>1. state = "ROUND" /\ done' = FALSE /\ UNCHANGED <<core_encdec_reg, busy, data_out, job>>
      BY <2>3 DEF CoreRound
    <3>2. /\ BlockKeepsStep' /\ core_data_reg' \in State /\ rnum' \in 0 .. 10
          /\ state' \in {"ROUND", "FINAL"}
      BY <1>2, <2>3, <3>1, CoreRoundStep
    <3>. QED BY <1>3, <3>1, <3>2 DEF BusyIsInProgress
  <2>4. CASE CoreFinal
    <3>1. /\ ~busy' /\ done' = TRUE /\ state' = "IDLE"
          /\ UNCHANGED <<core_encdec_reg, rnum, core_data_reg>>
      BY <2>4 DEF CoreFinal
    <3>2. data_out' \in State
      BY <2>4, CoreFinalStep
    <3>. QED BY <1>3, <2>4, <3>1, <3>2 DEF BusyIsInProgress, BlockKeepsStep, CoreFinal
  <2>. QED BY <2>1, <2>2, <2>3, <2>4 DEF CoreEdge
<1>6. CoreTypeOK'
  <2>1. \A r \in 0 .. 10 : rk'[r] \in State \union {NoBlock}
    BY <1>1
  <2>2. {core_encdec_reg, busy, done, ke_done}' \subseteq BOOLEAN
    BY <1>4, <1>5
  <2>. QED BY <1>4, <1>5, <2>1, <2>2 DEF CoreTypeOK
<1>. QED BY <1>1, <1>5, <1>6 DEF CoreIInv, CoreTypes

LEMMA CoreNextInv == CoreIInv /\ [CoreNext]_coreVars => CoreIInv'
<1>1. CoreIInv /\ CoreNext => CoreIInv'
  BY CoreEdgeInv DEF CoreNext
<1>2. CoreIInv /\ UNCHANGED coreVars => CoreIInv'
  <2>. SUFFICES ASSUME CoreIInv, UNCHANGED coreVars PROVE CoreIInv'
    OBVIOUS
  <2>1. CoreTypes' /\ BusyIsInProgress'
    BY DEF coreVars, CoreIInv, CoreTypes, CoreTypeOK, BusyIsInProgress
  <2>2. KeysKeepStep'
    BY DEF coreVars, CoreIInv, KeysKeepStep, LastKeyOf
  <2>3. BlockKeepsStep'
    <3>1. OnItsWay' <=> OnItsWay
      BY DEF coreVars, OnItsWay, Undo, DecStep, EncStep
    <3>. QED BY <3>1 DEF coreVars, CoreIInv, BlockKeepsStep
  <2>. QED BY <2>1, <2>2, <2>3 DEF CoreIInv
<1>. QED BY <1>1, <1>2

LEMMA CoreInductive == CoreSpec => []CoreIInv
BY CoreInitInv, CoreNextInv, PTL DEF CoreSpec

(* aes_core.v:186-248 and aes_key_expand.v:89-119: busy is up exactly while*)
(* an operation is in progress, and no round reads a round key of another  *)
(* operation, or one that is still to be computed.                         *)
THEOREM CoreKeepsStep == CoreSpec => []CoreInv
<1>1. CoreIInv => CoreInv
  <2>. SUFFICES ASSUME CoreIInv, state \in {"ROUND", "FINAL"} PROVE RoundKeysAreTheJobs
    BY DEF CoreIInv, CoreInv, CoreTypes, RoundKeysAreTheJobs
  <2>. QED BY DEF CoreIInv, RoundKeysAreTheJobs, KeysKeepStep, LastKeyOf, CoreTypes, CoreTypeOK
<1>. QED BY <1>1, CoreInductive, PTL

-----------------------------------------------------------------------------
(* The core implements the block unit. *)

(* Each edge takes an operation, returns the result of one, or is silent.  *)
LEMMA BlockStep ==
  CoreIInv /\ [CoreNext]_coreVars => [BlockBase!BlockNext]_(BlockBase!blockVars)
<1>. DEFINE current == IF state = "IDLE" THEN NoBlock ELSE job
<1>1. ASSUME CoreIInv, NEW start \in BOOLEAN, NEW encdec \in BOOLEAN, NEW key_in \in Keys,
             NEW data_in \in Data, CoreEdge(start, encdec, key_in, data_in)
      PROVE  BlockBase!BlockNext
  <2>1. CASE CoreIdle(start, encdec, key_in, data_in) /\ start
    <3>1. /\ current = NoBlock /\ current' = [decrypt |-> encdec, key |-> key_in, data |-> data_in]
          /\ done' = FALSE /\ UNCHANGED data_out
      BY <2>1 DEF CoreIdle
    <3>2. current' \in BlockBase!Operation
      BY <3>1, CoreOperands DEF BlockBase!Operation
    <3>. QED BY <3>1, <3>2 DEF BlockBase!BlockNext, BlockBase!Begin
  <2>2. CASE CoreIdle(start, encdec, key_in, data_in) /\ ~start
    <3>1. UNCHANGED <<current, data_out>> /\ done' = FALSE
      BY <2>2 DEF CoreIdle
    <3>. QED BY <3>1 DEF BlockBase!BlockNext, BlockBase!Pass
  <2>3. CASE CoreKeyExp \/ CoreRound
    <3>1. UNCHANGED <<current, data_out>> /\ done' = FALSE
      BY <2>3 DEF CoreKeyExp, CoreRound
    <3>. QED BY <3>1 DEF BlockBase!BlockNext, BlockBase!Pass
  <2>4. CASE CoreFinal
    <3>1. state = "FINAL" /\ state' = "IDLE" /\ done' = TRUE /\ job \in CoreOperation
      BY <1>1, <2>4 DEF CoreFinal, CoreIInv, CoreTypes
    <3>2. current = job /\ current # NoBlock /\ current' = NoBlock
      BY <3>1, CoreOperands DEF CoreOperation
    <3>3. data_out' = CipherOf(current.decrypt, current.key, current.data)
      BY <1>1, <2>4, <3>2, CoreFinalStep
    <3>. QED BY <3>1, <3>2, <3>3 DEF BlockBase!BlockNext, BlockBase!Finish
  <2>. QED BY <1>1, <2>1, <2>2, <2>3, <2>4 DEF CoreEdge
<1>2. CoreIInv /\ CoreNext => BlockBase!BlockNext
  BY <1>1 DEF CoreNext
<1>3. UNCHANGED coreVars => UNCHANGED BlockBase!blockVars
  BY DEF coreVars, BlockBase!blockVars
<1>. QED BY <1>2, <1>3

(* Each edge brings the operation in progress one cycle nearer its end.    *)
LEMMA LatencyStep ==
  CoreIInv /\ [CoreNext]_coreVars =>
    [ /\ state # "IDLE" => CyclesLeft' = CyclesLeft - 1
      /\ state = "IDLE" /\ state' # "IDLE" => CyclesLeft' = 21 ]_coreVars
<1>1. ASSUME CoreIInv, NEW start \in BOOLEAN, NEW encdec \in BOOLEAN, NEW key_in \in Keys,
             NEW data_in \in Data, CoreEdge(start, encdec, key_in, data_in),
             KeyEdge(start, key_in)
      PROVE  /\ state # "IDLE" => CyclesLeft' = CyclesLeft - 1
             /\ state = "IDLE" /\ state' # "IDLE" => CyclesLeft' = 21
  <2>1. CASE CoreIdle(start, encdec, key_in, data_in)
    <3>1. state = "IDLE" /\ (state' # "IDLE" => start /\ state' = "KEYEXP")
      BY <2>1 DEF CoreIdle
    <3>2. ke_state = "IDLE"
      BY <1>1, <3>1 DEF CoreIInv, KeysKeepStep, CoreTypes, CoreTypeOK
    <3>3. start => ~ke_done' /\ round_idx' = 1
      BY <1>1, <3>1, <3>2 DEF KeyEdge, KeyIdle, KeyExpand, ke_start
    <3>. QED BY <3>1, <3>3 DEF CyclesLeft
  <2>2. CASE CoreKeyExp /\ ke_done
    <3>1. /\ state = "KEYEXP" /\ state' = "ROUND" /\ rnum' = (IF core_encdec_reg THEN 9 ELSE 1)
          /\ core_encdec_reg' = core_encdec_reg
      BY <2>2 DEF CoreKeyExp
    <3>. QED BY <2>2, <3>1 DEF CyclesLeft
  <2>3. CASE CoreKeyExp /\ ~ke_done
    <3>1. state = "KEYEXP" /\ state' = "KEYEXP" /\ ke_state = "EXPAND" /\ round_idx \in 1 .. 10
      BY <1>1, <2>3 DEF CoreKeyExp, CoreIInv, KeysKeepStep
    <3>2. IF round_idx = 10 THEN ke_done' ELSE ~ke_done' /\ round_idx' = round_idx + 1
      BY <1>1, <3>1 DEF KeyEdge, KeyIdle, KeyExpand, LastKey
    <3>. QED BY <2>3, <3>1, <3>2 DEF CyclesLeft
  <2>4. CASE CoreRound
    <3>1. state = "ROUND" /\ rnum \in 1 .. 9 /\ core_encdec_reg' = core_encdec_reg
      BY <1>1, <2>4 DEF CoreRound, CoreIInv, BlockKeepsStep
    <3>2. /\ rnum' = (IF core_encdec_reg THEN rnum - 1 ELSE rnum + 1)
          /\ state' = (IF LastMiddle(rnum) THEN "FINAL" ELSE "ROUND")
      BY <2>4 DEF CoreRound
    <3>. QED BY <3>1, <3>2 DEF CyclesLeft, LastMiddle
  <2>5. CASE CoreFinal
    BY <2>5 DEF CoreFinal, CyclesLeft
  <2>. QED BY <1>1, <2>1, <2>2, <2>3, <2>4, <2>5 DEF CoreEdge
<1>. QED BY <1>1 DEF CoreNext

(* aes_core.v:186-248: for every key, block and direction, and whatever the*)
(* inputs do meanwhile, an operation returns the FIPS-197 cipher of the    *)
(* operands it was started with, 21 cycles later.                          *)
THEOREM CoreIsABlockUnit == CoreSpec => ImplementsBlock
<1>1. CoreInit => BlockBase!BlockInit
  BY DEF CoreInit, BlockBase!BlockInit
<1>2. CoreSpec => BlockBase!BlockSpec
  BY <1>1, BlockStep, CoreInductive, PTL DEF CoreSpec, BlockBase!BlockSpec
<1>3. CoreSpec => FixedLatency
  BY LatencyStep, CoreInductive, PTL DEF CoreSpec, FixedLatency
<1>. QED BY <1>2, <1>3 DEF ImplementsBlock

-----------------------------------------------------------------------------
(***************************************************************************)
(* Deciphering undoes enciphering, for all keys and blocks: bit by bit the *)
(* columns come back from InvMixColumns, by its table each byte from the   *)
(* inverse S-box, and state by state the block.                            *)
(***************************************************************************)

(* A byte has the bit of weight i.                                         *)
Has(a, i) == (a \div i) % 2 = 1

(* Exclusive or is so bit by bit: of four bits, of bytes.                  *)
LEMMA NibbleBits ==
  ASSUME NEW a \in 0 .. 15, NEW b \in 0 .. 15
  PROVE  /\ Has(XorNibble(a, b), 1) <=> ~(Has(a, 1) <=> Has(b, 1))
         /\ Has(XorNibble(a, b), 2) <=> ~(Has(a, 2) <=> Has(b, 2))
         /\ Has(XorNibble(a, b), 4) <=> ~(Has(a, 4) <=> Has(b, 4))
         /\ Has(XorNibble(a, b), 8) <=> ~(Has(a, 8) <=> Has(b, 8))
<1>1. \A p, q, r, s \in 0 .. 1 :
        LET n == p + 2 * q + 4 * r + 8 * s
        IN  /\ (n \div 1) % 2 = p /\ (n \div 2) % 2 = q
            /\ (n \div 4) % 2 = r /\ (n \div 8) % 2 = s
  OBVIOUS
<1>2. \A i \in {1, 2, 4, 8} : /\ Xor2(a, b, i) \in 0 .. 1
                             /\ Xor2(a, b, i) = 1 <=> ~(Has(a, i) <=> Has(b, i))
  BY DEF Xor2, Has
<1>3. /\ Xor2(a, b, 1) \in 0 .. 1 /\ Xor2(a, b, 2) \in 0 .. 1
      /\ Xor2(a, b, 4) \in 0 .. 1 /\ Xor2(a, b, 8) \in 0 .. 1
  BY DEF Xor2
<1>4. /\ (XorNibble(a, b) \div 1) % 2 = Xor2(a, b, 1)
      /\ (XorNibble(a, b) \div 2) % 2 = Xor2(a, b, 2)
      /\ (XorNibble(a, b) \div 4) % 2 = Xor2(a, b, 4)
      /\ (XorNibble(a, b) \div 8) % 2 = Xor2(a, b, 8)
  BY <1>1, <1>3 DEF XorNibble
<1>. QED BY <1>2, <1>4 DEF Has

Weights == {1, 2, 4, 8, 16, 32, 64, 128}

LEMMA XorBits ==
  ASSUME NEW a \in Byte, NEW b \in Byte, NEW i \in Weights
  PROVE  Has(a \oplus b, i) <=> ~(Has(a, i) <=> Has(b, i))
<1>. DEFINE h(x) == x \div 16   l(x) == x % 16
<1>1. \A x \in Byte : h(x) \in 0 .. 15 /\ l(x) \in 0 .. 15
  BY DEF Byte
<1>2. \A y, z \in 0 .. 15 : h(16 * y + z) = y /\ l(16 * y + z) = z
  OBVIOUS
<1>3. h(a \oplus b) = XorNibble(h(a), h(b)) /\ l(a \oplus b) = XorNibble(l(a), l(b))
  <2>1. a \oplus b = 16 * XorNibble(h(a), h(b)) + XorNibble(l(a), l(b))
    BY XorIs
  <2>. HIDE DEF h, l
  <2>2. XorNibble(h(a), h(b)) \in 0 .. 15 /\ XorNibble(l(a), l(b)) \in 0 .. 15
    BY <1>1, XorNibbleType
  <2>. QED BY <1>2, <2>1, <2>2
<1>4. \A x \in Byte : /\ Has(x, 1) <=> Has(l(x), 1)
                      /\ Has(x, 2) <=> Has(l(x), 2)
                      /\ Has(x, 4) <=> Has(l(x), 4)
                      /\ Has(x, 8) <=> Has(l(x), 8)
  BY DEF Has, Byte
<1>5. \A x \in Byte : /\ Has(x, 16) <=> Has(h(x), 1)
                      /\ Has(x, 32) <=> Has(h(x), 2)
                      /\ Has(x, 64) <=> Has(h(x), 4)
                      /\ Has(x, 128) <=> Has(h(x), 8)
  BY DEF Has, Byte
<1>. HIDE DEF h, l
<1>6. a \oplus b \in Byte
  BY XorIs
<1>7. CASE i \in {1, 2, 4, 8}
  BY <1>1, <1>3, <1>4, <1>6, <1>7, NibbleBits
<1>8. CASE i \in {16, 32, 64, 128}
  BY <1>1, <1>3, <1>5, <1>6, <1>8, NibbleBits
<1>. QED BY <1>7, <1>8 DEF Weights

(* Bytes with the same bits are the same.                                  *)
LEMMA SameBits ==
  ASSUME NEW a \in Byte, NEW b \in Byte, \A i \in Weights : Has(a, i) <=> Has(b, i)
  PROVE  a = b
<1>. DEFINE Same(i) == Has(a, i) <=> Has(b, i)
<1>1. \A i \in Weights : Same(i)
  OBVIOUS
<1>. HIDE DEF Same
<1>2. /\ Same(1) /\ Same(2) /\ Same(4) /\ Same(8)
      /\ Same(16) /\ Same(32) /\ Same(64) /\ Same(128)
  BY <1>1 DEF Weights
<1>3. \A x \in Byte : x = (x % 2) + 2 * ((x \div 2) % 2) + 4 * ((x \div 4) % 2)
                        + 8 * ((x \div 8) % 2) + 16 * ((x \div 16) % 2)
                        + 32 * ((x \div 32) % 2) + 64 * ((x \div 64) % 2)
                        + 128 * ((x \div 128) % 2)
  BY DEF Byte
<1>4. \A x \in Byte : x \div 1 = x /\ \A w \in Weights : (x \div w) % 2 \in 0 .. 1
  BY DEF Byte, Weights
<1>5. \A i \in Weights : Same(i) => (a \div i) % 2 = (b \div i) % 2
  BY <1>4 DEF Same, Has
<1>6. /\ (a \div 1) % 2 = (b \div 1) % 2 /\ (a \div 2) % 2 = (b \div 2) % 2
      /\ (a \div 4) % 2 = (b \div 4) % 2 /\ (a \div 8) % 2 = (b \div 8) % 2
      /\ (a \div 16) % 2 = (b \div 16) % 2 /\ (a \div 32) % 2 = (b \div 32) % 2
      /\ (a \div 64) % 2 = (b \div 64) % 2 /\ (a \div 128) % 2 = (b \div 128) % 2
  BY <1>2, <1>5 DEF Weights
<1>. QED BY <1>3, <1>4, <1>6

(* The reduction of a doubled byte turns the bits 1, 2, 8 and 16 of it.    *)
LEMMA XtimeBits ==
  ASSUME NEW a \in Byte
  PROVE  LET x == aes_xtime(a)
         IN  /\ x \in Byte
             /\ Has(x, 1) <=> Has(a, 128)
             /\ Has(x, 2) <=> ~(Has(a, 1) <=> Has(a, 128))
             /\ Has(x, 4) <=> Has(a, 2)
             /\ Has(x, 8) <=> ~(Has(a, 4) <=> Has(a, 128))
             /\ Has(x, 16) <=> ~(Has(a, 8) <=> Has(a, 128))
             /\ Has(x, 32) <=> Has(a, 16)
             /\ Has(x, 64) <=> Has(a, 32)
             /\ Has(x, 128) <=> Has(a, 64)
<1>. DEFINE d == (2 * a) % 256
<1>1. d \in Byte /\ 27 \in Byte
  BY DEF Byte
<1>2. /\ ~Has(d, 1) /\ (Has(d, 2) <=> Has(a, 1)) /\ (Has(d, 4) <=> Has(a, 2))
      /\ (Has(d, 8) <=> Has(a, 4)) /\ (Has(d, 16) <=> Has(a, 8)) /\ (Has(d, 32) <=> Has(a, 16))
      /\ (Has(d, 64) <=> Has(a, 32)) /\ (Has(d, 128) <=> Has(a, 64))
  BY DEF Has, Byte
<1>3. /\ Has(27, 1) /\ Has(27, 2) /\ ~Has(27, 4) /\ Has(27, 8) /\ Has(27, 16)
      /\ ~Has(27, 32) /\ ~Has(27, 64) /\ ~Has(27, 128)
  BY DEF Has
<1>4. Has(a, 128) <=> a >= 128
  BY DEF Has, Byte
<1>5. CASE a >= 128
  <2>1. aes_xtime(a) = d \oplus 27
    BY <1>5 DEF aes_xtime
  <2>. HIDE DEF d
  <2>2. \A i \in Weights : Has(d \oplus 27, i) <=> ~(Has(d, i) <=> Has(27, i))
    BY <1>1, XorBits
  <2>3. d \oplus 27 \in Byte
    BY <1>1, XorIs
  <2>. QED BY <1>2, <1>3, <1>4, <1>5, <2>1, <2>2, <2>3 DEF Weights
<1>6. CASE a < 128
  <2>1. aes_xtime(a) = d
    BY <1>6 DEF aes_xtime, Byte
  <2>. HIDE DEF d
  <2>2. ~Has(a, 128)
    BY <1>4, <1>6 DEF Byte
  <2>. QED BY <1>1, <1>2, <2>1, <2>2
<1>. QED BY <1>5, <1>6 DEF Byte

(* Doubling distributes over the exclusive or, and so over MixColumns.     *)
LEMMA XtimeXor ==
  ASSUME NEW a \in Byte, NEW b \in Byte
  PROVE  aes_xtime(a \oplus b) = aes_xtime(a) \oplus aes_xtime(b)
<1>1. a \oplus b \in Byte /\ aes_xtime(a) \in Byte /\ aes_xtime(b) \in Byte
  BY XorIs, XtimeBits
<1>2. aes_xtime(a \oplus b) \in Byte /\ aes_xtime(a) \oplus aes_xtime(b) \in Byte
  BY <1>1, XorIs, XtimeBits
<1>3. \A i \in Weights : Has(a \oplus b, i) <=> ~(Has(a, i) <=> Has(b, i))
  BY XorBits
<1>4. \A i \in Weights : Has(aes_xtime(a) \oplus aes_xtime(b), i)
                         <=> ~(Has(aes_xtime(a), i) <=> Has(aes_xtime(b), i))
  BY <1>1, XorBits
<1>5. \A i \in Weights :
        Has(aes_xtime(a \oplus b), i) <=> Has(aes_xtime(a) \oplus aes_xtime(b), i)
  BY <1>1, <1>3, <1>4, XtimeBits DEF Weights
<1>. QED BY <1>2, <1>5, SameBits

LEMMA MixType ==
  ASSUME NEW a \in Byte, NEW b \in Byte, NEW c \in Byte, NEW d \in Byte
  PROVE  MixByte(a, b, c, d) \in Byte
BY ProductTypes, XorByteType DEF MixByte

LEMMA MixDoubled ==
  ASSUME NEW a \in Byte, NEW b \in Byte, NEW c \in Byte, NEW d \in Byte
  PROVE  aes_xtime(MixByte(a, b, c, d))
           = MixByte(aes_xtime(a), aes_xtime(b), aes_xtime(c), aes_xtime(d))
<1>. DEFINE x(n) == aes_xtime(n)
<1>1. \A n \in Byte : x(n) \in Byte
  BY XtimeBits
<1>2. \A m, n \in Byte : m \oplus n \in Byte
  BY XorIs
<1>3. \A m, n \in Byte : x(m \oplus n) = x(m) \oplus x(n)
  BY XtimeXor
<1>4. \A k, l, m, n : MixByte(k, l, m, n) = ((x(k) \oplus (x(l) \oplus l)) \oplus m) \oplus n
  BY DEF MixByte, aes_gmul2, aes_gmul3
<1>. HIDE DEF x
<1>5. x(a) \in Byte /\ x(b) \in Byte /\ x(b) \oplus b \in Byte
  BY <1>1, <1>2
<1>6. x(a) \oplus (x(b) \oplus b) \in Byte
  BY <1>2, <1>5
<1>7. (x(a) \oplus (x(b) \oplus b)) \oplus c \in Byte
  BY <1>2, <1>6
<1>8. x(x(b) \oplus b) = x(x(b)) \oplus x(b)
  BY <1>3, <1>5
<1>9. x(x(a) \oplus (x(b) \oplus b)) = x(x(a)) \oplus (x(x(b)) \oplus x(b))
  BY <1>3, <1>5, <1>8
<1>10. x((x(a) \oplus (x(b) \oplus b)) \oplus c)
         = (x(x(a)) \oplus (x(x(b)) \oplus x(b))) \oplus x(c)
  BY <1>3, <1>6, <1>9
<1>11. x(MixByte(a, b, c, d)) = MixByte(x(a), x(b), x(c), x(d))
  BY <1>3, <1>4, <1>7, <1>10
<1>. QED BY <1>11 DEF x

(* Bit i of a byte doubled up to four times.                               *)
Doubled(a, i) ==
  LET x == <<a, aes_xtime(a), xtime4(a), xtime8(a), aes_xtime(xtime8(a))>>
  IN  [k \in 0 .. 4 |-> Has(x[k + 1], i)]

Odd(p, q) == ~(p <=> q)

(* One bit of a mixed column, doubled j times.                             *)
MixBit(p, q, r, s, j) == Odd(Odd(Odd(p[j + 1], Odd(q[j + 1], q[j])), r[j]), s[j])

(* InvMixColumns of MixColumns: every term but one is there twice.         *)
LEMMA MixCancels ==
  ASSUME NEW p \in [0 .. 4 -> BOOLEAN], NEW q \in [0 .. 4 -> BOOLEAN],
         NEW r \in [0 .. 4 -> BOOLEAN], NEW s \in [0 .. 4 -> BOOLEAN]
  PROVE  LET m0(j) == MixBit(p, q, r, s, j)
             m1(j) == MixBit(q, r, s, p, j)
             m2(j) == MixBit(r, s, p, q, j)
             m3(j) == MixBit(s, p, q, r, j)
         IN  Odd(Odd(Odd(Odd(Odd(m0(3), m0(2)), m0(1)), Odd(Odd(m1(3), m1(1)), m1(0))),
                     Odd(Odd(m2(3), m2(2)), m2(0))), Odd(m3(3), m3(0)))
             <=> p[0]
BY SMTT(120) DEF Odd, MixBit

(* The bits of a mixed byte, and of a byte unmixed.                        *)
LEMMA MixedBit ==
  ASSUME NEW a \in Byte, NEW b \in Byte, NEW c \in Byte, NEW d \in Byte, NEW i \in Weights
  PROVE  Has(MixByte(a, b, c, d), i)
         <=> Odd(Odd(Odd(Has(aes_xtime(a), i), Odd(Has(aes_xtime(b), i), Has(b, i))),
                     Has(c, i)), Has(d, i))
<1>. DEFINE x(n) == aes_xtime(n)
<1>1. \A n \in Byte : x(n) \in Byte
  BY XtimeBits
<1>2. \A m, n \in Byte :
        m \oplus n \in Byte /\ (Has(m \oplus n, i) <=> Odd(Has(m, i), Has(n, i)))
  BY XorIs, XorBits DEF Odd
<1>3. MixByte(a, b, c, d) = ((x(a) \oplus (x(b) \oplus b)) \oplus c) \oplus d
  BY DEF MixByte, aes_gmul2, aes_gmul3
<1>. HIDE DEF x
<1>4. /\ x(a) \in Byte /\ x(b) \in Byte /\ x(b) \oplus b \in Byte
      /\ Has(x(b) \oplus b, i) <=> Odd(Has(x(b), i), Has(b, i))
  BY <1>1, <1>2
<1>5. /\ x(a) \oplus (x(b) \oplus b) \in Byte
      /\ Has(x(a) \oplus (x(b) \oplus b), i) <=> Odd(Has(x(a), i), Has(x(b) \oplus b, i))
  BY <1>2, <1>4
<1>6. LET y == x(a) \oplus (x(b) \oplus b)
      IN  y \oplus c \in Byte /\ (Has(y \oplus c, i) <=> Odd(Has(y, i), Has(c, i)))
  BY <1>2, <1>5
<1>7. LET y == (x(a) \oplus (x(b) \oplus b)) \oplus c
      IN  Has(y \oplus d, i) <=> Odd(Has(y, i), Has(d, i))
  BY <1>2, <1>6
<1>. QED BY <1>3, <1>4, <1>5, <1>6, <1>7 DEF x, Odd

LEMMA UnmixedBit ==
  ASSUME NEW a \in Byte, NEW b \in Byte, NEW c \in Byte, NEW d \in Byte, NEW i \in Weights
  PROVE  Has(InvMixByte(a, b, c, d), i)
         <=> Odd(Odd(Odd(Odd(Odd(Has(xtime8(a), i), Has(xtime4(a), i)), Has(aes_xtime(a), i)),
                         Odd(Odd(Has(xtime8(b), i), Has(aes_xtime(b), i)), Has(b, i))),
                     Odd(Odd(Has(xtime8(c), i), Has(xtime4(c), i)), Has(c, i))),
                 Odd(Has(xtime8(d), i), Has(d, i)))
<1>1. \A n \in Byte : aes_xtime(n) \in Byte /\ xtime4(n) \in Byte /\ xtime8(n) \in Byte
  BY XtimeBits DEF xtime4, xtime8
<1>2. \A m, n \in Byte :
        m \oplus n \in Byte /\ (Has(m \oplus n, i) <=> Odd(Has(m, i), Has(n, i)))
  BY XorIs, XorBits DEF Odd
<1>3. \A k, m, n \in Byte :
        /\ (k \oplus m) \oplus n \in Byte
        /\ Has((k \oplus m) \oplus n, i) <=> Odd(Odd(Has(k, i), Has(m, i)), Has(n, i))
  BY <1>2 DEF Odd
<1>4. /\ aes_gmul14(a) \in Byte
      /\ Has(aes_gmul14(a), i)
           <=> Odd(Odd(Has(xtime8(a), i), Has(xtime4(a), i)), Has(aes_xtime(a), i))
  BY <1>1, <1>3 DEF aes_gmul14
<1>5. /\ aes_gmul11(b) \in Byte
      /\ Has(aes_gmul11(b), i) <=> Odd(Odd(Has(xtime8(b), i), Has(aes_xtime(b), i)), Has(b, i))
  BY <1>1, <1>3 DEF aes_gmul11
<1>6. /\ aes_gmul13(c) \in Byte
      /\ Has(aes_gmul13(c), i) <=> Odd(Odd(Has(xtime8(c), i), Has(xtime4(c), i)), Has(c, i))
  BY <1>1, <1>3 DEF aes_gmul13
<1>7. /\ aes_gmul9(d) \in Byte
      /\ Has(aes_gmul9(d), i) <=> Odd(Has(xtime8(d), i), Has(d, i))
  BY <1>1, <1>2 DEF aes_gmul9
<1>8. \A k, l, m, n \in Byte :
        Has(((k \oplus l) \oplus m) \oplus n, i)
          <=> Odd(Odd(Odd(Has(k, i), Has(l, i)), Has(m, i)), Has(n, i))
  BY <1>2, <1>3 DEF Odd
<1>9. Has(InvMixByte(a, b, c, d), i)
        <=> Odd(Odd(Odd(Has(aes_gmul14(a), i), Has(aes_gmul11(b), i)), Has(aes_gmul13(c), i)),
                Has(aes_gmul9(d), i))
  <2>. HIDE DEF Odd
  <2>. QED BY <1>4, <1>5, <1>6, <1>7, <1>8 DEF InvMixByte
<1>. QED BY <1>4, <1>5, <1>6, <1>7, <1>9 DEF Odd

LEMMA DoubledBits ==
  ASSUME NEW a \in Byte, NEW i \in Weights
  PROVE  /\ Doubled(a, i) \in [0 .. 4 -> BOOLEAN]
         /\ Doubled(a, i)[0] = Has(a, i) /\ Doubled(a, i)[1] = Has(aes_xtime(a), i)
         /\ Doubled(a, i)[2] = Has(xtime4(a), i) /\ Doubled(a, i)[3] = Has(xtime8(a), i)
         /\ Doubled(a, i)[4] = Has(aes_xtime(xtime8(a)), i)
<1>. DEFINE t == <<a, aes_xtime(a), xtime4(a), xtime8(a), aes_xtime(xtime8(a))>>
<1>1. \A k : Has(t[k + 1], i) \in BOOLEAN
  BY DEF Has
<1>. HIDE DEF Has
<1>2. Doubled(a, i) \in [0 .. 4 -> BOOLEAN]
  BY <1>1 DEF Doubled
<1>. QED BY <1>2 DEF Doubled

LEMMA MixedBits ==
  ASSUME NEW a \in Byte, NEW b \in Byte, NEW c \in Byte, NEW d \in Byte, NEW i \in Weights
  PROVE  LET m == MixByte(a, b, c, d)
             bit(j) == MixBit(Doubled(a, i), Doubled(b, i), Doubled(c, i), Doubled(d, i), j)
         IN  /\ m \in Byte
             /\ (Has(m, i) <=> bit(0)) /\ (Has(aes_xtime(m), i) <=> bit(1))
             /\ (Has(xtime4(m), i) <=> bit(2)) /\ (Has(xtime8(m), i) <=> bit(3))
<1>. DEFINE m == MixByte(a, b, c, d)
            bit(j) == MixBit(Doubled(a, i), Doubled(b, i), Doubled(c, i), Doubled(d, i), j)
            Doubles(n) ==
              /\ aes_xtime(n) \in Byte /\ xtime4(n) \in Byte /\ xtime8(n) \in Byte
              /\ aes_xtime(aes_xtime(n)) = xtime4(n) /\ aes_xtime(xtime4(n)) = xtime8(n)
<1>1. Doubles(a) /\ Doubles(b) /\ Doubles(c) /\ Doubles(d)
  BY XtimeBits DEF xtime4, xtime8
<1>2. xtime4(m) = aes_xtime(aes_xtime(m)) /\ xtime8(m) = aes_xtime(xtime4(m))
  BY DEF xtime4, xtime8
<1>3. /\ aes_xtime(a) \in Byte /\ aes_xtime(b) \in Byte
      /\ aes_xtime(c) \in Byte /\ aes_xtime(d) \in Byte
  BY <1>1
<1>4. xtime4(a) \in Byte /\ xtime4(b) \in Byte /\ xtime4(c) \in Byte /\ xtime4(d) \in Byte
  BY <1>1
<1>5. xtime8(a) \in Byte /\ xtime8(b) \in Byte /\ xtime8(c) \in Byte /\ xtime8(d) \in Byte
  BY <1>1
<1>6. Has(m, i) <=> bit(0)
  <2>1. Has(m, i)
        <=> Odd(Odd(Odd(Has(aes_xtime(a), i), Odd(Has(aes_xtime(b), i), Has(b, i))),
                    Has(c, i)), Has(d, i))
    BY MixedBit
  <2>. QED BY <2>1, DoubledBits DEF MixBit
<1>7. /\ aes_xtime(m) = MixByte(aes_xtime(a), aes_xtime(b), aes_xtime(c), aes_xtime(d))
      /\ Has(aes_xtime(m), i) <=> bit(1)
  <2>1. aes_xtime(m) = MixByte(aes_xtime(a), aes_xtime(b), aes_xtime(c), aes_xtime(d))
    BY MixDoubled
  <2>2. Has(MixByte(aes_xtime(a), aes_xtime(b), aes_xtime(c), aes_xtime(d)), i)
        <=> Odd(Odd(Odd(Has(aes_xtime(aes_xtime(a)), i),
                        Odd(Has(aes_xtime(aes_xtime(b)), i), Has(aes_xtime(b), i))),
                    Has(aes_xtime(c), i)), Has(aes_xtime(d), i))
    BY <1>3, MixedBit
  <2>. QED BY <1>1, <2>1, <2>2, DoubledBits DEF MixBit
<1>8. /\ xtime4(m) = MixByte(xtime4(a), xtime4(b), xtime4(c), xtime4(d))
      /\ Has(xtime4(m), i) <=> bit(2)
  <2>1. xtime4(m) = MixByte(xtime4(a), xtime4(b), xtime4(c), xtime4(d))
    BY <1>1, <1>2, <1>3, <1>7, MixDoubled
  <2>2. Has(MixByte(xtime4(a), xtime4(b), xtime4(c), xtime4(d)), i)
        <=> Odd(Odd(Odd(Has(aes_xtime(xtime4(a)), i),
                        Odd(Has(aes_xtime(xtime4(b)), i), Has(xtime4(b), i))),
                    Has(xtime4(c), i)), Has(xtime4(d), i))
    BY <1>4, MixedBit
  <2>. QED BY <1>1, <2>1, <2>2, DoubledBits DEF MixBit
<1>9. Has(xtime8(m), i) <=> bit(3)
  <2>1. xtime8(m) = MixByte(xtime8(a), xtime8(b), xtime8(c), xtime8(d))
    BY <1>1, <1>2, <1>4, <1>8, MixDoubled
  <2>2. Has(MixByte(xtime8(a), xtime8(b), xtime8(c), xtime8(d)), i)
        <=> Odd(Odd(Odd(Has(aes_xtime(xtime8(a)), i),
                        Odd(Has(aes_xtime(xtime8(b)), i), Has(xtime8(b), i))),
                    Has(xtime8(c), i)), Has(xtime8(d), i))
    BY <1>5, MixedBit
  <2>. QED BY <2>1, <2>2, DoubledBits DEF MixBit
<1>. QED BY <1>6, <1>7, <1>8, <1>9, MixType

(* So no bit of a column is lost, and no byte of it.                       *)
LEMMA ColumnComesBack ==
  ASSUME NEW a \in Byte, NEW b \in Byte, NEW c \in Byte, NEW d \in Byte
  PROVE  InvMixByte(MixByte(a, b, c, d), MixByte(b, c, d, a),
                    MixByte(c, d, a, b), MixByte(d, a, b, c)) = a
<1>. DEFINE m0 == MixByte(a, b, c, d)   m1 == MixByte(b, c, d, a)
            m2 == MixByte(c, d, a, b)   m3 == MixByte(d, a, b, c)
            back == InvMixByte(m0, m1, m2, m3)
<1>1. m0 \in Byte /\ m1 \in Byte /\ m2 \in Byte /\ m3 \in Byte
  BY MixType
<1>2. \A k, l, m, n \in Byte : InvMixByte(k, l, m, n) \in Byte
  BY ProductTypes, XorByteType DEF InvMixByte
<1>3. ASSUME NEW i \in Weights PROVE Has(back, i) <=> Has(a, i)
  <2>. DEFINE p == Doubled(a, i)   q == Doubled(b, i)   r == Doubled(c, i)   s == Doubled(d, i)
  <2>1. Has(back, i)
        <=> Odd(Odd(Odd(Odd(Odd(Has(xtime8(m0), i), Has(xtime4(m0), i)), Has(aes_xtime(m0), i)),
                        Odd(Odd(Has(xtime8(m1), i), Has(aes_xtime(m1), i)), Has(m1, i))),
                    Odd(Odd(Has(xtime8(m2), i), Has(xtime4(m2), i)), Has(m2, i))),
                Odd(Has(xtime8(m3), i), Has(m3, i)))
    BY <1>1, UnmixedBit
  <2>2. /\ Has(aes_xtime(m0), i) <=> MixBit(p, q, r, s, 1)
        /\ Has(xtime4(m0), i) <=> MixBit(p, q, r, s, 2)
        /\ Has(xtime8(m0), i) <=> MixBit(p, q, r, s, 3)
    BY MixedBits
  <2>3. /\ Has(m1, i) <=> MixBit(q, r, s, p, 0)
        /\ Has(aes_xtime(m1), i) <=> MixBit(q, r, s, p, 1)
        /\ Has(xtime8(m1), i) <=> MixBit(q, r, s, p, 3)
    BY MixedBits
  <2>4. /\ Has(m2, i) <=> MixBit(r, s, p, q, 0)
        /\ Has(xtime4(m2), i) <=> MixBit(r, s, p, q, 2)
        /\ Has(xtime8(m2), i) <=> MixBit(r, s, p, q, 3)
    BY MixedBits
  <2>5. /\ Has(m3, i) <=> MixBit(s, p, q, r, 0)
        /\ Has(xtime8(m3), i) <=> MixBit(s, p, q, r, 3)
    BY MixedBits
  <2>6. /\ p \in [0 .. 4 -> BOOLEAN] /\ q \in [0 .. 4 -> BOOLEAN]
        /\ r \in [0 .. 4 -> BOOLEAN] /\ s \in [0 .. 4 -> BOOLEAN] /\ p[0] = Has(a, i)
    BY DoubledBits
  <2>. HIDE DEF m0, m1, m2, m3, back, p, q, r, s
  <2>7. Has(back, i) <=> p[0]
    BY <2>1, <2>2, <2>3, <2>4, <2>5, <2>6, MixCancels DEF Odd
  <2>. QED BY <2>6, <2>7
<1>4. back \in Byte
  BY <1>1, <1>2
<1>. QED BY <1>3, <1>4, SameBits

(* One table is the inverse of the other.                                  *)
LEMMA SboxComesBack == \A a \in Byte : aes_sbox_inv(aes_sbox_fwd(a)) = a
<1>. SUFFICES ASSUME NEW a \in Byte PROVE aes_sbox_inv(aes_sbox_fwd(a)) = a
  OBVIOUS
<1>. QED BY SMTT(300) DEF aes_sbox_inv, aes_sbox_fwd, sboxFwdTable, sboxInvTable, Byte

LEMMA XorComesBack == \A a, b \in Byte : (a \oplus b) \oplus b = a
<1>. SUFFICES ASSUME NEW a \in Byte, NEW b \in Byte PROVE (a \oplus b) \oplus b = a
  OBVIOUS
<1>1. a \oplus b \in Byte /\ (a \oplus b) \oplus b \in Byte
  BY XorIs
<1>2. \A i \in Weights : Has((a \oplus b) \oplus b, i) <=> Has(a, i)
  <2>1. \A i \in Weights : Has(a \oplus b, i) <=> ~(Has(a, i) <=> Has(b, i))
    BY XorBits
  <2>2. \A i \in Weights : Has((a \oplus b) \oplus b, i) <=> ~(Has(a \oplus b, i) <=> Has(b, i))
    BY <1>1, XorBits
  <2>. QED BY <2>1, <2>2
<1>. QED BY <1>1, <1>2, SameBits

(* A block is its bytes; each layer comes back.                            *)
LEMMA ByBytes == ASSUME NEW s \in State PROVE LET f(i) == byte_at(s, i) IN EachByte(f) = s
BY DEF EachByte, State, byte_at

LEMMA LayersComeBack ==
  ASSUME NEW s \in State, NEW k \in State
  PROVE  /\ aes_inv_sub_bytes(aes_sub_bytes(s)) = s
         /\ aes_inv_shift_rows(aes_shift_rows(s)) = s
         /\ aes_inv_mix_columns(aes_mix_columns(s)) = s
         /\ XorState(XorState(s, k), k) = s
<1>. DEFINE b(i) == byte_at(s, i)
<1>1. \A i \in 0 .. 15 : b(i) \in Byte
  BY ByteAtType
<1>2. EachByte(b) = s
  BY ByBytes
<1>3. ASSUME NEW i \in 0 .. 15
      PROVE  i \in {0, 1, 2, 3, 4, 5, 6, 7, 8, 9, 10, 11, 12, 13, 14, 15}
  OBVIOUS
<1>4. aes_inv_sub_bytes(aes_sub_bytes(s)) = s
  <2>. DEFINE t == aes_sub_bytes(s)
  <2>1. \A i \in 0 .. 15 : byte_at(t, i) = aes_sbox_fwd(b(i))
    BY <1>3 DEF aes_sub_bytes, EachByte, byte_at
  <2>2. \A i \in 0 .. 15 : aes_sbox_inv(byte_at(t, i)) = b(i)
    BY <1>1, <2>1, SboxComesBack
  <2>. HIDE DEF t
  <2>3. aes_inv_sub_bytes(t) = EachByte(b)
    <3>. HIDE DEF b
    <3>. QED BY <2>2 DEF aes_inv_sub_bytes, EachByte
  <2>. QED BY <1>2, <2>3 DEF t
<1>5. aes_inv_shift_rows(aes_shift_rows(s)) = s
  <2>1. aes_inv_shift_rows(aes_shift_rows(s)) = EachByte(b)
    BY DEF aes_inv_shift_rows, aes_shift_rows, EachByte, byte_at,
           shiftRowsFrom, invShiftRowsFrom
  <2>. QED BY <1>2, <2>1
<1>6. XorState(XorState(s, k), k) = s
  <2>. DEFINE t == XorState(s, k)
  <2>1. \A i \in 0 .. 15 : byte_at(t, i) = b(i) \oplus byte_at(k, i)
    BY <1>3 DEF XorState, EachByte, byte_at
  <2>2. \A i \in 0 .. 15 : byte_at(k, i) \in Byte
    BY ByteAtType
  <2>3. \A i \in 0 .. 15 : byte_at(t, i) \oplus byte_at(k, i) = b(i)
    BY <1>1, <2>1, <2>2, XorComesBack
  <2>. HIDE DEF t
  <2>4. XorState(t, k) = EachByte(b)
    <3>. HIDE DEF b
    <3>. QED BY <2>3 DEF XorState, EachByte
  <2>. QED BY <1>2, <2>4 DEF t
<1>7. aes_inv_mix_columns(aes_mix_columns(s)) = s
  <2>. DEFINE t == aes_mix_columns(s)
              m(o, p, q, r) == MixByte(b(o), b(p), b(q), b(r))
  <2>1. ASSUME NEW i \in 0 .. 15
        PROVE  byte_at(t, i) = m(i, Below(i, 1), Below(i, 2), Below(i, 3))
    BY <1>3 DEF aes_mix_columns, EachByte, byte_at
  <2>2. ASSUME NEW i \in 0 .. 15
        PROVE  InvMixByte(byte_at(t, i), byte_at(t, Below(i, 1)),
                          byte_at(t, Below(i, 2)), byte_at(t, Below(i, 3))) = b(i)
    <3>. DEFINE i1 == Below(i, 1)   i2 == Below(i, 2)   i3 == Below(i, 3)
    <3>1. i1 \in 0 .. 15 /\ i2 \in 0 .. 15 /\ i3 \in 0 .. 15
      BY DEF Below
    <3>2. /\ Below(i1, 1) = i2 /\ Below(i1, 2) = i3 /\ Below(i1, 3) = i
          /\ Below(i2, 1) = i3 /\ Below(i2, 2) = i /\ Below(i2, 3) = i1
          /\ Below(i3, 1) = i /\ Below(i3, 2) = i1 /\ Below(i3, 3) = i2
      BY <1>3 DEF Below
    <3>. HIDE DEF i1, i2, i3, b, t
    <3>3. byte_at(t, i) = m(i, i1, i2, i3)
      BY <2>1 DEF i1, i2, i3
    <3>4. byte_at(t, i1) = m(i1, i2, i3, i)
      BY <2>1, <3>1, <3>2
    <3>5. byte_at(t, i2) = m(i2, i3, i, i1)
      BY <2>1, <3>1, <3>2
    <3>6. byte_at(t, i3) = m(i3, i, i1, i2)
      BY <2>1, <3>1, <3>2
    <3>7. b(i) \in Byte /\ b(i1) \in Byte /\ b(i2) \in Byte /\ b(i3) \in Byte
      BY <1>1, <3>1
    <3>8. InvMixByte(byte_at(t, i), byte_at(t, i1), byte_at(t, i2), byte_at(t, i3)) = b(i)
      BY <3>3, <3>4, <3>5, <3>6, <3>7, ColumnComesBack
    <3>. QED BY <3>8 DEF i1, i2, i3
  <2>. HIDE DEF t
  <2>3. aes_inv_mix_columns(t) = EachByte(b)
    <3>. HIDE DEF b
    <3>. QED BY <2>2 DEF aes_inv_mix_columns, EachByte
  <2>. QED BY <1>2, <2>3 DEF t
<1>. QED BY <1>4, <1>5, <1>6, <1>7

(* Every key has its round keys; both directions yield blocks.             *)
LEMMA KeyChain ==
  ASSUME NEW key \in State
  PROVE  \E K : Chain(K, State, key, KeyStep)
<1>1. \A r \in 1 .. 10, k \in State : NextRoundKey(k, r) \in State
  BY NextRoundKeyType
<1>2. KeyStep \in [1 .. 10 -> [State -> State]]
  BY <1>1 DEF KeyStep
<1>. QED BY <1>2, ChainExists

LEMMA CipherTypes ==
  ASSUME NEW key \in State, NEW block \in State
  PROVE  Encrypt(key, block) \in State /\ Decrypt(key, block) \in State
<1>1. PICK K : Chain(K, State, key, KeyStep)
  BY KeyChain
<1>2. K \in [0 .. 10 -> State]
  BY <1>1 DEF Chain
<1>3. K[0] \in State /\ K[10] \in State
  BY <1>2
<1>4. Encrypt(key, block) \in State
  <2>1. XorState(block, K[0]) \in State
    BY <1>3, XorStateType
  <2>2. PICK E : Chain(E, State, XorState(block, K[0]), EncStep(K))
    BY <1>2, <2>1, StepTypes, ChainExists
  <2>3. E[9] \in State
    BY <2>2 DEF Chain
  <2>4. Encrypt(key, block) = XorState(aes_shift_rows(aes_sub_bytes(E[9])), K[10])
    BY <1>1, <2>2, EncryptIs
  <2>. QED BY <1>3, <2>3, <2>4, LayerTypes, XorStateType
<1>5. Decrypt(key, block) \in State
  <2>1. Undo(XorState(block, K[10])) \in State
    BY <1>3, XorStateType, RoundTypes
  <2>2. PICK E : Chain(E, State, Undo(XorState(block, K[10])), DecStep(K))
    BY <1>2, <2>1, StepTypes, ChainExists
  <2>3. E[9] \in State
    BY <2>2 DEF Chain
  <2>4. Decrypt(key, block) = XorState(E[9], K[0])
    BY <1>1, <2>2, DecryptIs
  <2>. QED BY <1>3, <2>3, <2>4, XorStateType
<1>. QED BY <1>4, <1>5

(* Deciphering goes the way of the cipher backwards, state by state.       *)
LEMMA DecryptUndoesEncrypt ==
  ASSUME NEW key \in State, NEW block \in State
  PROVE  Decrypt(key, Encrypt(key, block)) = block
<1>1. PICK K : Chain(K, State, key, KeyStep)
  BY KeyChain
<1>2. K \in [0 .. 10 -> State]
  BY <1>1 DEF Chain
<1>3. XorState(block, K[0]) \in State
  BY <1>2, XorStateType
<1>4. PICK E : Chain(E, State, XorState(block, K[0]), EncStep(K))
  BY <1>2, <1>3, StepTypes, ChainExists
<1>5. E \in [0 .. 10 -> State] /\ \A r \in 1 .. 10 : E[r] = CipherRound(E[r - 1], K[r])
  BY <1>4 DEF Chain, EncStep
<1>. DEFINE last == aes_shift_rows(aes_sub_bytes(E[9]))
            text == XorState(last, K[10])
<1>6. Encrypt(key, block) = text
  BY <1>1, <1>4, EncryptIs
<1>7. \A s \in State : Undo(aes_shift_rows(aes_sub_bytes(s))) = s
  BY LayerTypes, LayersComeBack DEF Undo
<1>8. text \in State /\ Undo(XorState(text, K[10])) = E[9]
  <2>1. E[9] \in State /\ K[10] \in State
    BY <1>2, <1>5
  <2>2. last \in State
    BY <2>1, LayerTypes
  <2>3. text \in State /\ XorState(text, K[10]) = last
    BY <2>1, <2>2, XorStateType, LayersComeBack
  <2>. QED BY <1>7, <2>1, <2>3
<1>. HIDE DEF text
<1>9. PICK D : Chain(D, State, Undo(XorState(text, K[10])), DecStep(K))
  BY <1>2, <1>5, <1>8, StepTypes, ChainExists
<1>10. D \in [0 .. 10 -> State] /\ \A n \in 1 .. 10 : D[n] = UndoRound(D[n - 1], K[10 - n])
  BY <1>9 DEF Chain, DecStep
<1>11. ASSUME NEW n \in 1 .. 9, D[n - 1] = E[10 - n] PROVE D[n] = E[9 - n]
  <2>1. 10 - n \in 1 .. 9 /\ (10 - n) - 1 = 9 - n
    OBVIOUS
  <2>2. E[9 - n] \in State /\ K[10 - n] \in State
    BY <1>2, <1>5
  <2>. DEFINE mixed == aes_mix_columns(aes_shift_rows(aes_sub_bytes(E[9 - n])))
  <2>3. E[10 - n] = XorState(mixed, K[10 - n])
    BY <1>5, <2>1 DEF CipherRound
  <2>4. aes_shift_rows(aes_sub_bytes(E[9 - n])) \in State /\ mixed \in State
    BY <2>2, LayerTypes
  <2>5. XorState(E[10 - n], K[10 - n]) = mixed
    BY <2>2, <2>3, <2>4, LayersComeBack
  <2>6. aes_inv_mix_columns(mixed) = aes_shift_rows(aes_sub_bytes(E[9 - n]))
    BY <2>4, LayersComeBack
  <2>7. D[n] = Undo(aes_inv_mix_columns(XorState(E[10 - n], K[10 - n])))
    BY <1>10, <1>11 DEF UndoRound
  <2>. QED BY <1>7, <2>2, <2>5, <2>6, <2>7
<1>12. D[9] = E[0]
  <2>. DEFINE Meets(n) == D[n] = E[9 - n]
  <2>1. Meets(0)
    BY <1>8, <1>9 DEF Chain
  <2>2. \A n \in 1 .. 9 : Meets(n - 1) => Meets(n)
    BY <1>11
  <2>3. Meets(9)
    <3>. HIDE DEF Meets
    <3>1. Meets(1)
      BY <2>1, <2>2
    <3>2. Meets(2)
      BY <2>2, <3>1
    <3>3. Meets(3)
      BY <2>2, <3>2
    <3>4. Meets(4)
      BY <2>2, <3>3
    <3>5. Meets(5)
      BY <2>2, <3>4
    <3>6. Meets(6)
      BY <2>2, <3>5
    <3>7. Meets(7)
      BY <2>2, <3>6
    <3>8. Meets(8)
      BY <2>2, <3>7
    <3>. QED BY <2>2, <3>8
  <2>. QED BY <2>3
<1>13. Decrypt(key, text) = XorState(E[0], K[0])
  BY <1>1, <1>8, <1>9, <1>12, DecryptIs
<1>14. E[0] = XorState(block, K[0]) /\ K[0] \in State
  BY <1>2, <1>4 DEF Chain
<1>. QED BY <1>6, <1>13, <1>14, LayersComeBack

(* aes_core.v:186-248 under aes_chain.v:96-158: the cipher of the core is  *)
(* what the modes of operation take for granted of their block unit.       *)
THEOREM CipherFitsTheModes ==
  /\ \A e \in BOOLEAN, k, b \in State : CipherOf(e, k, b) \in State
  /\ \A k, b \in State : CipherOf(TRUE, k, CipherOf(FALSE, k, b)) = b
  /\ \A a, b \in State : XorState(a, b) \in State /\ XorState(XorState(a, b), b) = a
<1>1. \A e \in BOOLEAN, k, b \in State : CipherOf(e, k, b) \in State
  BY CipherTypes DEF CipherOf
<1>2. \A k, b \in State : CipherOf(TRUE, k, CipherOf(FALSE, k, b)) = b
  BY DecryptUndoesEncrypt DEF CipherOf
<1>. QED BY <1>1, <1>2, XorStateType, LayersComeBack
=============================================================================
