------------------------------- MODULE AesChain -------------------------------
(***************************************************************************)
(* The modes of operation (aes_chain.v): ECB, CBC and CTR around one block *)
(* unit (AesBlock), with the running IV / counter.  AesPeriph (aes.v) and  *)
(* DmaEngine (dma_engine.v) each contain one and drive ChainEdge.          *)
(***************************************************************************)
EXTENDS AesBlock

CONSTANTS
  Xor(_, _),   \* bitwise exclusive or of two blocks
  Inc(_)       \* 128-bit increment of a block

VARIABLES
  chain_state, mode_reg, encdec_reg, data_in_reg, iv_reg, data_out_reg, done_reg,
  taken        \* history: the IV and operands of the block taken last,
               \* None if LOAD_IV replaced the IV in the same cycle

chainVars == <<blockVars, chain_state, mode_reg, encdec_reg, data_in_reg, iv_reg,
               data_out_reg, done_reg, taken>>

(* The block unit enciphers and deciphers inversely; exclusive or cancels. *)
ASSUME CipherInverse ==
  \A k \in Key, b \in Block : Cipher(TRUE, k, Cipher(FALSE, k, b)) = b
ASSUME XorType    == \A a, b \in Block : Xor(a, b) \in Block
ASSUME XorCancels == \A a, b \in Block : Xor(Xor(a, b), b) = a
ASSUME IncType    == \A b \in Block : Inc(b) \in Block

Mode  == {"ECB", "CBC", "CTR"}
chain_busy == chain_state # "IDLE"
Taken == [mode : Mode, encdec : BOOLEAN, key : Key, data : Block, iv : Block]

(* The chain and its block unit agree on whether a block is in progress.   *)
ChainTypeOK ==
  /\ BlockTypeOK
  /\ chain_state \in {"IDLE", "CORE"} /\ mode_reg \in Mode /\ encdec_reg \in BOOLEAN
  /\ data_in_reg \in Block /\ iv_reg \in Block /\ data_out_reg \in Block \union {None}
  /\ done_reg \in BOOLEAN /\ taken \in Taken \union {None}
  /\ chain_busy <=> (op # None \/ core_done)

(* mode_reg, encdec_reg and data_in_reg have no reset; they are read only  *)
(* after a start has set them.                                             *)
ChainInit(zero) ==
  /\ BlockInit
  /\ chain_state = "IDLE" /\ done_reg = FALSE /\ iv_reg = zero
  /\ mode_reg = "ECB" /\ encdec_reg = FALSE /\ data_in_reg = zero
  /\ data_out_reg = None /\ taken = None

-----------------------------------------------------------------------------
(* What a mode computes (SP 800-38A): what enters the block cipher, in     *)
(* which direction, what leaves the chain, and the next IV.                *)

core_encdec(mode, encdec) == mode # "CTR" /\ encdec
core_data_in(mode, encdec, data, iv) ==
  IF mode = "CBC" /\ ~encdec THEN Xor(data, iv)
  ELSE IF mode = "CTR" THEN iv
  ELSE data
chain_out(mode, encdec, data, iv, c) ==
  IF mode = "CBC" /\ encdec THEN Xor(c, iv)
  ELSE IF mode = "CTR" THEN Xor(data, c)
  ELSE c
next_iv(mode, encdec, data, iv, c) ==
  IF mode = "CBC" THEN (IF encdec THEN data ELSE c)
  ELSE IF mode = "CTR" THEN Inc(iv)
  ELSE iv

-----------------------------------------------------------------------------
(* One clock edge. *)

(* The operators named Bad... are faulty variants, never part of the model: *)
(* each is a plausible slip that one of the properties must catch.          *)

(* Mode and direction as the block unit sees them: live at the edge of the *)
(* start.  Reading the registers instead, as an earlier version did (NB at *)
(* l.62-70), takes those of the previous operation.                        *)
BadLiveMode(mode) == mode_reg
live_mode(mode)   == mode

ChainIdle(load_iv, iv_in, start, encdec, mode, key_in, data_in) ==
  /\ chain_state = "IDLE"
  /\ done_reg' = FALSE
  /\ iv_reg' = (IF load_iv THEN iv_in ELSE iv_reg)
  /\ IF start
     THEN /\ mode_reg' = mode /\ encdec_reg' = encdec /\ data_in_reg' = data_in
          /\ chain_state' = "CORE"
          /\ taken' = (IF load_iv THEN None
                       ELSE [mode |-> mode, encdec |-> encdec, key |-> key_in,
                             data |-> data_in, iv |-> iv_reg])
          /\ op' = [decrypt |-> core_encdec(live_mode(mode), encdec), key |-> key_in,
                    data |-> core_data_in(live_mode(mode), encdec, data_in, iv_reg)]
          /\ Begin
     ELSE /\ UNCHANGED <<mode_reg, encdec_reg, data_in_reg, chain_state, taken>>
          /\ Pass
  /\ UNCHANGED data_out_reg

(* Waiting for the block unit; a block that ends writes the IV after       *)
(* load_iv does, so it wins over it.                                       *)
ChainWait(load_iv, iv_in) ==
  /\ chain_state = "CORE" /\ ~core_done
  /\ done_reg' = FALSE
  /\ iv_reg' = (IF load_iv THEN iv_in ELSE iv_reg)
  /\ Finish \/ Pass
  /\ UNCHANGED <<chain_state, mode_reg, encdec_reg, data_in_reg, data_out_reg, taken>>

ChainDone(load_iv, iv_in) ==
  /\ chain_state = "CORE" /\ core_done
  /\ data_out_reg' = chain_out(mode_reg, encdec_reg, data_in_reg, iv_reg, core_out)
  /\ iv_reg' = (IF mode_reg = "ECB" /\ load_iv THEN iv_in
                ELSE next_iv(mode_reg, encdec_reg, data_in_reg, iv_reg, core_out))
  /\ done_reg' = TRUE /\ chain_state' = "IDLE"
  /\ Pass
  /\ UNCHANGED <<mode_reg, encdec_reg, data_in_reg, taken>>

ChainEdge(load_iv, iv_in, start, encdec, mode, key_in, data_in) ==
  \/ ChainIdle(load_iv, iv_in, start, encdec, mode, key_in, data_in)
  \/ ChainWait(load_iv, iv_in)
  \/ ChainDone(load_iv, iv_in)

-----------------------------------------------------------------------------
(* The block taken last, as SP 800-38A defines its output and the chaining *)
(* value after it (6.2 for CBC, 6.5 for CTR).                              *)
ModeOut(t) ==
  IF t.mode = "CTR" THEN Xor(t.data, Cipher(FALSE, t.key, t.iv))
  ELSE IF t.mode = "CBC" /\ t.encdec THEN Xor(Cipher(TRUE, t.key, t.data), t.iv)
  ELSE IF t.mode = "CBC" THEN Cipher(FALSE, t.key, Xor(t.data, t.iv))
  ELSE Cipher(t.encdec, t.key, t.data)

Ciphertext(t) == IF t.encdec THEN t.data ELSE ModeOut(t)
ModeNextIv(t) ==
  IF t.mode = "CTR" THEN Inc(t.iv) ELSE IF t.mode = "CBC" THEN Ciphertext(t) ELSE t.iv
=============================================================================
