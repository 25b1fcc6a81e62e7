-------------------------------- MODULE AesCore --------------------------------
(***************************************************************************)
(* The iterative AES-128 core (aes_core.v) and its key expander            *)
(* (aes_key_expand.v), one step per rising edge of clk, on real 128-bit    *)
(* data.  Keys and Data bound the operands the environment presents; start,*)
(* the direction and the operands may change on every cycle.  encdec_reg   *)
(* and data_reg of aes_core.v have the prefix core_ here, as aes_chain.v   *)
(* and aes.v have registers of these names too.                            *)
(***************************************************************************)
EXTENDS AesPkg

CONSTANTS
  Keys, Data,    \* the keys and blocks presented at key_in and data_in
  NoBlock        \* no key, block or operation yet

ASSUME CoreOperands ==
  /\ Keys \subseteq State /\ Data \subseteq State
  /\ NoBlock \notin [decrypt : BOOLEAN, key : Keys, data : State]

VARIABLES
  state, core_encdec_reg, rnum, core_data_reg, busy, done, data_out,   \* aes_core
  ke_state, round_idx, ke_done, rk,                            \* aes_key_expand
  job                                                          \* the operands taken at start

coreVars == <<state, core_encdec_reg, rnum, core_data_reg, busy, done, data_out,
              ke_state, round_idx, ke_done, rk, job>>

Zero == [i \in 1 .. 16 |-> 0]

CoreInit ==
  /\ state = "IDLE" /\ busy = FALSE /\ done = FALSE
  /\ core_encdec_reg = FALSE /\ rnum = 0 /\ core_data_reg = Zero /\ data_out = NoBlock
  /\ ke_state = "IDLE" /\ round_idx = 0 /\ ke_done = FALSE
  /\ rk = [r \in 0 .. 10 |-> NoBlock]
  /\ job = NoBlock

-----------------------------------------------------------------------------
(* Key expander: one new round key per cycle. *)

ke_start(start) == state = "IDLE" /\ start

KeyIdle(start, key_in) ==
  /\ ke_state = "IDLE"
  /\ ke_done' = FALSE
  /\ IF ke_start(start)
     THEN /\ rk' = [rk EXCEPT ![0] = key_in]
          /\ round_idx' = 1 /\ ke_state' = "EXPAND"
     ELSE UNCHANGED <<rk, round_idx, ke_state>>

LastKey == round_idx = 10

(* The operators named Bad... are faulty variants, never part of the model: *)
(* each is a plausible slip that one of the properties must catch.          *)
BadKeyExpand ==      \* every round key from the cipher key
  /\ ke_state = "EXPAND"
  /\ rk' = [rk EXCEPT ![round_idx] = NextRoundKey(rk[0], round_idx)]
  /\ ke_done' = LastKey
  /\ IF LastKey
     THEN ke_state' = "IDLE" /\ UNCHANGED round_idx
     ELSE round_idx' = round_idx + 1 /\ UNCHANGED ke_state
KeyExpand ==
  /\ ke_state = "EXPAND"
  /\ rk' = [rk EXCEPT ![round_idx] = NextRoundKey(rk[round_idx - 1], round_idx)]
  /\ ke_done' = LastKey
  /\ IF LastKey
     THEN ke_state' = "IDLE" /\ UNCHANGED round_idx
     ELSE round_idx' = round_idx + 1 /\ UNCHANGED ke_state

KeyEdge(start, key_in) == KeyIdle(start, key_in) \/ KeyExpand

-----------------------------------------------------------------------------
(* Round datapath. *)

rk_sel         == rk[rnum]
sub_shift_enc  == aes_shift_rows(aes_sub_bytes(core_data_reg))
enc_round_next == XorState(aes_mix_columns(sub_shift_enc), rk_sel)
enc_final_next == XorState(sub_shift_enc, rk_sel)
sub_shift_dec  == aes_inv_sub_bytes(aes_inv_shift_rows(core_data_reg))
dec_round_next == aes_inv_mix_columns(XorState(sub_shift_dec, rk_sel))
dec_final_next == XorState(sub_shift_dec, rk_sel)

CoreIdle(start, encdec, key_in, data_in) ==
  /\ state = "IDLE"
  /\ done' = FALSE
  /\ busy' = start
  /\ IF start
     THEN /\ core_encdec_reg' = encdec /\ core_data_reg' = data_in /\ state' = "KEYEXP"
          /\ job' = [decrypt |-> encdec, key |-> key_in, data |-> data_in]
     ELSE UNCHANGED <<core_encdec_reg, core_data_reg, state, job>>
  /\ UNCHANGED <<rnum, data_out>>

(* The initial AddRoundKey, when the expander is done: rk10 to decrypt, rk0 *)
(* to encrypt.                                                             *)
CoreKeyExp ==
  /\ state = "KEYEXP"
  /\ done' = FALSE
  /\ IF ke_done
     THEN /\ core_data_reg' = XorState(core_data_reg, rk[IF core_encdec_reg THEN 10 ELSE 0])
          /\ rnum' = (IF core_encdec_reg THEN 9 ELSE 1)
          /\ state' = "ROUND"
     ELSE UNCHANGED <<core_data_reg, rnum, state>>
  /\ UNCHANGED <<core_encdec_reg, busy, data_out, job>>

BadLastMiddle(n) == n = IF core_encdec_reg THEN 1 ELSE 8
LastMiddle(n)    == n = IF core_encdec_reg THEN 1 ELSE 9
CoreRound ==
  /\ state = "ROUND"
  /\ done' = FALSE
  /\ core_data_reg' = (IF core_encdec_reg THEN dec_round_next ELSE enc_round_next)
  /\ rnum' = (IF core_encdec_reg THEN rnum - 1 ELSE rnum + 1)
  /\ state' = (IF LastMiddle(rnum) THEN "FINAL" ELSE "ROUND")
  /\ UNCHANGED <<core_encdec_reg, busy, data_out, job>>

CoreFinal ==
  /\ state = "FINAL"
  /\ data_out' = (IF core_encdec_reg THEN dec_final_next ELSE enc_final_next)
  /\ busy' = FALSE /\ done' = TRUE /\ state' = "IDLE"
  /\ UNCHANGED <<core_encdec_reg, rnum, core_data_reg, job>>

CoreEdge(start, encdec, key_in, data_in) ==
  \/ CoreIdle(start, encdec, key_in, data_in)
  \/ CoreKeyExp
  \/ CoreRound
  \/ CoreFinal

CoreNext ==
  \E start \in BOOLEAN, encdec \in BOOLEAN, key_in \in Keys, data_in \in Data :
    CoreEdge(start, encdec, key_in, data_in) /\ KeyEdge(start, key_in)

CoreSpec == CoreInit /\ [][CoreNext]_coreVars

-----------------------------------------------------------------------------
(* Reference: FIPS-197, with all round keys and all intermediate states as *)
(* sequences, and the inverse cipher as the inverse of each step of the    *)
(* cipher, in reverse order.                                               *)

RoundKeys(key) ==    \* round key r is the element r + 1
  LET w[r \in 0 .. 10] ==
        IF r = 0 THEN <<key>>
        ELSE LET u == w[r - 1] IN Append(u, NextRoundKey(u[r], r))
  IN  w[10]

Encrypt(key, block) ==
  LET w == RoundKeys(key)
      Round(s, r) == XorState(aes_mix_columns(aes_shift_rows(aes_sub_bytes(s))), w[r + 1])
      after[r \in 0 .. 9] ==   \* the states after rounds 0..r
        IF r = 0 THEN <<XorState(block, w[1])>>
        ELSE LET u == after[r - 1] IN Append(u, Round(u[r], r))
  IN  XorState(aes_shift_rows(aes_sub_bytes(after[9][10])), w[11])

Decrypt(key, block) ==
  LET w == RoundKeys(key)
      Undo(s)     == aes_inv_sub_bytes(aes_inv_shift_rows(s))
      UndoMix(s, r) == aes_inv_mix_columns(XorState(s, w[r + 1]))
      back[n \in 0 .. 9] ==    \* the states before rounds 10..10-n
        IF n = 0 THEN <<Undo(XorState(block, w[11]))>>
        ELSE LET u == back[n - 1] IN Append(u, Undo(UndoMix(u[n], 10 - n)))
  IN  XorState(back[9][10], w[1])

CipherOf(decrypt, key, block) == IF decrypt THEN Decrypt(key, block) ELSE Encrypt(key, block)

-----------------------------------------------------------------------------
(* Properties. *)

CoreTypeOK ==
  /\ state \in {"IDLE", "KEYEXP", "ROUND", "FINAL"} /\ ke_state \in {"IDLE", "EXPAND"}
  /\ {core_encdec_reg, busy, done, ke_done} \subseteq BOOLEAN
  /\ rnum \in 0 .. 10 /\ round_idx \in 0 .. 10
  /\ core_data_reg \in State /\ data_out \in State \union {NoBlock}
  /\ \A r \in 0 .. 10 : rk[r] \in State \union {NoBlock}

(* busy is up exactly while an operation is in progress, so that a start   *)
(* seen with busy down is always taken.                                    *)
BusyIsInProgress == busy <=> state # "IDLE"

(* The two state machines keep step: the expander works only for an        *)
(* operation that waits for it, and a round never reads a round key that   *)
(* belongs to an earlier operation.                                        *)
RoundKeysAreTheJobs ==
  state \in {"ROUND", "FINAL"} =>
    /\ ke_state = "IDLE"
    /\ rk[0] = job.key
    /\ \A r \in 1 .. 10 : rk[r] = NextRoundKey(rk[r - 1], r)

(* An operation is in progress, as AesBlock sees it.                       *)
BlockBase == INSTANCE AesBlock WITH
  Block <- State, Key <- Keys, Cipher <- CipherOf,
  op <- IF state = "IDLE" THEN NoBlock ELSE job,
  core_done <- done, core_out <- data_out, None <- NoBlock

(* Every operation ends, 21 cycles after its start, whatever the key, the  *)
(* data and the direction (the count of aes_core.v:3-10, and the fixed     *)
(* latency that docs/specs/aes_notes.md claims in section 3.4).            *)
CyclesLeft ==
  IF state = "KEYEXP" THEN (IF ke_done THEN 11 ELSE 22 - round_idx)
  ELSE IF state = "ROUND" THEN (IF core_encdec_reg THEN rnum + 1 ELSE 11 - rnum)
  ELSE IF state = "FINAL" THEN 1
  ELSE 0
FixedLatency ==
  [][ /\ state # "IDLE" => CyclesLeft' = CyclesLeft - 1
      /\ state = "IDLE" /\ state' # "IDLE" => CyclesLeft' = 21 ]_coreVars

(* The core is a block unit: one operation at a time, and the result is    *)
(* the FIPS-197 cipher of the operands presented with start, 21 cycles     *)
(* later, whatever the inputs do meanwhile.                                *)
ImplementsBlock == BlockBase!BlockSpec /\ FixedLatency

(* The core and the key expander agree on what they are doing.             *)
CoreInv == CoreTypeOK /\ BusyIsInProgress /\ RoundKeysAreTheJobs
=============================================================================
