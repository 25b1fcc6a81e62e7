------------------------------- MODULE AesBlock -------------------------------
(***************************************************************************)
(* What the rest of the design relies on from aes_core.v: a unit that      *)
(* takes one block operation at a time and some cycles later presents, for *)
(* one cycle, the cipher of exactly the operands it was started with.      *)
(* AesCore implements it; AesChain is built on it.                         *)
(***************************************************************************)
CONSTANTS
  Block, Key,
  Cipher(_, _, _),    \* Cipher(decrypt, key, block)
  None

VARIABLES
  op,         \* the operation in progress, or None
  core_done,  \* data_out is presented in this cycle
  core_out    \* the last result

blockVars == <<op, core_done, core_out>>

Operation == [decrypt : BOOLEAN, key : Key, data : Block]

ASSUME CipherType == \A e \in BOOLEAN, k \in Key, b \in Block : Cipher(e, k, b) \in Block
ASSUME BlockNone  == None \notin Operation

BlockTypeOK ==
  /\ op \in Operation \union {None} /\ core_done \in BOOLEAN
  /\ core_out \in Block \union {None}

BlockInit == op = None /\ core_done = FALSE /\ core_out = None

(* A start is taken only when nothing is in progress.                      *)
Begin ==
  /\ op = None /\ op' \in Operation
  /\ core_done' = FALSE /\ UNCHANGED core_out

Finish ==
  /\ op # None
  /\ op' = None /\ core_done' = TRUE
  /\ core_out' = Cipher(op.decrypt, op.key, op.data)

(* A cycle in which nothing starts or ends.                                *)
Pass == core_done' = FALSE /\ UNCHANGED <<op, core_out>>

BlockNext == Begin \/ Pass \/ Finish

(* An operation in progress ends.                                          *)
BlockSpec     == BlockInit /\ [][BlockNext]_blockVars
FairBlockSpec == BlockSpec /\ WF_blockVars(Finish)
=============================================================================
