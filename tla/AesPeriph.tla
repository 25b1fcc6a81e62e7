------------------------------- MODULE AesPeriph -------------------------------
(***************************************************************************)
(* The AES peripheral (aes.v): its registers around one AesChain.  One     *)
(* step is one rising edge of clk, with at most one register write by the  *)
(* software; KEY0-3, DATA0-3 and IV0-3 are each written as one value.      *)
(***************************************************************************)
EXTENDS AesChain

CONSTANTS
  ZeroKey, ZeroBlock,  \* the reset values
  DataIn, Ivs          \* the values software writes to DATA and IV

ASSUME PeriphAssumption ==
  /\ ZeroKey \in Key /\ ZeroBlock \in Block /\ None \notin Taken
  /\ DataIn \subseteq Block /\ Ivs \subseteq Block

VARIABLES
  key_reg, data_reg, per_iv, status_done, irq_pulse,
  cleared,     \* history: DONE was written since the last START
  iv_use       \* history: see IvUse

vars == <<chainVars, key_reg, data_reg, per_iv, status_done, irq_pulse, cleared, iv_use>>

(* "chain": neither IV nor LOAD_IV was written since the last START;       *)
(* "fresh": IV was written, not loaded yet; "lost": the register changed   *)
(* under it; "loaded": LOAD_IV came last.                                  *)
IvUse == {"chain", "fresh", "lost", "loaded"}

TypeOK ==
  /\ ChainTypeOK
  /\ key_reg \in Key /\ data_reg \in Block /\ per_iv \in Block
  /\ status_done \in BOOLEAN /\ irq_pulse \in BOOLEAN
  /\ cleared \in BOOLEAN /\ iv_use \in IvUse

Init ==
  /\ ChainInit(ZeroBlock)
  /\ key_reg = ZeroKey /\ data_reg = ZeroBlock /\ per_iv = ZeroBlock
  /\ status_done = FALSE /\ irq_pulse = FALSE
  /\ cleared = TRUE /\ iv_use = "loaded"

-----------------------------------------------------------------------------
(* Register writes of the software, at any time; the mode and direction    *)
(* that come without START are looked at by nobody.                        *)

Ctrl   == [reg : {"CTRL"}, start : {TRUE}, load : BOOLEAN, encdec : BOOLEAN, mode : Mode]
          \union [reg : {"CTRL"}, start : {FALSE}, load : {TRUE}, encdec : {FALSE}, mode : {"ECB"}]
Writes == Ctrl \union [reg : {"DONE"}]              \* STATUS with bit 1 set
               \union [reg : {"KEY"}, key : Key]
               \union [reg : {"DATA"}, block : DataIn] \union [reg : {"IV"}, block : Ivs]
               \union [reg : {"none"}]

do_start(w)   == w.reg = "CTRL" /\ w.start /\ ~chain_busy
do_load_iv(w) == w.reg = "CTRL" /\ w.load /\ ~chain_busy

(* The clear of DONE comes after its set in the process, so it wins.       *)
StatusDone(w) ==
  status_done' = ((done_reg \/ status_done) /\ w.reg # "DONE")

(* The operators named Bad... are faulty variants, never part of the model: *)
(* each is a plausible slip that one of the properties must catch.          *)

(* The readback IV follows the chain's own at each completion; a register  *)
(* write comes after it in the process, so it wins.                        *)
BadMirror(w) == per_iv' = IF w.reg = "IV" THEN w.block ELSE per_iv
MirrorIv(w) ==
  per_iv' = IF w.reg = "IV" THEN w.block ELSE IF done_reg THEN iv_reg ELSE per_iv

BadIrq == irq_pulse' = (done_reg /\ ~status_done)
Irq    == irq_pulse' = done_reg

Edge(w) ==
  /\ ChainEdge(do_load_iv(w), per_iv, do_start(w),
               w.reg = "CTRL" /\ w.encdec, IF w.reg = "CTRL" THEN w.mode ELSE "ECB",
               key_reg, data_reg)
  /\ Irq /\ StatusDone(w) /\ MirrorIv(w)
  /\ key_reg' = (IF w.reg = "KEY" THEN w.key ELSE key_reg)
  /\ data_reg' = (IF w.reg = "DATA" THEN w.block ELSE data_reg)
  /\ cleared' = (w.reg = "DONE" \/ (cleared /\ ~do_start(w)))
  /\ iv_use' = (IF w.reg = "IV" THEN "fresh"
                ELSE IF do_load_iv(w) THEN "loaded"
                ELSE IF iv_use = "fresh" /\ per_iv' # per_iv THEN "lost"
                ELSE IF iv_use = "loaded" /\ do_start(w) THEN "chain"
                ELSE iv_use)

Next == \E w \in Writes : Edge(w)

Spec == Init /\ [][Next]_vars

(* The clock runs and the block unit ends what it began (AesCore: after 21 *)
(* cycles).                                                                *)
FairSpec == Spec /\ WF_vars(Next) /\ []<>(op = None)

-----------------------------------------------------------------------------
(* Properties. *)

(* Once the chain is idle, RESULT is the block that was taken last, under  *)
(* the key, data, mode, direction and IV of the moment it was taken,       *)
(* whatever was written while it was in progress (aes_chain.v:100-147).    *)
ResultIsTheBlock ==
  ~chain_busy /\ taken # None => data_out_reg = ModeOut(taken)

(* Chaining: as a block ends, the running IV becomes the next IV of that   *)
(* very block.                                                             *)
IvAdvances == done_reg /\ taken # None => iv_reg = ModeNextIv(taken)

(* Software that neither writes IV nor loads it reads back the chaining    *)
(* value of the last block (the comment at aes.v:133-135).                 *)
ReadbackIsChainIv ==
  ~chain_busy /\ ~done_reg /\ taken # None /\ iv_use = "chain" => per_iv = ModeNextIv(taken)

(* A polling loop ends: once a block is over DONE shows it, unless the     *)
(* software cleared DONE since it started the block (aes.v:130-131).       *)
DoneIsShown == ~chain_busy /\ ~done_reg /\ ~cleared => status_done

(* The registers, the chain and the readback IV agree.                     *)
PeriphInv == TypeOK /\ IvAdvances /\ ReadbackIsChainIv /\ DoneIsShown

(* Whatever the software does, each block taken is followed by the         *)
(* interrupt pulse.                                                        *)
EveryBlockInterrupts == chain_busy ~> irq_pulse

(* "a fresh REG_IV write still lands for the *next* load_iv" (aes.v:135):  *)
(* nothing but the software changes the IV it wrote until it is loaded.    *)
FreshIvLands == iv_use # "lost"
=============================================================================
