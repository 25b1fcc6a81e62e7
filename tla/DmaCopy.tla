-------------------------------- MODULE DmaCopy --------------------------------
(***************************************************************************)
(* What the DMA engine promises (dma_engine.v:4-20): after one START it    *)
(* takes the source region through the cipher mode to the destination      *)
(* region, one block after another, each block read, transformed and       *)
(* written as if in one step, with the mode, direction, addresses, length  *)
(* and IV of the START and the key of the moment; then it interrupts once. *)
(***************************************************************************)
EXTENDS Naturals

CONSTANTS
  SizeWords, Word, Beats, Key, Mode,
  LenValues,                \* values of the LEN register
  Count(_),                 \* the blocks an operation with that LEN has
  Result(_, _, _, _, _),    \* Result(mode, decrypt, regs.key, data, iv)
  NextIv(_, _, _, _, _)     \* the IV after that block

VARIABLES
  mem,         \* the memory
  regs,        \* configuration registers: the software may change them at any time
  left,        \* blocks still to do; 0 when idle
  job,         \* mode, direction and next addresses of the operation
  iv,          \* running IV
  working,     \* between START and completion
  irq          \* completion pulse

vars == <<mem, regs, left, job, iv, working, irq>>

Index  == 0 .. SizeWords - 1
CopyBlock == [1 .. Beats -> Word]
Regs   == [key : Key, src : Index, dst : Index, len : LenValues, iv : CopyBlock]
Job    == [mode : Mode, decrypt : BOOLEAN, src : Index, dst : Index]

Wrap(a)   == a % SizeWords
BlockAt(a) == [i \in 1 .. Beats |-> mem[Wrap(a + i - 1)]]

(* The memory with block b at word address a; the last word wins where a   *)
(* block wraps onto itself.                                                *)
Store(a, b) ==
  [n \in Index |->
     IF \E i \in 1 .. Beats : Wrap(a + i - 1) = n
     THEN b[CHOOSE i \in 1 .. Beats :
              /\ Wrap(a + i - 1) = n
              /\ \A j \in 1 .. Beats : Wrap(a + j - 1) = n => j <= i]
     ELSE mem[n]]

Init ==
  /\ mem \in [Index -> Word] /\ regs \in Regs /\ left = 0
  /\ job \in Job /\ iv \in CopyBlock /\ working = FALSE /\ irq = FALSE

Start ==
  /\ ~working
  /\ \E mode \in Mode, decrypt \in BOOLEAN :
       job' = [mode |-> mode, decrypt |-> decrypt, src |-> regs.src, dst |-> regs.dst]
  /\ left' = Count(regs.len) /\ iv' = regs.iv
  /\ working' = TRUE /\ irq' = FALSE
  /\ UNCHANGED mem

DoBlock ==
  /\ working /\ left > 0
  /\ LET data == BlockAt(job.src)
     IN  /\ mem' = Store(job.dst, Result(job.mode, job.decrypt, regs.key, data, iv))
         /\ iv' = NextIv(job.mode, job.decrypt, regs.key, data, iv)
  /\ left' = left - 1
  /\ job' = [mode |-> job.mode, decrypt |-> job.decrypt,
             src |-> Wrap(job.src + Beats), dst |-> Wrap(job.dst + Beats)]
  /\ irq' = FALSE /\ UNCHANGED working

Complete ==
  /\ working /\ left = 0
  /\ working' = FALSE /\ irq' = TRUE
  /\ UNCHANGED <<mem, left, job, iv>>

(* Cycles in which none of these happens; the pulse lasts one cycle.       *)
Quiet == irq' = FALSE /\ UNCHANGED <<mem, left, job, iv, working>>

Next == (Start \/ DoBlock \/ Complete \/ Quiet) /\ regs' \in Regs

Spec == Init /\ [][Next]_vars
=============================================================================
