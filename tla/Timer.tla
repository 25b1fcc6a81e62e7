--------------------------------- MODULE Timer ---------------------------------
(***************************************************************************)
(* The timer (timer.v): a down-counter that reloads itself.  TimerEdge is  *)
(* one rising edge of clk with the software's register write, if any, as a *)
(* record [reg, value]; CTRL and STATUS values are their bit 0.  Registers *)
(* have Width bits, 32 in the code.                                        *)
(***************************************************************************)
EXTENDS Naturals

CONSTANT Width

MaxCount == 2^Width - 1

(* The second conjunct follows from the first, but not for the provers.     *)
ASSUME TimerAssumption == Width \in Nat \ {0} /\ MaxCount \in Nat

VARIABLES ctrl_en, reload_reg, count, status_expired, irq_pulse

timerVars == <<ctrl_en, reload_reg, count, status_expired, irq_pulse>>

Count    == 0 .. MaxCount
NoWrite  == [reg |-> "none"]
BitWrites(reg) == [reg : {reg}, value : BOOLEAN]

TimerTypeOK ==
  /\ ctrl_en \in BOOLEAN /\ status_expired \in BOOLEAN /\ irq_pulse \in BOOLEAN
  /\ reload_reg \in Count /\ count \in Count

TimerInit ==
  /\ ctrl_en = FALSE /\ reload_reg = MaxCount /\ count = MaxCount
  /\ status_expired = FALSE /\ irq_pulse = FALSE

write_ctrl_en(w) == w.reg = "CTRL" /\ w.value
clears(w)        == w.reg = "STATUS" /\ w.value

(* The operators named Bad... are faulty variants, never part of the model: *)
(* each is a plausible slip that one of the properties must catch.          *)
BadExpires(w) == ctrl_en /\ count = 0          \* forgets that a restart wins
expires(w) == ctrl_en /\ count = 0 /\ ~write_ctrl_en(w)

next_count(w) ==
  IF write_ctrl_en(w) \/ (ctrl_en /\ count = 0) THEN reload_reg
  ELSE IF ctrl_en THEN count - 1 ELSE count

BadNextExpired(w) == ~clears(w) /\ (status_expired \/ expires(w))  \* clear wins over set
next_expired(w) == expires(w) \/ (status_expired /\ ~clears(w))

BadIrq(w) == next_expired(w)                   \* a level, as in the header comment
irq(w) == expires(w)

TimerEdge(w) ==
  /\ ctrl_en' = (IF w.reg = "CTRL" THEN w.value ELSE ctrl_en)
  /\ reload_reg' = (IF w.reg = "RELOAD" THEN w.value ELSE reload_reg)
  /\ count' = next_count(w)
  /\ status_expired' = next_expired(w)
  /\ irq_pulse' = irq(w)
=============================================================================
