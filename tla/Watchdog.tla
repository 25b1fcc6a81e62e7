------------------------------- MODULE Watchdog -------------------------------
(***************************************************************************)
(* The watchdog (watchdog.v): warns at WARN_MARGIN, asks for a reset at 0, *)
(* starts over at a kick or an enabling write.  WatchdogEdge is one rising *)
(* edge of clk, its argument the software's register write as in Timer.    *)
(***************************************************************************)
EXTENDS Naturals

CONSTANTS WdtWidth, WARN_MARGIN

MaxWdtCount == 2^WdtWidth - 1

(* The last conjunct follows from the first, but not for the provers.       *)
ASSUME WatchdogAssumption ==
  WdtWidth \in Nat \ {0} /\ WARN_MARGIN \in Nat /\ MaxWdtCount \in Nat

VARIABLES wdt_en, timeout_reg, wdt_count, status_warning, status_reset_req, wdt_irq_pulse

watchdogVars == <<wdt_en, timeout_reg, wdt_count, status_warning, status_reset_req,
                  wdt_irq_pulse>>

WdtCount == 0 .. MaxWdtCount

WatchdogTypeOK ==
  /\ wdt_en \in BOOLEAN /\ status_warning \in BOOLEAN
  /\ status_reset_req \in BOOLEAN /\ wdt_irq_pulse \in BOOLEAN
  /\ timeout_reg \in WdtCount /\ wdt_count \in WdtCount

WatchdogInit ==
  /\ wdt_en = FALSE /\ timeout_reg = MaxWdtCount /\ wdt_count = MaxWdtCount
  /\ status_warning = FALSE /\ status_reset_req = FALSE /\ wdt_irq_pulse = FALSE

restart(w) == w.reg = "KICK" \/ (w.reg = "CTRL" /\ w.value)
warns == wdt_en /\ wdt_count = WARN_MARGIN

(* The operators named Bad... are faulty variants, never part of the model: *)
(* each is a plausible slip that one of the properties must catch.          *)
BadNextWdtCount(w) ==       \* the kick loses against the countdown
  IF wdt_en /\ wdt_count # 0 THEN wdt_count - 1
  ELSE IF restart(w) THEN timeout_reg ELSE wdt_count
next_wdt_count(w) ==
  IF restart(w) THEN timeout_reg
  ELSE IF wdt_en /\ wdt_count # 0 THEN wdt_count - 1 ELSE wdt_count

BadNextResetReq(w) ==    \* a STATUS write dismisses the request
  /\ ~restart(w) /\ w.reg # "STATUS"
  /\ status_reset_req \/ (wdt_en /\ wdt_count = 0)
next_reset_req(w) ==
  ~restart(w) /\ (status_reset_req \/ (wdt_en /\ wdt_count = 0))

next_warning(w) ==
  ~restart(w) /\ (warns \/ (status_warning /\ ~(w.reg = "STATUS" /\ w.value)))

warned(w) == ~restart(w) /\ warns

WatchdogEdge(w) ==
  /\ wdt_en' = (IF w.reg = "CTRL" THEN w.value ELSE wdt_en)
  /\ timeout_reg' = (IF w.reg = "TIMEOUT" THEN w.value ELSE timeout_reg)
  /\ wdt_count' = next_wdt_count(w)
  /\ status_warning' = next_warning(w)
  /\ wdt_irq_pulse' = warned(w)
  /\ status_reset_req' = next_reset_req(w)
=============================================================================
