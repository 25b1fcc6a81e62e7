------------------------------- MODULE TimersUse -------------------------------
(***************************************************************************)
(* The timer and the watchdog, each under any software: any register write *)
(* on any edge.  Beside each runs the model of it that its testbench keeps *)
(* (sim_main.cpp): a call of the bus driver is one edge, an edge without a *)
(* write a read.  RELOAD and TIMEOUT, constants of the testbenches, are    *)
(* the values last written here.                                           *)
(***************************************************************************)
EXTENDS Timer, Watchdog

-----------------------------------------------------------------------------
(* The timer. *)

CONSTANT Reloads       \* values software writes to RELOAD

ASSUME ReloadsAssumption == Reloads \subseteq Count

VARIABLES
  timer_wr,  \* the write on the last edge
  loaded,    \* history: what count was loaded with last
  ran,       \* history: edges counted since then with the timer enabled
  model_en, model_count, model_expired, RELOAD   \* the testbench's model

modelVars    == <<model_en, model_count, model_expired, RELOAD>>
timerUseVars == <<timerVars, timer_wr, loaded, ran, modelVars>>

TimerUseInit ==
  /\ TimerInit /\ timer_wr = NoWrite /\ loaded = MaxCount /\ ran = 0
  /\ model_en = FALSE /\ model_count = MaxCount /\ model_expired = FALSE
  /\ RELOAD = MaxCount

TimerWrites == {NoWrite} \union BitWrites("CTRL") \union BitWrites("STATUS")
                         \union [reg : {"RELOAD"}, value : Reloads]

(* The operators named Bad... are faulty variants, never part of the model: *)
(* each is a plausible slip that one of the properties must catch.          *)

(* advance_model: what it makes of the count, and whether that expires.     *)
model_wraps(w) == model_en /\ model_count = 0 /\ ~write_ctrl_en(w)
BadAdvanceModel(w) ==       \* counts down on the edge of the restart, too
  IF model_wraps(w) THEN RELOAD
  ELSE IF model_en THEN model_count - 1
  ELSE IF write_ctrl_en(w) THEN RELOAD ELSE model_count
advance_model(w) ==
  IF write_ctrl_en(w) \/ model_wraps(w) THEN RELOAD
  ELSE IF model_en THEN model_count - 1 ELSE model_count

(* A call, and what the testbench notes of it: EXPIRED is cleared after    *)
(* the model has been advanced.                                            *)
ModelCall(w) ==
  /\ model_count' = advance_model(w)
  /\ model_expired' = (~clears(w) /\ (model_expired \/ model_wraps(w)))
  /\ model_en' = (IF w.reg = "CTRL" THEN w.value ELSE model_en)
  /\ RELOAD' = (IF w.reg = "RELOAD" THEN w.value ELSE RELOAD)

TimerUseEdge(w) ==
  /\ TimerEdge(w) /\ timer_wr' = w
  /\ ModelCall(w)
  /\ IF write_ctrl_en(w) \/ (ctrl_en /\ ran = loaded)
     THEN loaded' = reload_reg /\ ran' = 0
     ELSE loaded' = loaded /\ ran' = (IF ctrl_en THEN ran + 1 ELSE ran)

TimerUseNext == \E w \in TimerWrites : TimerUseEdge(w)

TimerUseSpec == TimerUseInit /\ [][TimerUseNext]_timerUseVars

TimerUseTypeOK == TimerTypeOK /\ loaded \in Count /\ ran \in 0 .. loaded

-----------------------------------------------------------------------------
(* The timer interrupts RELOAD + 1 enabled edges after it was loaded, and  *)
(* never otherwise, whatever is written meanwhile; a restart on the very   *)
(* edge of the expiry wins (l.75-76).                                      *)
OnTime == [][irq_pulse' <=> ctrl_en /\ ran = loaded /\ ~write_ctrl_en(timer_wr')]_timerUseVars

(* An expiry is never lost to software that clears STATUS in that very     *)
(* cycle: whoever was interrupted finds EXPIRED set (l.84-86).             *)
ExpiryIsVisible == irq_pulse => status_expired

(* The interrupt is exactly one cycle wide (l.13-24, 92-93), unless the    *)
(* RELOAD in force is 0: then the line stays up.                           *)
OneCyclePulse == [][irq_pulse /\ loaded # 0 => ~irq_pulse']_timerUseVars

(* Whatever is written, the testbench's model reads like the timer: the    *)
(* same count on every edge, and the same EXPIRED, but for one case.  A    *)
(* clear on the very edge of an expiry clears the model only               *)
(* (sim_main.cpp:102-103; l.84-90 of timer.v), until the next of either.   *)
Expiries == model_expired = status_expired
TimerModelAgrees ==
  [][/\ model_count' = count' /\ model_en' = ctrl_en'
     /\ Expiries => Expiries' \/ (clears(timer_wr') /\ irq_pulse')]_timerUseVars

(* A timer that is left running interrupts again and again, whatever else  *)
(* is written to RELOAD and STATUS.                                        *)
KeepsInterrupting == <>[](ctrl_en /\ ~write_ctrl_en(timer_wr)) => []<>irq_pulse

-----------------------------------------------------------------------------
(* The watchdog. *)

CONSTANT Timeouts      \* values software writes to TIMEOUT

ASSUME TimeoutsAssumption == Timeouts \subseteq WdtCount

VARIABLES
  wdt_wr,      \* the write on the last edge
  allowed,     \* history: what the last restart loaded
  starved,     \* history: enabled edges since then, up to allowed + 1
  interrupted, \* history: the warning interrupt has come since then
  wmodel       \* the testbench's model: its model_... variables, and TIMEOUT

watchdogUseVars == <<watchdogVars, wdt_wr, allowed, starved, interrupted, wmodel>>

WatchdogModel == [en : BOOLEAN, count : WdtCount, warning : BOOLEAN, reset_req : BOOLEAN,
                  irq_pulse : BOOLEAN, timeout : WdtCount]

WatchdogWrites == [reg : {"none", "KICK"}]
            \union [reg : {"CTRL", "STATUS"}, value : BOOLEAN]
            \union [reg : {"TIMEOUT"}, value : Timeouts]

WatchdogUseInit ==
  /\ WatchdogInit /\ wdt_wr = [reg |-> "none"]
  /\ allowed = MaxWdtCount /\ starved = 0 /\ interrupted = FALSE
  /\ wmodel = [en |-> FALSE, count |-> MaxWdtCount, warning |-> FALSE, reset_req |-> FALSE,
               irq_pulse |-> FALSE, timeout |-> MaxWdtCount]

(* A call of the bus driver with the advance_model that follows it.        *)
model_warns == wmodel.en /\ wmodel.count = WARN_MARGIN
BadModelWarning(w) ==     \* the clear first, as in the timer's testbench
  ~restart(w) /\ ~(w.reg = "STATUS" /\ w.value) /\ (model_warns \/ wmodel.warning)
model_warning(w) ==
  ~restart(w) /\ (model_warns \/ (wmodel.warning /\ ~(w.reg = "STATUS" /\ w.value)))
WatchdogModelCall(w) ==
  wmodel' =
    [en        |-> IF w.reg = "CTRL" THEN w.value ELSE wmodel.en,
     count     |-> IF restart(w) THEN wmodel.timeout
                   ELSE IF wmodel.en /\ wmodel.count # 0 THEN wmodel.count - 1
                   ELSE wmodel.count,
     warning   |-> model_warning(w),
     reset_req |-> ~restart(w) /\ (wmodel.reset_req \/ (wmodel.en /\ wmodel.count = 0)),
     irq_pulse |-> ~restart(w) /\ model_warns,
     timeout   |-> IF w.reg = "TIMEOUT" THEN w.value ELSE wmodel.timeout]

WatchdogUseEdge(w) ==
  /\ WatchdogEdge(w) /\ wdt_wr' = w
  /\ WatchdogModelCall(w)
  /\ IF restart(w)
     THEN allowed' = timeout_reg /\ starved' = 0 /\ interrupted' = FALSE
     ELSE /\ starved' = starved + (IF wdt_en /\ starved <= allowed THEN 1 ELSE 0)
          /\ interrupted' = (interrupted \/ wdt_irq_pulse')
          /\ allowed' = allowed

WatchdogUseNext == \E w \in WatchdogWrites : WatchdogUseEdge(w)

WatchdogUseSpec == WatchdogUseInit /\ [][WatchdogUseNext]_watchdogUseVars

WatchdogUseTypeOK ==
  /\ WatchdogTypeOK /\ allowed \in WdtCount /\ starved \in 0 .. allowed + 1
  /\ interrupted \in BOOLEAN

-----------------------------------------------------------------------------
(* A reset is asked for exactly while the watchdog has gone unfed for more *)
(* than TIMEOUT enabled edges: a kick always comes in time, even on the    *)
(* very edge the count is zero, and nothing but a restart takes the        *)
(* request back (l.13-18, 104-109).                                        *)
ResetIffStarved == status_reset_req <=> starved > allowed

(* The warning comes WARN_MARGIN enabled edges before the request, if the  *)
(* timeout leaves it that long; a shorter one asks for a reset unwarned.   *)
WarnsInTime ==
  allowed >= WARN_MARGIN => (interrupted <=> starved + WARN_MARGIN > allowed)

(* Nobody who was interrupted finds STATUS.WARNING already cleared.        *)
WarningIsVisible == wdt_irq_pulse => status_warning

(* The warning is a pulse (l.20-24, 100-102): the counter has moved on by  *)
(* the next edge, whether enabled or not.                                  *)
WarnsOnce == [][interrupted => ~wdt_irq_pulse']_watchdogUseVars

(* Whatever is written, the testbench's model and the watchdog show the    *)
(* same STATUS, the same interrupt pin and the same reset pin on every     *)
(* edge (sim_main.cpp:119-166 checks them along one sequence of calls).    *)
WatchdogModelAgrees ==
  wmodel = [en |-> wdt_en, count |-> wdt_count, warning |-> status_warning,
            reset_req |-> status_reset_req, irq_pulse |-> wdt_irq_pulse,
            timeout |-> timeout_reg]

(* Software that stays away long enough is reset, and stays so.            *)
StarvedIsReset == <>[](wdt_en /\ ~restart(wdt_wr)) => <>[]status_reset_req
=============================================================================
