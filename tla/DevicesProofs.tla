----------------------------- MODULE DevicesProofs ----------------------------
(***************************************************************************)
(* Proofs about the timer, the watchdog, the UART, the SPI master and the  *)
(* I2C master: for every register width, warning margin, set of reload     *)
(* values, timeouts and dividers, length of a byte and of a bit, and every *)
(* sequence of writes; and about the interrupts of the first two, from     *)
(* their lines to the firmware and back (SocIrq): for every set of timer   *)
(* periods, watchdog timeout, target and number of edges a program step    *)
(* may take.                                                               *)
(***************************************************************************)
EXTENDS MCDevices, SocIrq, SequenceTheorems, FiniteSetTheorems, TLAPS

-----------------------------------------------------------------------------
(* The timer.                                                              *)

(* The counter is what is left of the value it was loaded with.            *)
CountsDown == count + ran = loaded

(* An interrupt comes with a reload.                                       *)
PulseReloads == irq_pulse => ran = 0

(* What the testbench's model has in common with the timer.                *)
ModelFollows == model_en = ctrl_en /\ model_count = count /\ RELOAD = reload_reg

TimerIInv == ModelFollows /\ TimerUseTypeOK /\ CountsDown /\ PulseReloads /\ ExpiryIsVisible

LEMMA TimerInitInv == TimerUseInit => TimerIInv
<1>. SUFFICES ASSUME TimerUseInit PROVE TimerIInv
  OBVIOUS
<1>1. /\ count = MaxCount /\ loaded = MaxCount /\ ran = 0 /\ reload_reg = MaxCount
      /\ ctrl_en = FALSE /\ status_expired = FALSE /\ irq_pulse = FALSE
  BY DEF TimerUseInit, TimerInit
<1>2. MaxCount \in Nat
  BY TimerAssumption
<1>3. count \in Count /\ reload_reg \in Count /\ loaded \in Count
  BY <1>1, <1>2 DEF Count
<1>4. ran \in 0 .. loaded /\ CountsDown
  BY <1>1, <1>2 DEF CountsDown
<1>5. TimerUseTypeOK
  BY <1>1, <1>3, <1>4 DEF TimerUseTypeOK, TimerTypeOK
<1>6. ModelFollows
  BY DEF TimerUseInit, TimerInit, ModelFollows
<1>. QED BY <1>1, <1>4, <1>5, <1>6 DEF TimerIInv, PulseReloads, ExpiryIsVisible

LEMMA TimerEdgeInv == ASSUME TimerIInv, NEW w \in TimerWrites, TimerUseEdge(w)
                  PROVE  TimerIInv'
<1>. USE TimerAssumption
<1>1. /\ w.reg = "CTRL" => w.value \in BOOLEAN
      /\ w.reg = "RELOAD" => w.value \in Count
  BY ReloadsAssumption DEF TimerWrites, NoWrite, BitWrites
<1>2. count = 0 <=> ran = loaded
  BY DEF TimerIInv, CountsDown, TimerUseTypeOK, TimerTypeOK, Count
<1>3. CountsDown' /\ count' \in Count /\ loaded' \in Count /\ ran' \in 0 .. loaded'
  <2>1. CASE write_ctrl_en(w) \/ (ctrl_en /\ count = 0)
    <3>1. count' = reload_reg /\ loaded' = reload_reg /\ ran' = 0
      BY <1>2, <2>1 DEF TimerUseEdge, TimerEdge, next_count
    <3>. QED
      BY <3>1 DEF TimerIInv, TimerUseTypeOK, TimerTypeOK, CountsDown, Count
  <2>2. CASE ~(write_ctrl_en(w) \/ (ctrl_en /\ count = 0))
    <3>1. /\ count' = (IF ctrl_en THEN count - 1 ELSE count)
          /\ loaded' = loaded /\ ran' = (IF ctrl_en THEN ran + 1 ELSE ran)
      BY <1>2, <2>2 DEF TimerUseEdge, TimerEdge, next_count
    <3>. QED
      BY <1>2, <2>2, <3>1 DEF TimerIInv, TimerUseTypeOK, TimerTypeOK, CountsDown, Count
  <2>. QED BY <2>1, <2>2
<1>4. /\ ctrl_en' \in BOOLEAN /\ reload_reg' \in Count
      /\ status_expired' \in BOOLEAN /\ irq_pulse' \in BOOLEAN
  <2>1. expires(w) \in BOOLEAN /\ next_expired(w) \in BOOLEAN
    BY DEF expires, next_expired
  <2>. QED
    BY <1>1, <2>1 DEF TimerUseEdge, TimerEdge, irq, TimerIInv, TimerUseTypeOK, TimerTypeOK
<1>5. PulseReloads'
  BY <1>2 DEF TimerUseEdge, TimerEdge, irq, expires, PulseReloads
<1>6. ExpiryIsVisible'
  BY DEF TimerUseEdge, TimerEdge, irq, next_expired, ExpiryIsVisible
<1>7. TimerUseTypeOK'
  BY <1>3, <1>4 DEF TimerUseTypeOK, TimerTypeOK
<1>8. ModelFollows'
  BY DEF TimerIInv, ModelFollows, TimerUseEdge, TimerEdge, ModelCall, next_count,
    advance_model,
         model_wraps
<1>. QED BY <1>3, <1>5, <1>6, <1>7, <1>8 DEF TimerIInv

LEMMA TimerNextInv == TimerIInv /\ [TimerUseNext]_timerUseVars => TimerIInv'
<1>1. TimerIInv /\ UNCHANGED timerUseVars => TimerIInv'
  BY DEF timerUseVars, timerVars, modelVars, ModelFollows, TimerIInv, TimerUseTypeOK,
    TimerTypeOK, CountsDown, PulseReloads,
        ExpiryIsVisible
<1>. QED BY <1>1, TimerEdgeInv DEF TimerUseNext

LEMMA TimerInductive == TimerUseSpec => []TimerIInv
BY TimerNextInv, TimerInitInv, PTL DEF TimerUseSpec

-----------------------------------------------------------------------------
(* Every register keeps its width, and no more edges pass than the counter *)
(* was loaded with (l.63-94).                                              *)
THEOREM TimerTypeCorrect == TimerUseSpec => []TimerUseTypeOK
<1>1. TimerIInv => TimerUseTypeOK
  BY DEF TimerIInv
<1>. QED BY <1>1, TimerInductive, PTL

(* Whoever the timer interrupts finds EXPIRED set, whatever was written on *)
(* the edge of the expiry (l.84-86, 93).                                   *)
THEOREM NoHiddenExpiry == TimerUseSpec => []ExpiryIsVisible
<1>1. TimerIInv => ExpiryIsVisible
  BY DEF TimerIInv
<1>. QED BY <1>1, TimerInductive, PTL

(* The timer interrupts RELOAD + 1 enabled edges after it was loaded and   *)
(* at no other time (l.63-77, 93).                                         *)
THEOREM InterruptsOnTime == TimerUseSpec => OnTime
<1>1. ASSUME TimerIInv, NEW w \in TimerWrites, TimerUseEdge(w)
      PROVE  irq_pulse' <=> ctrl_en /\ ran = loaded /\ ~write_ctrl_en(timer_wr')
  <2>1. count = 0 <=> ran = loaded
    BY <1>1, TimerAssumption DEF TimerIInv, CountsDown, TimerUseTypeOK, TimerTypeOK, Count
  <2>2. irq_pulse' <=> ctrl_en /\ count = 0 /\ ~write_ctrl_en(w)
    BY <1>1 DEF TimerUseEdge, TimerEdge, irq, expires
  <2>3. timer_wr' = w
    BY <1>1 DEF TimerUseEdge
  <2>. QED BY <2>1, <2>2, <2>3
<1>2. TimerIInv /\ [TimerUseNext]_timerUseVars
      => [irq_pulse' <=> ctrl_en /\ ran = loaded /\ ~write_ctrl_en(timer_wr')]_timerUseVars
  BY <1>1 DEF TimerUseNext
<1>. QED BY <1>2, TimerInductive, PTL DEF TimerUseSpec, OnTime

(* The testbench's model of the timer (sim_main.cpp:45-61) counts like it  *)
(* under any writes, and its EXPIRED is wrong only after a clear on the    *)
(* edge of an expiry, which the model takes for a clear and the timer for  *)
(* an expiry.                                                              *)
THEOREM TimerModelOfTheTestbench == TimerUseSpec => TimerModelAgrees
<1>. DEFINE Agrees == /\ model_count' = count' /\ model_en' = ctrl_en'
                      /\ Expiries => Expiries' \/ (clears(timer_wr') /\ irq_pulse')
<1>1. ASSUME TimerIInv, NEW w \in TimerWrites, TimerUseEdge(w)
      PROVE  Agrees
  <2>1. model_count' = count' /\ model_en' = ctrl_en'
    BY <1>1, TimerEdgeInv DEF TimerIInv, ModelFollows
  <2>2. model_wraps(w) = expires(w)
    BY <1>1 DEF TimerIInv, ModelFollows, model_wraps, expires
  <2>3. /\ model_expired' = (~clears(w) /\ (model_expired \/ expires(w)))
        /\ status_expired' = (expires(w) \/ (status_expired /\ ~clears(w)))
        /\ irq_pulse' = expires(w) /\ timer_wr' = w
    BY <1>1, <2>2 DEF TimerUseEdge, TimerEdge, ModelCall, next_expired, irq
  <2>4. expires(w) \in BOOLEAN /\ status_expired \in BOOLEAN
    BY <1>1 DEF expires, TimerIInv, TimerUseTypeOK, TimerTypeOK
  <2>5. Expiries => Expiries' \/ (clears(timer_wr') /\ irq_pulse')
    <3>. SUFFICES ASSUME Expiries, ~(clears(w) /\ expires(w))
                  PROVE  model_expired' = status_expired'
      BY <2>3 DEF Expiries
    <3>1. CASE clears(w)
      <4>1. model_expired' = FALSE /\ status_expired' = FALSE
        BY <2>3, <2>4, <3>1
      <4>. QED BY <4>1
    <3>2. CASE ~clears(w)
      <4>1. model_expired' = (status_expired \/ expires(w))
        BY <2>3, <3>2 DEF Expiries
      <4>2. status_expired' = (status_expired \/ expires(w))
        BY <2>3, <2>4, <3>2
      <4>. QED BY <4>1, <4>2
    <3>. QED BY <3>1, <3>2
  <2>. QED BY <2>1, <2>5
<1>2. TimerIInv /\ [TimerUseNext]_timerUseVars => [Agrees]_timerUseVars
  BY <1>1 DEF TimerUseNext
<1>. QED BY <1>2, TimerInductive, PTL DEF TimerUseSpec, TimerModelAgrees

LEMMA PulseStep ==
  TimerIInv /\ [TimerUseNext]_timerUseVars
    => [irq_pulse /\ loaded # 0 => ~irq_pulse']_timerUseVars
<1>1. ASSUME TimerIInv, NEW w \in TimerWrites, TimerUseEdge(w), irq_pulse, loaded # 0
      PROVE  ~irq_pulse'
  <2>1. count # 0
    BY <1>1, TimerAssumption
    DEF TimerIInv, PulseReloads, CountsDown, TimerUseTypeOK, TimerTypeOK, Count
  <2>. QED BY <1>1, <2>1 DEF TimerUseEdge, TimerEdge, irq, expires
<1>. QED BY <1>1 DEF TimerUseNext

(* Unless the RELOAD in force is 0, the interrupt is one cycle wide        *)
(* (l.92-94).                                                              *)
THEOREM PulseIsOneCycle == TimerUseSpec => OneCyclePulse
BY PulseStep, TimerInductive, PTL DEF TimerUseSpec, OneCyclePulse

-----------------------------------------------------------------------------
(* The watchdog.                                                           *)

(* The counter is what is left of the time it was given; it stops at 0.    *)
TimeLeft == wdt_count = (IF starved <= allowed THEN allowed - starved ELSE 0)

(* When the warning has come.  A timeout shorter than the margin never     *)
(* warns.                                                                  *)
Due == allowed >= WARN_MARGIN /\ starved + WARN_MARGIN > allowed
InterruptedWhenDue == interrupted <=> Due

WatchdogIInv == WatchdogUseTypeOK /\ TimeLeft /\ ResetIffStarved /\ InterruptedWhenDue
        /\ WarningIsVisible

LEMMA WatchdogInitInv == WatchdogUseInit => WatchdogIInv
<1>. SUFFICES ASSUME WatchdogUseInit PROVE WatchdogIInv
  OBVIOUS
<1>1. /\ wdt_en = FALSE /\ timeout_reg = MaxWdtCount /\ wdt_count = MaxWdtCount
      /\ status_warning = FALSE /\ status_reset_req = FALSE /\ wdt_irq_pulse = FALSE
      /\ allowed = MaxWdtCount /\ starved = 0 /\ interrupted = FALSE
  BY DEF WatchdogUseInit, WatchdogInit
<1>2. MaxWdtCount \in Nat /\ WARN_MARGIN \in Nat
  BY WatchdogAssumption
<1>3. /\ wdt_count \in WdtCount /\ timeout_reg \in WdtCount /\ allowed \in WdtCount
      /\ starved \in 0 .. allowed + 1
  BY <1>1, <1>2 DEF WdtCount
<1>4. WatchdogUseTypeOK
  BY <1>1, <1>3 DEF WatchdogUseTypeOK, WatchdogTypeOK
<1>5. starved <= allowed /\ allowed - starved = wdt_count /\ ~Due
  BY <1>1, <1>2 DEF Due
<1>6. TimeLeft /\ ~(starved > allowed)
  BY <1>1, <1>2, <1>5 DEF TimeLeft
<1>. QED
  BY <1>1, <1>4, <1>5, <1>6 DEF WatchdogIInv, ResetIffStarved, InterruptedWhenDue,
    WarningIsVisible

(* The edge of a restart: everything starts over.                          *)
LEMMA RestartEdge == ASSUME WatchdogIInv, NEW w \in WatchdogWrites, WatchdogUseEdge(w),
  restart(w)
                     PROVE  WatchdogIInv'
<1>. USE WatchdogAssumption
<1>1. /\ wdt_count' = timeout_reg /\ allowed' = timeout_reg /\ starved' = 0
      /\ interrupted' = FALSE /\ status_warning' = FALSE /\ wdt_irq_pulse' = FALSE
      /\ status_reset_req' = FALSE /\ timeout_reg' = timeout_reg
  BY DEF WatchdogUseEdge, WatchdogEdge, restart, next_wdt_count, next_warning, warned,
         next_reset_req
<1>2. wdt_en' \in BOOLEAN /\ timeout_reg \in WdtCount
  BY DEF WatchdogUseEdge, WatchdogEdge, WatchdogWrites, WatchdogIInv, WatchdogUseTypeOK,
         WatchdogTypeOK
<1>3. WatchdogUseTypeOK'
  <2>1. /\ wdt_count' \in WdtCount /\ timeout_reg' \in WdtCount /\ allowed' \in WdtCount
        /\ starved' \in 0 .. allowed' + 1
    BY <1>1, <1>2 DEF WdtCount
  <2>2. /\ status_warning' \in BOOLEAN /\ status_reset_req' \in BOOLEAN
        /\ wdt_irq_pulse' \in BOOLEAN /\ interrupted' \in BOOLEAN
    BY <1>1
  <2>. QED BY <1>2, <2>1, <2>2 DEF WatchdogUseTypeOK, WatchdogTypeOK
<1>4. TimeLeft' /\ ~(starved > allowed)' /\ ~Due'
  BY <1>1, <1>2 DEF TimeLeft, Due, WdtCount
<1>. QED
  BY <1>1, <1>3, <1>4 DEF WatchdogIInv, ResetIffStarved, InterruptedWhenDue,
    WarningIsVisible

(* Any other edge: time passes while the watchdog is enabled.              *)
LEMMA PassingEdge == ASSUME WatchdogIInv, NEW w \in WatchdogWrites, WatchdogUseEdge(w),
  ~restart(w)
                     PROVE  WatchdogIInv'
<1>. USE WatchdogAssumption
<1>1. /\ allowed' = allowed
      /\ starved' = starved + (IF wdt_en /\ starved <= allowed THEN 1 ELSE 0)
      /\ wdt_count' = (IF wdt_en /\ wdt_count # 0 THEN wdt_count - 1 ELSE wdt_count)
      /\ interrupted' = (interrupted \/ wdt_irq_pulse')
  BY DEF WatchdogUseEdge, WatchdogEdge, next_wdt_count
<1>2. /\ allowed \in Nat /\ starved \in Nat /\ starved <= allowed + 1
      /\ wdt_count = (IF starved <= allowed THEN allowed - starved ELSE 0)
  BY DEF WatchdogIInv, WatchdogUseTypeOK, WatchdogTypeOK, WdtCount, TimeLeft
<1>3. TimeLeft' /\ starved' \in 0 .. allowed' + 1 /\ wdt_count' \in 0 .. allowed'
  BY <1>1, <1>2 DEF TimeLeft
<1>4. wdt_irq_pulse' <=> wdt_en /\ wdt_count = WARN_MARGIN
  BY DEF WatchdogUseEdge, WatchdogEdge, warned, warns
<1>5. InterruptedWhenDue'
  <2>1. interrupted <=> Due
    BY DEF WatchdogIInv, InterruptedWhenDue
  <2>2. Due' <=> Due \/ (wdt_en /\ wdt_count = WARN_MARGIN)
    BY <1>1, <1>2 DEF Due
  <2>. QED BY <1>1, <1>4, <2>1, <2>2 DEF InterruptedWhenDue
<1>6. ResetIffStarved'
  <2>1. status_reset_req' <=> status_reset_req \/ (wdt_en /\ wdt_count = 0)
    BY DEF WatchdogUseEdge, WatchdogEdge, next_reset_req
  <2>2. status_reset_req <=> starved > allowed
    BY DEF WatchdogIInv, ResetIffStarved
  <2>3. (starved > allowed)' <=> starved > allowed \/ (wdt_en /\ wdt_count = 0)
    BY <1>1, <1>2
  <2>. QED BY <2>1, <2>2, <2>3 DEF ResetIffStarved
<1>7. WarningIsVisible'
  BY DEF WatchdogUseEdge, WatchdogEdge, warned, next_warning, WarningIsVisible
<1>8. /\ wdt_en' \in BOOLEAN /\ timeout_reg' \in WdtCount /\ status_warning' \in BOOLEAN
      /\ wdt_irq_pulse' \in BOOLEAN /\ status_reset_req' \in BOOLEAN
      /\ interrupted' \in BOOLEAN
  <2>1. /\ w.reg = "CTRL" => w.value \in BOOLEAN
        /\ w.reg = "TIMEOUT" => w.value \in WdtCount
    BY TimeoutsAssumption DEF WatchdogWrites
  <2>2. wdt_en' \in BOOLEAN /\ timeout_reg' \in WdtCount
    BY <2>1 DEF WatchdogUseEdge, WatchdogEdge, WatchdogIInv, WatchdogUseTypeOK,
      WatchdogTypeOK
  <2>3. next_warning(w) \in BOOLEAN /\ warned(w) \in BOOLEAN
          /\ next_reset_req(w) \in BOOLEAN
    BY DEF next_warning, warned, next_reset_req
  <2>. QED BY <2>2, <2>3, <1>1 DEF WatchdogUseEdge, WatchdogEdge
<1>9. WatchdogUseTypeOK'
  <2>1. allowed' \in WdtCount /\ wdt_count' \in WdtCount
    BY <1>1, <1>3 DEF WatchdogIInv, WatchdogUseTypeOK, WdtCount
  <2>. QED BY <1>3, <1>8, <2>1 DEF WatchdogUseTypeOK, WatchdogTypeOK
<1>. QED BY <1>3, <1>5, <1>6, <1>7, <1>9 DEF WatchdogIInv

LEMMA WatchdogNextInv == WatchdogIInv /\ [WatchdogUseNext]_watchdogUseVars => WatchdogIInv'
<1>1. WatchdogIInv /\ UNCHANGED watchdogUseVars => WatchdogIInv'
  BY DEF watchdogUseVars, watchdogVars, WatchdogIInv, WatchdogUseTypeOK, WatchdogTypeOK,
    TimeLeft,
         ResetIffStarved, InterruptedWhenDue, Due, WarningIsVisible
<1>. QED BY <1>1, RestartEdge, PassingEdge DEF WatchdogUseNext

LEMMA WatchdogInductive == WatchdogUseSpec => []WatchdogIInv
BY WatchdogNextInv, WatchdogInitInv, PTL DEF WatchdogUseSpec

-----------------------------------------------------------------------------
(* Every register keeps its width (l.69-109).                              *)
THEOREM WatchdogTypeCorrect == WatchdogUseSpec => []WatchdogUseTypeOK
<1>1. WatchdogIInv => WatchdogUseTypeOK
  BY DEF WatchdogIInv
<1>. QED BY <1>1, WatchdogInductive, PTL

(* The reset request stands exactly while the watchdog has gone unfed for  *)
(* more than TIMEOUT enabled edges (l.84-89, 104-109).                     *)
THEOREM ResetExactlyWhenStarved == WatchdogUseSpec => []ResetIffStarved
<1>1. WatchdogIInv => ResetIffStarved
  BY DEF WatchdogIInv
<1>. QED BY <1>1, WatchdogInductive, PTL

(* A timeout of at least WARN_MARGIN warns exactly WARN_MARGIN enabled     *)
(* edges before the reset request (l.95-102).                              *)
THEOREM WarningInTime == WatchdogUseSpec => []WarnsInTime
<1>1. WatchdogIInv => WarnsInTime
  BY DEF WatchdogIInv, InterruptedWhenDue, Due, WarnsInTime
<1>. QED BY <1>1, WatchdogInductive, PTL

(* Whoever is warned finds STATUS.WARNING set (l.91-98).                   *)
THEOREM NoHiddenWarning == WatchdogUseSpec => []WarningIsVisible
<1>1. WatchdogIInv => WarningIsVisible
  BY DEF WatchdogIInv
<1>. QED BY <1>1, WatchdogInductive, PTL

(* The testbench's model of the watchdog (sim_main.cpp:46-79) shows the    *)
(* same as the watchdog under any writes.                                  *)
THEOREM WatchdogModelOfTheTestbench == WatchdogUseSpec => []WatchdogModelAgrees
<1>1. WatchdogUseInit => WatchdogModelAgrees
  BY DEF WatchdogUseInit, WatchdogInit, WatchdogModelAgrees
<1>2. ASSUME WatchdogModelAgrees, NEW w \in WatchdogWrites, WatchdogUseEdge(w)
      PROVE  WatchdogModelAgrees'
  <2>1. /\ wmodel.en = wdt_en /\ wmodel.count = wdt_count
        /\ wmodel.warning = status_warning /\ wmodel.reset_req = status_reset_req
        /\ wmodel.timeout = timeout_reg
    BY <1>2 DEF WatchdogModelAgrees
  <2>2. model_warns = warns /\ model_warning(w) = next_warning(w)
    BY <2>1 DEF model_warns, warns, model_warning, next_warning
  <2>3. wmodel' = [en        |-> IF w.reg = "CTRL" THEN w.value ELSE wdt_en,
                   count     |-> next_wdt_count(w),
                   warning   |-> next_warning(w),
                   reset_req |-> next_reset_req(w),
                   irq_pulse |-> warned(w),
                   timeout   |-> IF w.reg = "TIMEOUT" THEN w.value ELSE timeout_reg]
    BY <1>2, <2>1, <2>2
    DEF WatchdogUseEdge, WatchdogModelCall, next_wdt_count, next_reset_req, warned
  <2>. QED
    BY <1>2, <2>3 DEF WatchdogUseEdge, WatchdogEdge, WatchdogModelAgrees
<1>3. WatchdogModelAgrees /\ UNCHANGED watchdogUseVars => WatchdogModelAgrees'
  BY DEF watchdogUseVars, watchdogVars, WatchdogModelAgrees
<1>4. WatchdogModelAgrees /\ [WatchdogUseNext]_watchdogUseVars => WatchdogModelAgrees'
  BY <1>2, <1>3 DEF WatchdogUseNext
<1>. QED BY <1>1, <1>4, PTL DEF WatchdogUseSpec

LEMMA WarningStep ==
  ASSUME WARN_MARGIN # 0
  PROVE  WatchdogIInv /\ [WatchdogUseNext]_watchdogUseVars
           => [interrupted => ~wdt_irq_pulse']_watchdogUseVars
<1>1. ASSUME WatchdogIInv, NEW w \in WatchdogWrites, WatchdogUseEdge(w), interrupted
      PROVE  ~wdt_irq_pulse'
  <2>1. starved + WARN_MARGIN > allowed
    BY <1>1 DEF WatchdogIInv, InterruptedWhenDue, Due
  <2>2. wdt_count # WARN_MARGIN
    BY <1>1, <2>1, WatchdogAssumption
    DEF WatchdogIInv, TimeLeft, WatchdogUseTypeOK, WatchdogTypeOK, WdtCount
  <2>. QED BY <1>1, <2>2 DEF WatchdogUseEdge, WatchdogEdge, warned, warns
<1>. QED BY <1>1 DEF WatchdogUseNext

(* With a margin of at least 1 each starvation warns once (l.95-102).      *)
THEOREM OneWarning == ASSUME WARN_MARGIN # 0
                      PROVE  WatchdogUseSpec => WarnsOnce
<1>1. WatchdogIInv /\ [WatchdogUseNext]_watchdogUseVars
        => [interrupted => ~wdt_irq_pulse']_watchdogUseVars
  BY WarningStep
<1>. QED BY <1>1, WatchdogInductive, PTL DEF WatchdogUseSpec, WarnsOnce

-----------------------------------------------------------------------------
(* The UART.                                                               *)

(* A bit period fits its counter; with more, a bit would never end.        *)
BitFits == CLKS_PER_BIT <= 2^CntWidth

(* The bit of the frame being sent: 0 the start bit, DataBits + 1 the stop *)
(* bit, and one more for the time after it.                                *)
BitNo == CASE tx_state = "START" -> 0
           [] tx_state = "DATA"  -> bit_idx + 1
           [] tx_state = "STOP"  -> DataBits + 1
           [] OTHER              -> DataBits + 2

(* What the line shows just before bit b: the bit before it; the line is a *)
(* register and follows the state by one clock.                            *)
Before(b) == b # 1 /\ (b \in 2 .. DataBits + 1 => tx_shift[b - 2])

OnLine == tx <=> Before(IF clk_cnt = 0 THEN BitNo ELSE BitNo + 1)

Counter ==
  /\ clk_cnt < CLKS_PER_BIT
  /\ tx_state = "IDLE" => clk_cnt = 0
  /\ do_start_tx => tx_state \in {"IDLE", "START"} /\ clk_cnt = 0

(* The receiver is half a bit behind the transmitter.                      *)
HalfBit == CLKS_PER_BIT \div 2
InPhase ==
  rx_wait # 0 =>
    \/ BitNo = Len(rx_bits)     /\ clk_cnt + rx_wait = 2 + CLKS_PER_BIT + HalfBit
    \/ BitNo = Len(rx_bits) + 1 /\ clk_cnt + rx_wait = 2 + HalfBit
    \/ BitNo = Len(rx_bits) + 2 /\ clk_cnt + rx_wait + CLKS_PER_BIT = 2 + HalfBit

(* It has what the transmitter has sent.                                   *)
Sampled ==
  /\ rx_bits \in Seq(BOOLEAN) /\ Len(rx_bits) <= DataBits
  /\ rx_wait = 0 => rx_bits = <<>>
  /\ \A j \in 1 .. Len(rx_bits) : rx_bits[j] = tx_shift[j - 1]

(* It hunts before the line falls, and once it has seen the stop bit.      *)
Fresh ==
  \/ BitNo = 0 /\ clk_cnt <= 1
  \/ BitNo = 1 /\ clk_cnt = 0 /\ CLKS_PER_BIT = 1
Hunts ==
  rx_wait = 0 => \/ tx_state = "IDLE"
                 \/ Fresh
                 \/ BitNo = DataBits + 1 /\ clk_cnt >= 2 + HalfBit

(* What is owed is the byte being sent, until the receiver has it.         *)
Owed ==
  /\ tx_state = "IDLE" /\ do_start_tx => rx_wait = 0 /\ offer = start_byte
  /\ rx_wait # 0 \/ Fresh => offer = tx_shift
  /\ rx_wait = 0 /\ ~Fresh /\ ~do_start_tx => offer = None

UartIInv == UartLineTypeOK /\ Counter /\ OnLine /\ InPhase /\ Sampled /\ Hunts /\ Owed

LEMMA Sizes ==
  /\ DataBits \in Nat /\ DataBits >= 1 /\ CLKS_PER_BIT \in Nat /\ CLKS_PER_BIT >= 1
  /\ HalfBit \in Nat /\ 2 * HalfBit <= CLKS_PER_BIT /\ CLKS_PER_BIT <= 2 * HalfBit + 1
BY UartAssumption DEF HalfBit

LEMMA UartInitInv == UartLineInit => UartIInv
<1>. SUFFICES ASSUME UartLineInit PROVE UartIInv
  OBVIOUS
<1>. USE Sizes
<1>1. UartLineTypeOK
  <2>1. 0 \in 0 .. 2^CntWidth - 1 /\ 0 \in Bits /\ MinGap \in 0 .. MinGap
    BY UartAssumption, LineAssumption DEF Bits
  <2>. QED BY <2>1 DEF UartLineInit, UartInit, UartLineTypeOK, UartTypeOK, Byte
<1>2. BitNo = DataBits + 2 /\ ~Fresh
  BY Sizes DEF UartLineInit, UartInit, BitNo, Fresh
<1>3. Before(BitNo)
  BY <1>2, Sizes DEF Before
<1>4. Counter /\ OnLine
  BY <1>3, Sizes DEF UartLineInit, UartInit, Counter, OnLine
<1>5. InPhase /\ Sampled /\ Hunts /\ Owed
  BY <1>2, Sizes DEF UartLineInit, UartInit, InPhase, Sampled, Hunts, Owed
<1>. QED BY <1>1, <1>4, <1>5 DEF UartIInv

-----------------------------------------------------------------------------
(* The transmitter.                                                        *)

LEMMA IdleLine ==
  ASSUME UartIInv, NEW w, UartEdge(w), tx_state = "IDLE"
  PROVE  /\ tx' = TRUE /\ clk_cnt' = 0 /\ bit_idx' = bit_idx
         /\ tx_state' = (IF do_start_tx THEN "START" ELSE "IDLE")
         /\ tx_shift' = (IF do_start_tx THEN start_byte ELSE tx_shift)
         /\ BitNo = DataBits + 2
         /\ BitNo' = (IF do_start_tx THEN 0 ELSE DataBits + 2)
<1>1. TxIdle
  BY DEF UartEdge, TxStart, TxData, TxStop
<1>. QED BY <1>1 DEF TxIdle, UartIInv, Counter, BitNo

LEMMA BusyLine ==
  ASSUME UartIInv, BitFits, NEW w, UartEdge(w), tx_state # "IDLE"
  PROVE  /\ tx' \in BOOLEAN /\ (tx' <=> Before(BitNo + 1)) /\ tx_shift' = tx_shift
              /\ do_start_tx' = FALSE
         /\ bit_idx' \in Bits /\ tx_state' \in {"IDLE", "START", "DATA", "STOP"}
         /\ BitNo \in 0 .. DataBits + 1
         /\ IF bit_ends THEN clk_cnt' = 0 /\ BitNo' = BitNo + 1
                        ELSE clk_cnt' = clk_cnt + 1 /\ BitNo' = BitNo
         /\ tx_state' = "IDLE" <=> bit_ends /\ BitNo = DataBits + 1
         /\ tx_state' # "START" \/ BitNo = 0
<1>. USE Sizes
<1>1. bit_idx \in 0 .. DataBits - 1 /\ tx_shift \in Byte /\ clk_cnt \in Nat
        /\ clk_cnt < CLKS_PER_BIT
  BY UartAssumption DEF UartIInv, UartLineTypeOK, UartTypeOK, Bits, Counter
<1>2. ASSUME CountClk PROVE clk_cnt' = (IF bit_ends THEN 0 ELSE clk_cnt + 1)
  <2>1. CASE bit_ends
    BY <1>2, <2>1 DEF CountClk
  <2>2. CASE ~bit_ends
    <3>1. clk_cnt + 1 < 2^CntWidth /\ clk_cnt + 1 \in Nat /\ 2^CntWidth \in Nat \ {0}
      BY <1>1, <2>2, UartAssumption DEF bit_ends, BitFits
    <3>2. (clk_cnt + 1) % 2^CntWidth = clk_cnt + 1
      BY <3>1
    <3>. QED BY <1>2, <2>2, <3>2 DEF CountClk
  <2>. QED BY <2>1, <2>2
<1>3. do_start_tx' = FALSE
  BY DEF UartEdge, takes, tx_busy
<1>4. CASE tx_state = "START"
  <2>1. TxStart
    BY <1>4 DEF UartEdge, TxIdle, TxData, TxStop
  <2>2. BitNo = 0 /\ ~Before(BitNo + 1)
    BY <1>4 DEF BitNo, Before
  <2>3. BitNo' = (IF bit_ends THEN 1 ELSE 0)
    BY <2>1 DEF TxStart, BitNo
  <2>4. bit_idx' \in Bits
    BY <1>1, <2>1 DEF TxStart, Bits
  <2>5. tx' = FALSE /\ tx_shift' = tx_shift /\ tx_state' \in {"START", "DATA"}
    BY <2>1 DEF TxStart
  <2>6. clk_cnt' = (IF bit_ends THEN 0 ELSE clk_cnt + 1)
    BY <1>2, <2>1 DEF TxStart
  <2>7. tx' \in BOOLEAN /\ (tx' <=> Before(BitNo + 1))
    BY <2>2, <2>5
  <2>8. IF bit_ends THEN clk_cnt' = 0 /\ BitNo' = BitNo + 1
                        ELSE clk_cnt' = clk_cnt + 1 /\ BitNo' = BitNo
    BY <2>2, <2>3, <2>6
  <2>9. BitNo \in 0 .. DataBits + 1 /\ BitNo # DataBits + 1 /\ tx_state' # "IDLE"
    BY <2>2, <2>5
  <2>. QED BY <1>3, <2>2, <2>4, <2>5, <2>7, <2>8, <2>9
<1>5. CASE tx_state = "DATA"
  <2>1. TxData
    BY <1>5 DEF UartEdge, TxIdle, TxStart, TxStop
  <2>2. BitNo = bit_idx + 1
    BY <1>5 DEF BitNo
  <2>3. tx_shift[bit_idx] \in BOOLEAN /\ (Before(BitNo + 1) <=> tx_shift[bit_idx])
    <3>1. PICK b \in 2 .. DataBits + 1 : b = BitNo + 1 /\ b - 2 = bit_idx
      BY <1>1, <2>2
    <3>2. tx_shift[bit_idx] \in BOOLEAN
      BY <1>1 DEF Byte, Bits
    <3>3. Before(b) <=> tx_shift[b - 2]
      BY DEF Before
    <3>. QED BY <3>1, <3>2, <3>3
  <2>4. BitNo' = (IF bit_ends THEN BitNo + 1 ELSE BitNo)
    BY <1>1, <2>1, <2>2 DEF TxData, BitNo
  <2>. QED BY <1>1, <1>2, <1>3, <2>1, <2>2, <2>3, <2>4 DEF TxData, Bits
<1>6. CASE tx_state = "STOP"
  <2>1. TxStop
    BY <1>6 DEF UartEdge, TxIdle, TxStart, TxData
  <2>2. BitNo = DataBits + 1 /\ Before(BitNo + 1)
    BY <1>6 DEF BitNo, Before
  <2>3. BitNo' = (IF bit_ends THEN BitNo + 1 ELSE BitNo)
    BY <2>1, <2>2 DEF TxStop, BitNo
  <2>. QED BY <1>1, <1>2, <1>3, <2>1, <2>2, <2>3 DEF TxStop, Bits
<1>. QED BY <1>4, <1>5, <1>6 DEF UartIInv, UartLineTypeOK, UartTypeOK

(* The registers of the transmitter after an edge.                         *)
LEMMA UartTypes ==
  ASSUME UartIInv, BitFits, NEW w \in Byte \union {None}, UartEdge(w)
  PROVE  UartTypeOK'
<1>1. start_byte' \in Byte /\ do_start_tx' \in BOOLEAN
  BY DEF UartEdge, takes, tx_busy, UartIInv, UartLineTypeOK, UartTypeOK
<1>2. CASE tx_state = "IDLE"
  <2>1. 0 \in 0 .. 2^CntWidth - 1
    BY UartAssumption
  <2>. QED BY <1>1, <1>2, <2>1, IdleLine DEF UartIInv, UartLineTypeOK, UartTypeOK
<1>3. CASE tx_state # "IDLE"
  <2>1. clk_cnt' \in 0 .. 2^CntWidth - 1
    <3>1. clk_cnt \in Nat /\ clk_cnt < CLKS_PER_BIT
            /\ (~bit_ends => clk_cnt + 1 < CLKS_PER_BIT)
      BY Sizes, UartAssumption DEF UartIInv, UartLineTypeOK, UartTypeOK, Counter, bit_ends
    <3>2. clk_cnt' = 0 \/ (~bit_ends /\ clk_cnt' = clk_cnt + 1)
      BY <1>3, BusyLine
    <3>. QED BY <3>1, <3>2, Sizes, UartAssumption DEF BitFits
  <2>. QED BY <1>1, <1>3, <2>1, BusyLine DEF UartIInv, UartLineTypeOK, UartTypeOK
<1>. QED BY <1>2, <1>3

(* The line is where the bit counters say.                                 *)
LEMMA LineStep ==
  ASSUME UartIInv, BitFits, NEW w, UartEdge(w)
  PROVE  OnLine' /\ Counter'
<1>. USE Sizes
<1>1. CASE tx_state = "IDLE"
  <2>1. BitNo' \in {0, DataBits + 2} /\ clk_cnt' = 0 /\ tx' = TRUE
    BY <1>1, IdleLine
  <2>2. Before(BitNo)'
    BY <2>1 DEF Before
  <2>3. OnLine'
    BY <2>1, <2>2 DEF OnLine
  <2>4. Counter'
    BY <1>1, <2>1, IdleLine DEF Counter
  <2>. QED BY <2>3, <2>4
<1>2. CASE tx_state # "IDLE"
  <2>1. clk_cnt \in Nat /\ clk_cnt < CLKS_PER_BIT
    BY UartAssumption DEF UartIInv, UartLineTypeOK, UartTypeOK, Counter
  <2>2. (clk_cnt' = 0 /\ BitNo' = BitNo + 1) \/ (clk_cnt' = clk_cnt + 1 /\ BitNo' = BitNo /\ ~bit_ends)
    BY <1>2, BusyLine
  <2>3. (Before(IF clk_cnt = 0 THEN BitNo ELSE BitNo + 1))' <=> Before(BitNo + 1)
    <3>1. tx_shift' = tx_shift
      BY <1>2, BusyLine
    <3>2. (IF clk_cnt = 0 THEN BitNo ELSE BitNo + 1)' = BitNo + 1
      BY <2>1, <2>2
    <3>. QED BY <3>1, <3>2 DEF Before
  <2>4. OnLine'
    BY <1>2, <2>3, BusyLine DEF OnLine
  <2>5. clk_cnt' < CLKS_PER_BIT /\ (tx_state' = "IDLE" => clk_cnt' = 0) /\ ~do_start_tx'
    <3>1. ~bit_ends => clk_cnt + 1 < CLKS_PER_BIT
      BY <2>1 DEF bit_ends
    <3>2. tx_state' = "IDLE" => bit_ends
      BY <1>2, BusyLine
    <3>3. bit_ends => clk_cnt' = 0
      BY <1>2, BusyLine
    <3>4. do_start_tx' = FALSE
      BY <1>2, BusyLine
    <3>. QED BY <2>2, <3>1, <3>2, <3>3, <3>4
  <2>. QED BY <2>4, <2>5 DEF Counter
<1>. QED BY <1>1, <1>2

-----------------------------------------------------------------------------
(* The receiver.                                                           *)

LEMMA Position ==
  ASSUME UartIInv
  PROVE  /\ BitNo \in 0 .. DataBits + 2 /\ (tx_state = "IDLE" <=> BitNo = DataBits + 2)
         /\ clk_cnt \in 0 .. CLKS_PER_BIT - 1 /\ rx_wait \in Nat
         /\ Len(rx_bits) \in 0 .. DataBits
<1>1. bit_idx \in 0 .. DataBits - 1 /\ clk_cnt \in Nat /\ clk_cnt < CLKS_PER_BIT
      /\ rx_wait \in Nat /\ tx_state \in {"IDLE", "START", "DATA", "STOP"}
  BY Sizes, UartAssumption DEF UartIInv, UartLineTypeOK, UartTypeOK, Bits, Counter
<1>2. Len(rx_bits) \in 0 .. DataBits
  BY Sizes DEF UartIInv, Sampled
<1>. QED BY <1>1, <1>2, Sizes DEF BitNo

(* A falling line is the beginning of a frame.                             *)
LEMMA LineFalls ==
  ASSUME UartIInv, rx_wait = 0, ~tx
  PROVE  \/ BitNo = 0 /\ clk_cnt = 1
         \/ BitNo = 1 /\ clk_cnt = 0 /\ CLKS_PER_BIT = 1
<1>1. ~Before(IF clk_cnt = 0 THEN BitNo ELSE BitNo + 1)
  BY DEF UartIInv, OnLine
<1>2. Before(0) /\ Before(DataBits + 2)
  BY Sizes DEF Before
<1>3. tx_state = "IDLE" => BitNo = DataBits + 2 /\ clk_cnt = 0
  BY Position DEF UartIInv, Counter
<1>. QED BY <1>1, <1>2, <1>3, Position, Sizes DEF UartIInv, Hunts, Fresh

(* While it is high the receiver hunts for less than a frame.              *)
LEMMA LineIsHigh ==
  ASSUME UartIInv, rx_wait = 0, tx
  PROVE  \/ tx_state = "IDLE"
         \/ BitNo = 0 /\ clk_cnt = 0
         \/ BitNo = DataBits + 1 /\ clk_cnt >= 2 + HalfBit
<1>1. Before(IF clk_cnt = 0 THEN BitNo ELSE BitNo + 1)
  BY DEF UartIInv, OnLine
<1>2. ~Before(1)
  BY DEF Before
<1>. QED BY <1>1, <1>2, Position, Sizes DEF UartIInv, Hunts, Fresh

(* A sample falls into its bit.                                            *)
LEMMA SampleIsTheBit ==
  ASSUME UartIInv, rx_wait = 1
  PROVE  /\ tx <=> Before(Len(rx_bits) + 2)
         /\ \/ BitNo = Len(rx_bits) + 1 /\ clk_cnt = 1 + HalfBit
            \/ BitNo = Len(rx_bits) + 2 /\ clk_cnt = 0 /\ 1 + HalfBit = CLKS_PER_BIT
<1>1. tx <=> Before(IF clk_cnt = 0 THEN BitNo ELSE BitNo + 1)
  BY DEF UartIInv, OnLine
<1>2. \/ BitNo = Len(rx_bits) + 1 /\ clk_cnt = 1 + HalfBit
      \/ BitNo = Len(rx_bits) + 2 /\ clk_cnt = 0 /\ 1 + HalfBit = CLKS_PER_BIT
  BY Position, Sizes DEF UartIInv, InPhase
<1>3. (IF clk_cnt = 0 THEN BitNo ELSE BitNo + 1) = Len(rx_bits) + 2
  BY <1>2, Position, Sizes
<1>. QED BY <1>1, <1>2, <1>3

(* The position after an edge, in numbers.                                 *)
LEMMA IdlePosition ==
  ASSUME UartIInv, NEW w, UartEdge(w), tx_state = "IDLE"
  PROVE  /\ clk_cnt' = 0
         /\ do_start_tx => BitNo' = 0 /\ tx_state' = "START" /\ tx_shift' = start_byte
         /\ ~do_start_tx => BitNo' = DataBits + 2 /\ tx_state' = "IDLE"
              /\ tx_shift' = tx_shift
<1>1. CASE do_start_tx
  BY <1>1, IdleLine
<1>2. CASE ~do_start_tx
  BY <1>2, IdleLine
<1>. QED BY <1>1, <1>2, IdleLine

LEMMA BusyPosition ==
  ASSUME UartIInv, BitFits, NEW w, UartEdge(w), tx_state # "IDLE"
  PROVE  /\ tx_shift' = tx_shift /\ do_start_tx' = FALSE
         /\ clk_cnt = CLKS_PER_BIT - 1 => clk_cnt' = 0 /\ BitNo' = BitNo + 1
         /\ clk_cnt # CLKS_PER_BIT - 1 => clk_cnt' = clk_cnt + 1 /\ BitNo' = BitNo
         /\ (tx_state' = "IDLE") <=> (clk_cnt = CLKS_PER_BIT - 1 /\ BitNo = DataBits + 1)
<1>1. tx_shift' = tx_shift /\ do_start_tx' = FALSE
  BY BusyLine
<1>2. bit_ends => clk_cnt' = 0 /\ BitNo' = BitNo + 1
  BY BusyLine
<1>3. ~bit_ends => clk_cnt' = clk_cnt + 1 /\ BitNo' = BitNo
  BY BusyLine
<1>4. (tx_state' = "IDLE") <=> (bit_ends /\ BitNo = DataBits + 1)
  BY BusyLine
<1>. QED BY <1>1, <1>2, <1>3, <1>4 DEF bit_ends

LEMMA BitEnds ==
  ASSUME UartIInv, BitFits, NEW w, UartEdge(w), tx_state # "IDLE",
         clk_cnt = CLKS_PER_BIT - 1
  PROVE  /\ clk_cnt' = 0 /\ BitNo' = BitNo + 1
         /\ (tx_state' = "IDLE") <=> (BitNo = DataBits + 1)
BY BusyPosition

LEMMA BitGoesOn ==
  ASSUME UartIInv, BitFits, NEW w, UartEdge(w), tx_state # "IDLE",
         clk_cnt # CLKS_PER_BIT - 1
  PROVE  clk_cnt' = clk_cnt + 1 /\ BitNo' = BitNo /\ tx_state' # "IDLE"
BY BusyPosition

(* One clock of a frame while the byte stays owed.                         *)
LEMMA StaysOwed ==
  ASSUME UartIInv, NEW w, UartLineEdge(w), received' = NoFrame, offer = tx_shift
  PROVE  offer' = offer
<1>1. offer # None
  BY UartAssumption DEF UartIInv, UartLineTypeOK, UartTypeOK, Byte, Bits
<1>. QED BY <1>1 DEF UartLineEdge, StillOwed

(* The parts of the invariant about the receiver and the byte it is owed.  *)
Meeting == InPhase /\ Sampled /\ Hunts /\ Owed

LEMMA HuntStep ==
  ASSUME UartIInv, BitFits, NEW w, UartLineEdge(w), rx_wait = 0, tx
  PROVE  Meeting'
<1>. USE Sizes
<1>1. rx_wait' = 0 /\ rx_bits' = <<>> /\ received' = NoFrame
  BY DEF UartLineEdge, Receive, hunting
<1>2. UartEdge(w)
  BY DEF UartLineEdge
<1>3. InPhase' /\ Sampled'
  BY <1>1 DEF InPhase, Sampled
<1>4. offer' = IF offer # None THEN offer ELSE IF takes(w) THEN w ELSE None
  BY <1>1 DEF UartLineEdge, StillOwed
<1>5. do_start_tx' = takes(w) /\ (takes(w) => start_byte' = w /\ tx_state = "IDLE")
  BY <1>2 DEF UartEdge, takes, tx_busy
<1>6. CASE tx_state = "IDLE" /\ do_start_tx
  <2>1. Fresh'
    BY <1>2, <1>6, IdlePosition DEF Fresh
  <2>2. offer' = tx_shift' /\ tx_state' # "IDLE"
    <3>1. offer = start_byte /\ start_byte # None
      BY <1>6, UartAssumption DEF UartIInv, Owed, UartLineTypeOK, UartTypeOK, Byte, Bits
    <3>. QED BY <1>2, <1>4, <1>6, <3>1, IdlePosition
  <2>. QED BY <1>1, <1>3, <2>1, <2>2 DEF Meeting, Hunts, Owed
<1>7. CASE tx_state = "IDLE" /\ ~do_start_tx
  <2>1. ~Fresh /\ ~Fresh' /\ tx_state' = "IDLE"
    BY <1>2, <1>7, IdlePosition, Position DEF Fresh
  <2>2. offer = None
    BY <1>7, <2>1 DEF UartIInv, Owed
  <2>3. do_start_tx' => offer' = start_byte'
    BY <1>4, <1>5, <2>2
  <2>4. ~do_start_tx' => offer' = None
    BY <1>4, <1>5, <2>2
  <2>. QED BY <1>1, <1>3, <2>1, <2>3, <2>4 DEF Meeting, Hunts, Owed
<1>8. CASE BitNo = 0 /\ clk_cnt = 0
  <2>1. tx_state # "IDLE" /\ Fresh
    BY <1>8, Position DEF Fresh
  <2>2. Fresh' /\ tx_shift' = tx_shift /\ tx_state' # "IDLE"
    <3>1. tx_shift' = tx_shift
      BY <1>2, <2>1, BusyPosition
    <3>2. CASE clk_cnt = CLKS_PER_BIT - 1
      <4>1. clk_cnt' = 0 /\ BitNo' = 1 /\ tx_state' # "IDLE"
        BY <1>2, <1>8, <2>1, <3>2, BitEnds
      <4>. QED BY <1>8, <3>1, <3>2, <4>1 DEF Fresh
    <3>3. CASE clk_cnt # CLKS_PER_BIT - 1
      <4>1. clk_cnt' = 1 /\ BitNo' = 0 /\ tx_state' # "IDLE"
        BY <1>2, <1>8, <2>1, <3>3, BitGoesOn
      <4>. QED BY <3>1, <4>1 DEF Fresh
    <3>. QED BY <3>2, <3>3
  <2>3. offer' = tx_shift'
    BY <1>1, <2>1, <2>2, StaysOwed DEF UartIInv, Owed
  <2>. QED BY <1>1, <1>3, <2>2, <2>3 DEF Meeting, Hunts, Owed
<1>9. CASE BitNo = DataBits + 1 /\ clk_cnt >= 2 + HalfBit
  <2>1. tx_state # "IDLE" /\ ~Fresh
    BY <1>9, Position DEF Fresh
  <2>2. ~do_start_tx
    BY <1>9, Position DEF UartIInv, Counter
  <2>3. /\ do_start_tx' = FALSE
        /\ \/ BitNo' = DataBits + 2 /\ tx_state' = "IDLE"
           \/ BitNo' = DataBits + 1 /\ clk_cnt' = clk_cnt + 1
    <3>1. do_start_tx' = FALSE
      BY <1>2, <2>1, BusyPosition
    <3>2. CASE clk_cnt = CLKS_PER_BIT - 1
      BY <1>2, <1>9, <2>1, <3>1, <3>2, BitEnds
    <3>3. CASE clk_cnt # CLKS_PER_BIT - 1
      BY <1>2, <1>9, <2>1, <3>1, <3>3, BitGoesOn
    <3>. QED BY <3>2, <3>3
  <2>4. ~Fresh'
    BY <2>3 DEF Fresh
  <2>5. offer = None
    BY <2>1, <2>2 DEF UartIInv, Owed
  <2>6. offer' = None
    BY <1>4, <1>5, <2>1, <2>5
  <2>7. Hunts'
    <3>1. clk_cnt + 1 >= 2 + HalfBit
      BY <1>9, Position
    <3>. QED BY <2>3, <3>1 DEF Hunts
  <2>. QED BY <1>1, <1>3, <2>3, <2>4, <2>6, <2>7 DEF Meeting, Owed
<1>. QED BY <1>6, <1>7, <1>8, <1>9, LineIsHigh DEF UartIInv, UartLineTypeOK, UartTypeOK

LEMMA FallStep ==
  ASSUME UartIInv, BitFits, NEW w, UartLineEdge(w), rx_wait = 0, ~tx
  PROVE  Meeting'
<1>. USE Sizes
<1>1. rx_wait' = HalfBit + CLKS_PER_BIT /\ rx_bits' = <<>> /\ received' = NoFrame
  BY DEF UartLineEdge, Receive, hunting, HalfBit
<1>2. UartEdge(w)
  BY DEF UartLineEdge
<1>3. tx_state # "IDLE" /\ Fresh
  BY LineFalls, Position DEF Fresh
<1>4. tx_shift' = tx_shift /\ do_start_tx' = FALSE
  BY <1>2, <1>3, BusyPosition
<1>5. offer' = tx_shift'
  BY <1>1, <1>3, <1>4, StaysOwed DEF UartIInv, Owed
<1>6. InPhase'
  <2>1. Len(rx_bits') = 0
    BY <1>1
  <2>2. \/ BitNo' = 0 /\ clk_cnt' = 2
        \/ BitNo' = 1 /\ clk_cnt' = 0 /\ CLKS_PER_BIT = 2
        \/ BitNo' = 2 /\ clk_cnt' = 0 /\ CLKS_PER_BIT = 1
    <3>1. CASE clk_cnt = CLKS_PER_BIT - 1
      <4>1. clk_cnt' = 0 /\ BitNo' = BitNo + 1
        BY <1>2, <1>3, <3>1, BitEnds
      <4>. QED BY <3>1, <4>1, LineFalls
    <3>2. CASE clk_cnt # CLKS_PER_BIT - 1
      <4>1. clk_cnt' = clk_cnt + 1 /\ BitNo' = BitNo
        BY <1>2, <1>3, <3>2, BitGoesOn
      <4>. QED BY <3>2, <4>1, LineFalls
    <3>. QED BY <3>1, <3>2
  <2>. QED BY <1>1, <2>1, <2>2 DEF InPhase
<1>7. Sampled' /\ Hunts'
  BY <1>1 DEF Sampled, Hunts
<1>. QED BY <1>1, <1>4, <1>5, <1>6, <1>7 DEF Meeting, Owed

LEMMA WaitStep ==
  ASSUME UartIInv, BitFits, NEW w, UartLineEdge(w), rx_wait > 1
  PROVE  Meeting'
<1>. USE Sizes
<1>0. rx_wait # 0 /\ rx_wait # 1
  BY Position
<1>1. rx_wait' = rx_wait - 1 /\ rx_bits' = rx_bits /\ received' = NoFrame
  BY <1>0 DEF UartLineEdge, Receive, hunting
<1>2. UartEdge(w)
  BY DEF UartLineEdge
<1>3. tx_state # "IDLE"
  BY <1>0, Position DEF UartIInv, InPhase, Counter
<1>4. tx_shift' = tx_shift /\ do_start_tx' = FALSE
  BY <1>2, <1>3, BusyPosition
<1>5. offer' = tx_shift'
  BY <1>0, <1>1, <1>4, StaysOwed DEF UartIInv, Owed
<1>6. InPhase'
  <2>1. /\ clk_cnt = CLKS_PER_BIT - 1 => clk_cnt' = 0 /\ BitNo' = BitNo + 1
        /\ clk_cnt # CLKS_PER_BIT - 1 => clk_cnt' = clk_cnt + 1 /\ BitNo' = BitNo
    BY <1>2, <1>3, BusyPosition
  <2>2. Len(rx_bits') = Len(rx_bits)
    BY <1>1
  <2>3. \/ BitNo = Len(rx_bits)     /\ clk_cnt + rx_wait = 2 + CLKS_PER_BIT + HalfBit
        \/ BitNo = Len(rx_bits) + 1 /\ clk_cnt + rx_wait = 2 + HalfBit
        \/ BitNo = Len(rx_bits) + 2 /\ clk_cnt + rx_wait + CLKS_PER_BIT = 2 + HalfBit
    BY <1>0 DEF UartIInv, InPhase
  <2>4. \/ BitNo' = Len(rx_bits')     /\ clk_cnt' + rx_wait' = 2 + CLKS_PER_BIT + HalfBit
        \/ BitNo' = Len(rx_bits') + 1 /\ clk_cnt' + rx_wait' = 2 + HalfBit
        \/ BitNo' = Len(rx_bits') + 2 /\ clk_cnt' + rx_wait' + CLKS_PER_BIT = 2 + HalfBit
    <3>1. rx_wait \in Nat /\ clk_cnt \in 0 .. CLKS_PER_BIT - 1 /\ BitNo \in Nat
      BY Position
    <3>2. Len(rx_bits) \in Nat
      BY Position
    <3>3. CASE clk_cnt = CLKS_PER_BIT - 1
      BY <1>1, <2>1, <2>2, <2>3, <3>1, <3>2, <3>3
    <3>4. CASE clk_cnt # CLKS_PER_BIT - 1
      BY <1>1, <2>1, <2>2, <2>3, <3>1, <3>2, <3>4
    <3>. QED BY <3>3, <3>4
  <2>. QED BY <2>4 DEF InPhase
<1>7. Sampled' /\ Hunts'
  BY <1>0, <1>1, <1>4, Position DEF UartIInv, Sampled, Hunts
<1>. QED BY <1>0, <1>1, <1>4, <1>5, <1>6, <1>7, Position DEF Meeting, Owed

LEMMA SampleStep ==
  ASSUME UartIInv, BitFits, NEW w, UartLineEdge(w), rx_wait = 1, Len(rx_bits) # DataBits
  PROVE  Meeting' /\ received' = NoFrame
<1>. USE Sizes
<1>1. rx_bits \in Seq(BOOLEAN) /\ tx \in BOOLEAN
  BY DEF UartIInv, Sampled, UartLineTypeOK, UartTypeOK
<1>2. Len(Append(rx_bits, tx)) = Len(rx_bits) + 1
  BY <1>1
<1>3. rx_wait' = CLKS_PER_BIT /\ rx_bits' = Append(rx_bits, tx) /\ received' = NoFrame
  BY <1>2, Position DEF UartLineEdge, Receive, hunting
<1>4. UartEdge(w)
  BY DEF UartLineEdge
<1>5. tx_state # "IDLE"
  BY SampleIsTheBit, Position
<1>6. tx_shift' = tx_shift /\ do_start_tx' = FALSE
  BY <1>4, <1>5, BusyPosition
<1>7. offer' = tx_shift'
  BY <1>3, <1>6, StaysOwed DEF UartIInv, Owed
<1>8. InPhase'
  <2>1. /\ clk_cnt = CLKS_PER_BIT - 1 => clk_cnt' = 0 /\ BitNo' = BitNo + 1
        /\ clk_cnt # CLKS_PER_BIT - 1 => clk_cnt' = clk_cnt + 1 /\ BitNo' = BitNo
    BY <1>4, <1>5, BusyPosition
  <2>2. Len(rx_bits') = Len(rx_bits) + 1
    BY <1>2, <1>3
  <2>. QED BY <1>3, <2>1, <2>2, SampleIsTheBit, Position DEF InPhase
<1>9. Sampled'
  <2>1. Before(Len(rx_bits) + 2) <=> tx_shift[Len(rx_bits)]
    <3>1. PICK b \in 2 .. DataBits + 1 : b = Len(rx_bits) + 2 /\ b - 2 = Len(rx_bits)
      BY Position
    <3>2. Before(b) <=> tx_shift[b - 2]
      BY DEF Before
    <3>. QED BY <3>1, <3>2
  <2>2. tx_shift[Len(rx_bits)] \in BOOLEAN
    BY Position DEF UartIInv, UartLineTypeOK, UartTypeOK, Byte, Bits
  <2>3. tx = tx_shift[Len(rx_bits)]
    BY <1>1, <2>1, <2>2, SampleIsTheBit
  <2>4. \A j \in 1 .. Len(rx_bits) + 1 :
          Append(rx_bits, tx)[j] = IF j = Len(rx_bits) + 1 THEN tx ELSE rx_bits[j]
    BY <1>1
  <2>5. ASSUME NEW j \in 1 .. Len(rx_bits) + 1
        PROVE Append(rx_bits, tx)[j] = tx_shift[j - 1]
    <3>1. CASE j = Len(rx_bits) + 1
      <4>1. j - 1 = Len(rx_bits)
        BY <3>1, Position
      <4>. QED BY <2>3, <2>4, <3>1, <4>1
    <3>2. CASE j # Len(rx_bits) + 1
      <4>1. j \in 1 .. Len(rx_bits)
        BY <3>2, Position
      <4>. QED BY <2>4, <3>2, <4>1 DEF UartIInv, Sampled
    <3>. QED BY <3>1, <3>2
  <2>6. Append(rx_bits, tx) \in Seq(BOOLEAN)
    BY <1>1
  <2>. QED BY <1>2, <1>3, <1>6, <2>5, <2>6, Position DEF Sampled
<1>. QED BY <1>3, <1>6, <1>7, <1>8, <1>9 DEF Meeting, Hunts, Owed

(* What the receiver takes for a frame is one, of the byte owed.           *)
LEMMA FrameStep ==
  ASSUME UartIInv, BitFits, NEW w, UartLineEdge(w), rx_wait = 1, Len(rx_bits) = DataBits
  PROVE  /\ Meeting' /\ received' # NoFrame /\ received'[DataBits + 1] = TRUE
              /\ offer # None
         /\ received' = [i \in 1 .. DataBits + 1 |-> i = DataBits + 1 \/ offer[i - 1]]
<1>. USE Sizes
<1>1. rx_bits \in Seq(BOOLEAN) /\ tx \in BOOLEAN
  BY DEF UartIInv, Sampled, UartLineTypeOK, UartTypeOK
<1>2. Len(Append(rx_bits, tx)) = DataBits + 1
  BY <1>1
<1>3. rx_wait' = 0 /\ rx_bits' = <<>> /\ received' = Append(rx_bits, tx)
  BY <1>2, Position DEF UartLineEdge, Receive, hunting
<1>4. UartEdge(w)
  BY DEF UartLineEdge
<1>5. tx = TRUE
  <2>1. Before(DataBits + 2)
    BY DEF Before
  <2>. QED BY <1>1, <2>1, SampleIsTheBit
<1>6. offer = tx_shift /\ offer # None /\ tx_shift \in [Bits -> BOOLEAN]
  BY UartAssumption DEF UartIInv, Owed, UartLineTypeOK, UartTypeOK, Byte, Bits
<1>7. \A j \in 1 .. DataBits + 1 :
        Append(rx_bits, tx)[j] = IF j = DataBits + 1 THEN tx ELSE rx_bits[j]
  BY <1>1
<1>8. received' = [i \in 1 .. DataBits + 1 |-> i = DataBits + 1 \/ offer[i - 1]]
  <2>1. ASSUME NEW j \in 1 .. DataBits + 1
        PROVE  Append(rx_bits, tx)[j] = (j = DataBits + 1 \/ offer[j - 1])
    <3>1. CASE j = DataBits + 1
      BY <1>5, <1>7, <3>1
    <3>2. CASE j # DataBits + 1
      <4>1. j \in 1 .. Len(rx_bits) /\ j - 1 \in Bits
        BY <3>2 DEF Bits
      <4>2. rx_bits[j] = tx_shift[j - 1] /\ tx_shift[j - 1] \in BOOLEAN
        BY <1>6, <4>1 DEF UartIInv, Sampled
      <4>. QED BY <1>6, <1>7, <3>2, <4>2
    <3>. QED BY <3>1, <3>2
  <2>2. Append(rx_bits, tx) = [j \in 1 .. DataBits + 1 |-> Append(rx_bits, tx)[j]]
    <3>1. Append(rx_bits, tx) \in Seq(BOOLEAN)
      BY <1>1
    <3>2. Append(rx_bits, tx) \in [1 .. Len(Append(rx_bits, tx)) -> BOOLEAN]
      BY <3>1, LenProperties
    <3>. QED BY <1>2, <3>2, Zenon
  <2>. QED BY <1>3, <2>1, <2>2
<1>9. received' # NoFrame /\ received'[DataBits + 1] = TRUE
  <2>1. received'[DataBits + 1] = TRUE
    BY <1>3, <1>5, <1>7
  <2>2. received' # <<>>
    BY <1>2, <1>3
  <2>. QED BY <2>1, <2>2 DEF NoFrame
<1>10. offer' = IF takes(w) THEN w ELSE None
  BY <1>9 DEF UartLineEdge, StillOwed
<1>11. do_start_tx' = takes(w) /\ (takes(w) => start_byte' = w /\ tx_state = "IDLE")
  BY <1>4 DEF UartEdge, takes, tx_busy
<1>12. ~Fresh' /\ Hunts'
  <2>1. CASE tx_state = "IDLE"
    <3>1. ~do_start_tx
      BY <2>1 DEF UartIInv, Owed
    <3>2. tx_state' = "IDLE" /\ BitNo' = DataBits + 2
      BY <1>4, <2>1, <3>1, IdlePosition
    <3>. QED BY <3>2 DEF Fresh, Hunts
  <2>2. CASE tx_state # "IDLE"
    <3>1. BitNo = DataBits + 1 /\ clk_cnt = 1 + HalfBit
      BY <2>2, SampleIsTheBit, Position
    <3>2. CASE clk_cnt = CLKS_PER_BIT - 1
      <4>1. BitNo' = DataBits + 2 /\ tx_state' = "IDLE"
        BY <1>4, <2>2, <3>1, <3>2, BitEnds
      <4>. QED BY <4>1 DEF Fresh, Hunts
    <3>3. CASE clk_cnt # CLKS_PER_BIT - 1
      <4>1. BitNo' = DataBits + 1 /\ clk_cnt' = 2 + HalfBit
        BY <1>4, <2>2, <3>1, <3>3, BitGoesOn
      <4>. QED BY <4>1 DEF Fresh, Hunts
    <3>. QED BY <3>2, <3>3
  <2>. QED BY <2>1, <2>2
<1>13. Owed'
  BY <1>3, <1>10, <1>11, <1>12 DEF Owed
<1>. QED BY <1>3, <1>6, <1>8, <1>9, <1>12, <1>13 DEF Meeting, InPhase, Sampled

LEMMA FirstFrame ==
  ASSUME UartIInv, BitFits, NEW w, UartLineEdge(w)
  PROVE  Meeting'
<1>. rx_wait = 0 \/ rx_wait = 1 \/ rx_wait > 1
  BY Position
<1>1. CASE rx_wait = 0
  BY <1>1, HuntStep, FallStep
<1>2. CASE rx_wait = 1
  BY <1>2, SampleStep, FrameStep
<1>3. CASE rx_wait > 1
  BY <1>3, WaitStep
<1>. QED BY <1>1, <1>2, <1>3

(* Only a byte the receiver waits for is received.                         *)
LEMMA ReceivedIsOwed ==
  ASSUME UartIInv, BitFits, NEW w, UartLineEdge(w), received' # NoFrame
  PROVE  /\ offer # None
         /\ received' = [i \in 1 .. DataBits + 1 |-> i = DataBits + 1 \/ offer[i - 1]]
<1>1. rx_wait = 1
  BY DEF UartLineEdge, Receive
<1>2. Len(rx_bits) = DataBits
  BY <1>1, SampleStep
<1>. QED BY <1>1, <1>2, FrameStep

LEMMA LineTypes ==
  ASSUME UartIInv, BitFits, NEW w \in Byte \union {None}, UartLineEdge(w),
         polls' = polls, knows_idle' \in BOOLEAN, gap' \in 0 .. MinGap
  PROVE  UartLineTypeOK'
<1>1. UartTypeOK'
  BY UartTypes DEF UartLineEdge
<1>2. offer' \in Byte \union {None}
  BY DEF UartLineEdge, UartIInv, UartLineTypeOK
<1>3. dropped' \in BOOLEAN
  BY DEF UartLineEdge, tx_busy, StillOwed
<1>4. rx_wait' \in 0 .. 2 * CLKS_PER_BIT
  BY Sizes, Position DEF UartLineEdge, Receive, HalfBit, UartIInv, UartLineTypeOK
<1>. QED BY <1>1, <1>2, <1>3, <1>4 DEF UartIInv, UartLineTypeOK

LEMMA UartEdgeInv ==
  ASSUME UartIInv, BitFits, NEW w \in Byte \union {None}, UartLineEdge(w),
         polls' = polls, knows_idle' \in BOOLEAN, gap' \in 0 .. MinGap
  PROVE  UartIInv'
BY LineTypes, LineStep, FirstFrame DEF UartIInv, Meeting, UartLineEdge

LEMMA UartSoftware ==
  ASSUME UartIInv, UartLineNext
  PROVE  /\ polls' = polls /\ knows_idle' \in BOOLEAN /\ gap' \in 0 .. MinGap
         /\ \E w \in Byte \union {None} : UartLineEdge(w)
<1>. USE LineAssumption
<1>1. polls \in BOOLEAN /\ knows_idle \in BOOLEAN /\ gap \in 0 .. MinGap
  BY DEF UartIInv, UartLineTypeOK
<1>2. CASE Wait
  <2>1. UartLineEdge(None) /\ polls' = polls /\ knows_idle' = knows_idle
          /\ gap' \in 0 .. MinGap
    BY <1>1, <1>2 DEF Wait
  <2>. QED BY <1>1, <2>1
<1>3. CASE ReadStatus
  <2>1. UartLineEdge(None) /\ polls' = polls /\ knows_idle' \in BOOLEAN /\ gap' = gap
    BY <1>3 DEF ReadStatus, tx_busy
  <2>. QED BY <1>1, <2>1
<1>4. ASSUME NEW b \in Payloads, WriteTxData(b)
      PROVE  polls' = polls /\ knows_idle' \in BOOLEAN /\ gap' \in 0 .. MinGap
             /\ UartLineEdge(b) /\ b \in Byte
  <2>1. UartLineEdge(b) /\ polls' = polls /\ knows_idle' = FALSE /\ gap' = 0
    BY <1>4 DEF WriteTxData
  <2>2. b \in Byte /\ 0 \in 0 .. MinGap
    OBVIOUS
  <2>. QED BY <2>1, <2>2
<1>. QED BY <1>2, <1>3, <1>4 DEF UartLineNext

LEMMA UartNextInv == UartIInv /\ BitFits /\ [UartLineNext]_uartLineVars => UartIInv'
<1>1. ASSUME UartIInv, BitFits, UartLineNext PROVE UartIInv'
  BY <1>1, UartSoftware, UartEdgeInv
<1>2. ASSUME UartIInv, UNCHANGED uartLineVars PROVE UartIInv'
  BY <1>2 DEF uartLineVars, uartVars, softVars, rxVars, UartIInv, UartLineTypeOK,
    UartTypeOK,
    Counter, OnLine, InPhase, Sampled, Hunts, Owed, Fresh, Before, BitNo
<1>. QED BY <1>1, <1>2

-----------------------------------------------------------------------------
(* What software that polls knows: an idle transmitter that owes nothing.  *)
Polled ==
  /\ polls /\ knows_idle => tx_state = "IDLE" /\ ~do_start_tx /\ offer = None
  /\ do_start_tx => gap = 0
  /\ NothingDropped

LEMMA PolledStep ==
  ASSUME UartIInv, BitFits, MinGap # 0, Polled, UartLineNext
  PROVE  Polled'
<1>1. ASSUME NEW w, UartLineEdge(w), tx_state = "IDLE", ~do_start_tx
      PROVE  tx_state' = "IDLE" /\ (w = None => offer' = None)
             /\ (do_start_tx' <=> w # None)
  <2>1. UartEdge(w)
    BY <1>1 DEF UartLineEdge
  <2>2. tx_state' = "IDLE" /\ (do_start_tx' <=> w # None)
    BY <1>1, <2>1, IdlePosition DEF UartEdge, takes, tx_busy
  <2>3. BitNo = DataBits + 2 /\ clk_cnt = 0 /\ ~Fresh
    BY <1>1, Position, Sizes DEF Fresh, UartIInv, Counter
  <2>4. ASSUME rx_wait = 0 PROVE offer = None
    BY <1>1, <2>3, <2>4 DEF UartIInv, Owed
  <2>5. ASSUME rx_wait # 0 PROVE rx_wait = 1 /\ Len(rx_bits) = DataBits
    <3>1. Len(rx_bits) \in Nat /\ Len(rx_bits) <= DataBits /\ rx_wait \in Nat
      BY Position
    <3>2. \/ BitNo = Len(rx_bits)     /\ clk_cnt + rx_wait = 2 + CLKS_PER_BIT + HalfBit
          \/ BitNo = Len(rx_bits) + 1 /\ clk_cnt + rx_wait = 2 + HalfBit
          \/ BitNo = Len(rx_bits) + 2 /\ clk_cnt + rx_wait + CLKS_PER_BIT = 2 + HalfBit
      BY <2>5 DEF UartIInv, InPhase
    <3>. QED BY <2>3, <2>5, <3>1, <3>2, Sizes
  <2>6. w = None => offer' = None
    <3>1. CASE rx_wait = 0
      <4>1. ~StillOwed
        BY <2>4, <3>1 DEF StillOwed
      <4>. QED BY <1>1, <4>1 DEF UartLineEdge, takes
    <3>2. CASE rx_wait # 0
      <4>1. received' # NoFrame /\ received'[DataBits + 1] = TRUE
        BY <1>1, <2>5, <3>2, FrameStep
      <4>2. ~StillOwed
        BY <4>1 DEF StillOwed
      <4>. QED BY <1>1, <4>2 DEF UartLineEdge, takes
    <3>. QED BY <3>1, <3>2
  <2>. QED BY <2>2, <2>6
<1>2. ASSUME UartLineEdge(None) PROVE ~do_start_tx' /\ ~dropped'
  BY <1>2 DEF UartLineEdge, UartEdge, takes
<1>3. CASE Wait
  BY <1>1, <1>2, <1>3 DEF Wait, Polled, NothingDropped
<1>4. CASE ReadStatus
  <2>1. ~do_start_tx
    BY <1>4, LineAssumption DEF ReadStatus, Polled
  <2>. QED BY <1>1, <1>2, <1>4, <2>1 DEF ReadStatus, Polled, NothingDropped, tx_busy
<1>5. ASSUME NEW b \in Payloads, WriteTxData(b) PROVE Polled'
  <2>1. polls' = polls /\ knows_idle' = FALSE /\ gap' = 0 /\ UartLineEdge(b)
          /\ (polls => knows_idle)
    BY <1>5 DEF WriteTxData
  <2>2. polls => ~dropped'
    BY <2>1 DEF UartLineEdge, Polled, tx_busy, StillOwed
  <2>. QED BY <2>1, <2>2 DEF Polled, NothingDropped
<1>. QED BY <1>3, <1>4, <1>5 DEF UartLineNext

LEMMA PolledNext ==
  ASSUME BitFits, MinGap # 0
  PROVE  UartIInv /\ Polled /\ [UartLineNext]_uartLineVars => Polled'
<1>1. ASSUME Polled, UNCHANGED uartLineVars PROVE Polled'
  BY <1>1 DEF uartLineVars, uartVars, softVars, rxVars, Polled, NothingDropped
<1>. QED BY <1>1, PolledStep

LEMMA UartInductive == BitFits /\ UartLineSpec => []UartIInv
<1>. SUFFICES ASSUME BitFits PROVE UartLineSpec => []UartIInv
  OBVIOUS
<1>1. UartIInv /\ [UartLineNext]_uartLineVars => UartIInv'
  BY UartNextInv
<1>. QED BY UartInitInv, <1>1, PTL DEF UartLineSpec

LEMMA FrameArrives ==
  ASSUME BitFits
  PROVE  UartIInv /\ [UartLineNext]_uartLineVars =>
           [received' # NoFrame =>
              /\ offer # None
              /\ received' = [i \in 1 .. DataBits + 1 |-> i = DataBits + 1 \/ offer[i - 1]]]_uartLineVars
BY UartSoftware, ReceivedIsOwed

(* Whatever software writes and when, the receiver gets whole frames, each *)
(* of the byte that was owed: uart.v:46-127.                               *)
THEOREM OnlyWholeFrames == BitFits /\ UartLineSpec => ArrivesIntact
<1>. SUFFICES ASSUME BitFits PROVE UartLineSpec => ArrivesIntact
  OBVIOUS
<1>1. UartIInv /\ [UartLineNext]_uartLineVars =>
        [received' # NoFrame =>
           /\ offer # None
           /\ received' = [i \in 1 .. DataBits + 1 |-> i = DataBits + 1 \/ offer[i - 1]]]_uartLineVars
  BY FrameArrives
<1>. QED BY <1>1, UartInductive, PTL DEF UartLineSpec, ArrivesIntact

(* Software that polls, and waits an edge or more before it reads STATUS   *)
(* after a write, loses no byte: uart.v:7-9, 41, 119.                      *)
THEOREM PollingLosesNothing == BitFits /\ MinGap # 0 /\ UartLineSpec => []NothingDropped
<1>. SUFFICES ASSUME BitFits, MinGap # 0 PROVE UartLineSpec => []NothingDropped
  OBVIOUS
<1>1. UartLineInit => Polled
  BY DEF UartLineInit, UartInit, Polled, NothingDropped
<1>2. UartIInv /\ Polled /\ [UartLineNext]_uartLineVars => Polled'
  BY PolledNext
<1>3. Polled => NothingDropped
  BY DEF Polled
<1>. QED BY <1>1, <1>2, <1>3, UartInductive, PTL DEF UartLineSpec

-----------------------------------------------------------------------------
(* The SPI master and its slave.                                           *)

(* Every divider leaves the slave an edge of clk to follow.                *)
SpiFollows == \A d \in SpiDividers : d >= 2

(* After e edges of SCLK: the bits sampled, and the bits shifted out.      *)
SampledAfter(e) == IF cpha_r THEN e \div 2 ELSE (e + 1) \div 2
ShiftedAfter(e) == IF ~cpha_r THEN e \div 2 ELSE IF e = 0 THEN 0 ELSE (e - 1) \div 2

(* A shift register that began with b and has shifted n bits out: what is  *)
(* on the line, and what is left.                                          *)
Sends(line, left, b, n) ==
  /\ n < SpiBits => line = b[n + 1]
  /\ \A i \in 1 .. SpiBits - 1 : i + n + 1 <= SpiBits => left[i] = b[i + n + 1]

(* One that has shifted in n bits of b.                                    *)
Holds(r, b, n) == \A i \in 1 .. n : r[SpiBits - n + i] = b[i]

SpiRuns == spi_state = "RUN"

SpiLines ==
  /\ SpiRuns <=> spi_busy
  /\ SpiRuns <=> ~cs_n
  /\ spi_irq => spi_done /\ ~spi_busy
  /\ spi_divider >= 2
  /\ SpiRuns => /\ spi_div_cnt < spi_divider /\ spi_half = spi_div_cnt
                /\ sclk = (IF edge_cnt % 2 = 0 THEN cpol_r ELSE ~cpol_r)

(* The slave is an edge of clk behind.                                     *)
SpiBehind ==
  SpiRuns =>
    /\ cs_n_prev <=> spi_div_cnt = 0 /\ edge_cnt = 0
    /\ ~cs_n_prev => IF spi_div_cnt = 0 THEN s_edges = edge_cnt - 1 /\ sclk_prev = ~sclk
                                    ELSE s_edges = edge_cnt /\ sclk_prev = sclk

SpiExchange ==
  /\ SpiRuns => /\ Sends(mosi, spi_tx, spi_sent, ShiftedAfter(edge_cnt))
                /\ Holds(spi_rx, preload, SampledAfter(edge_cnt))
  /\ SpiRuns /\ ~cs_n_prev =>
                /\ Sends(miso, s_tx, preload, ShiftedAfter(s_edges))
                /\ Holds(spi_received, spi_sent, SampledAfter(s_edges))
  /\ spi_irq => spi_received = spi_sent /\ spi_rxdata = preload

SpiTypes ==
  /\ Spi!TypeOK /\ {miso, sclk_prev, cs_n_prev} \subseteq BOOLEAN
  /\ s_tx \in [1 .. SpiBits - 1 -> BOOLEAN] /\ spi_half \in Nat

SpiIInv == SpiTypes /\ SpiLines /\ SpiBehind /\ SpiExchange

LEMMA SpiSizes ==
  /\ SpiBits \in Nat /\ SpiBits >= 2 /\ 2^DivWidth \in Nat /\ 2^DivWidth >= 4
BY SpiFits DEF Spi!SpiAssumption

(* Edge e of SCLK is one on which a bit is sampled, or one is shifted out. *)
Samples(e) == (e % 2 = 0) <=> ~cpha_r
Shifts(e)  == ((e % 2 = 0) <=> cpha_r) /\ e # 0

LEMMA EdgeCounts ==
  ASSUME cpha_r \in BOOLEAN, NEW e \in 0 .. 2 * SpiBits
  PROVE  /\ SampledAfter(e) \in 0 .. SpiBits /\ ShiftedAfter(e) \in 0 .. SpiBits
         /\ SampledAfter(0) = 0 /\ ShiftedAfter(0) = 0
              /\ SampledAfter(2 * SpiBits) = SpiBits
         /\ e < 2 * SpiBits =>
              /\ Samples(e)  => /\ SampledAfter(e + 1) = SampledAfter(e) + 1
                                /\ ShiftedAfter(e) = SampledAfter(e)
                                     /\ SampledAfter(e) < SpiBits
              /\ ~Samples(e) => SampledAfter(e + 1) = SampledAfter(e)
              /\ Shifts(e)   => ShiftedAfter(e + 1) = ShiftedAfter(e) + 1
              /\ ~Shifts(e)  => ShiftedAfter(e + 1) = ShiftedAfter(e)
              /\ ~(Samples(e) /\ Shifts(e))
<1>. USE SpiSizes
<1>. DEFINE k == e \div 2
<1>1. k \in Nat /\ k <= SpiBits /\ (e % 2 = 0 \/ e % 2 = 1) /\ e = 2 * k + (e % 2)
  OBVIOUS
<1>2. 0 \div 2 = 0 /\ 1 \div 2 = 0 /\ (2 * SpiBits) \div 2 = SpiBits
        /\ (2 * SpiBits + 1) \div 2 = SpiBits
  OBVIOUS
<1>3. SampledAfter(0) = 0 /\ ShiftedAfter(0) = 0 /\ SampledAfter(2 * SpiBits) = SpiBits
  BY <1>2 DEF SampledAfter, ShiftedAfter
<1>4. CASE e = 2 * k
  <2>1. e % 2 = 0 /\ (e + 1) \div 2 = k /\ (e + 1 + 1) \div 2 = k + 1
    BY <1>1, <1>4
  <2>2. e # 0 => (e - 1) \div 2 = k - 1
    BY <1>1, <1>4
  <2>3. (e + 1 - 1) \div 2 = k
    BY <1>1, <1>4
  <2>. HIDE DEF k
  <2>. QED BY <1>1, <1>3, <1>4, <2>1, <2>2, <2>3 DEF SampledAfter, ShiftedAfter, Samples,
           Shifts
<1>5. CASE e = 2 * k + 1
  <2>1. e % 2 # 0 /\ (e + 1) \div 2 = k + 1 /\ (e + 1 + 1) \div 2 = k + 1
    BY <1>1, <1>5
  <2>2. (e - 1) \div 2 = k /\ (e + 1 - 1) \div 2 = k
    BY <1>1, <1>5
  <2>. HIDE DEF k
  <2>. QED BY <1>1, <1>3, <1>5, <2>1, <2>2 DEF SampledAfter, ShiftedAfter, Samples, Shifts
<1>. QED BY <1>1, <1>4, <1>5

-----------------------------------------------------------------------------
(* Shift registers.                                                        *)

ShiftRegister(s, n, b, B) ==
  /\ Spi!ShiftIn(s, b) \in [1 .. n -> B]
  /\ \A i \in 1 .. n : Spi!ShiftIn(s, b)[i] = IF i = n THEN b ELSE s[i + 1]
  /\ Head(s) = s[1] /\ Head(s) \in B
  /\ Tail(s) \in [1 .. n - 1 -> B]
  /\ \A i \in 1 .. n - 1 : Tail(s)[i] = s[i + 1]

LEMMA ShiftInIs ==
  ASSUME NEW n, NEW B, NEW s, NEW b, n \in Nat, n >= 1, s \in [1 .. n -> B], b \in B
  PROVE  ShiftRegister(s, n, b, B)
<1>1. s \in Seq(B) /\ Len(s) = n /\ s # <<>>
  OBVIOUS
<1>2. /\ Tail(s) \in Seq(B) /\ Len(Tail(s)) = n - 1
      /\ \A i \in 1 .. n - 1 : Tail(s)[i] = s[i + 1]
      /\ Head(s) = s[1] /\ Head(s) \in B
  BY <1>1, HeadTailProperties
<1>3. Tail(s) \in [1 .. n - 1 -> B]
  <2>1. Tail(s) \in [1 .. Len(Tail(s)) -> B]
    BY <1>2, LenProperties
  <2>. QED BY <1>2, <2>1, Zenon
<1>4. /\ Spi!ShiftIn(s, b) \in Seq(B) /\ Len(Spi!ShiftIn(s, b)) = n
      /\ \A i \in 1 .. n - 1 : Spi!ShiftIn(s, b)[i] = Tail(s)[i]
      /\ Spi!ShiftIn(s, b)[n] = b
  BY <1>2, AppendProperties DEF Spi!ShiftIn
<1>5. Spi!ShiftIn(s, b) \in [1 .. n -> B]
  <2>1. Spi!ShiftIn(s, b) \in [1 .. Len(Spi!ShiftIn(s, b)) -> B]
    BY <1>4, LenProperties
  <2>. QED BY <1>4, <2>1, Zenon
<1>6. ASSUME NEW i \in 1 .. n PROVE Spi!ShiftIn(s, b)[i] = IF i = n THEN b ELSE s[i + 1]
  <2>1. i # n => i \in 1 .. n - 1
    OBVIOUS
  <2>. QED BY <1>2, <1>4, <2>1
<1>. QED BY <1>2, <1>3, <1>5, <1>6 DEF ShiftRegister

LEMMA SendsNext ==
  ASSUME NEW line, NEW left \in [1 .. SpiBits - 1 -> BOOLEAN], NEW b \in Spi!Byte,
         NEW n \in Nat,
         Sends(line, left, b, n)
  PROVE  /\ Sends(Head(left), Spi!ShiftIn(left, FALSE), b, n + 1)
         /\ Head(left) \in BOOLEAN
              /\ Spi!ShiftIn(left, FALSE) \in [1 .. SpiBits - 1 -> BOOLEAN]
<1>. USE SpiSizes
<1>. DEFINE m == SpiBits - 1
<1>1. m \in Nat /\ m >= 1 /\ left \in [1 .. m -> BOOLEAN]
  OBVIOUS
<1>2. /\ Spi!ShiftIn(left, FALSE) \in [1 .. m -> BOOLEAN]
      /\ \A i \in 1 .. m : Spi!ShiftIn(left, FALSE)[i] = IF i = m THEN FALSE ELSE left[i + 1]
      /\ Head(left) = left[1] /\ Head(left) \in BOOLEAN
  <2>1. FALSE \in BOOLEAN
    OBVIOUS
  <2>. HIDE DEF m
  <2>2. ShiftRegister(left, m, FALSE, BOOLEAN)
    BY <1>1, <2>1, ShiftInIs
  <2>. QED BY <2>2 DEF ShiftRegister
<1>3. n + 1 < SpiBits => Head(left) = b[n + 1 + 1]
  <2>1. n + 1 < SpiBits => 1 \in 1 .. SpiBits - 1 /\ 1 + n + 1 <= SpiBits
          /\ 1 + n + 1 = n + 1 + 1
    OBVIOUS
  <2>. QED BY <1>2, <2>1 DEF Sends
<1>4. ASSUME NEW i \in 1 .. SpiBits - 1, i + (n + 1) + 1 <= SpiBits
      PROVE  Spi!ShiftIn(left, FALSE)[i] = b[i + (n + 1) + 1]
  <2>1. i # m /\ i + 1 \in 1 .. SpiBits - 1 /\ (i + 1) + n + 1 <= SpiBits
    BY <1>4
  <2>2. (i + 1) + n + 1 = i + (n + 1) + 1
    OBVIOUS
  <2>3. left[i + 1] = b[(i + 1) + n + 1]
    BY <2>1 DEF Sends
  <2>. QED BY <1>2, <2>1, <2>2, <2>3
<1>. QED BY <1>2, <1>3, <1>4 DEF Sends

LEMMA HoldsNext ==
  ASSUME NEW r \in Spi!Byte, NEW b \in Spi!Byte, NEW n \in Nat, n < SpiBits, Holds(r, b, n),
         NEW bit \in BOOLEAN, bit = b[n + 1]
  PROVE  Holds(Spi!ShiftIn(r, bit), b, n + 1)
<1>. USE SpiSizes
<1>1. \A i \in 1 .. SpiBits : Spi!ShiftIn(r, bit)[i] = IF i = SpiBits THEN bit ELSE r[i + 1]
  <2>1. SpiBits \in Nat /\ SpiBits >= 1 /\ r \in [1 .. SpiBits -> BOOLEAN]
    BY DEF Spi!Byte
  <2>2. ShiftRegister(r, SpiBits, bit, BOOLEAN)
    BY <2>1, ShiftInIs
  <2>. QED BY <2>2 DEF ShiftRegister
<1>2. ASSUME NEW i \in 1 .. n + 1 PROVE Spi!ShiftIn(r, bit)[SpiBits - (n + 1) + i] = b[i]
  <2>1. PICK j \in 1 .. SpiBits : j = SpiBits - (n + 1) + i /\ (j = SpiBits <=> i = n + 1)
    OBVIOUS
  <2>2. Spi!ShiftIn(r, bit)[j] = IF j = SpiBits THEN bit ELSE r[j + 1]
    BY <1>1
  <2>3. CASE i = n + 1
    BY <2>1, <2>2, <2>3
  <2>4. CASE i # n + 1
    <3>1. i \in 1 .. n /\ j + 1 = SpiBits - n + i
      BY <2>1, <2>4
    <3>2. r[SpiBits - n + i] = b[i]
      BY <3>1 DEF Holds
    <3>. QED BY <2>1, <2>2, <2>4, <3>1, <3>2
  <2>. QED BY <2>3, <2>4
<1>. QED BY <1>2 DEF Holds

LEMMA HoldsAll == ASSUME NEW r \in Spi!Byte, NEW b \in Spi!Byte, Holds(r, b, SpiBits)
                  PROVE r = b
<1>1. \A i \in 1 .. SpiBits : r[i] = b[i]
  <2>1. \A i \in 1 .. SpiBits : SpiBits - SpiBits + i = i
    BY SpiSizes
  <2>. QED BY <2>1 DEF Holds
<1>2. r \in [1 .. SpiBits -> BOOLEAN] /\ b \in [1 .. SpiBits -> BOOLEAN]
  BY DEF Spi!Byte
<1>3. r = [i \in 1 .. SpiBits |-> r[i]] /\ b = [i \in 1 .. SpiBits |-> b[i]]
  BY <1>2, Zenon
<1>. QED BY <1>1, <1>3, Zenon

LEMMA SendsFirst ==
  ASSUME NEW b \in Spi!Byte
  PROVE  /\ Sends(Head(b), Tail(b), b, 0)
         /\ Head(b) \in BOOLEAN /\ Tail(b) \in [1 .. SpiBits - 1 -> BOOLEAN]
<1>. USE SpiSizes
<1>1. /\ Head(b) = b[1] /\ Head(b) \in BOOLEAN /\ Tail(b) \in [1 .. SpiBits - 1 -> BOOLEAN]
      /\ \A i \in 1 .. SpiBits - 1 : Tail(b)[i] = b[i + 1]
  <2>1. SpiBits \in Nat /\ SpiBits >= 1 /\ b \in [1 .. SpiBits -> BOOLEAN]
          /\ FALSE \in BOOLEAN
    BY DEF Spi!Byte
  <2>2. ShiftRegister(b, SpiBits, FALSE, BOOLEAN)
    BY <2>1, ShiftInIs
  <2>. QED BY <2>2 DEF ShiftRegister
<1>2. 0 + 1 = 1 /\ \A i \in 1 .. SpiBits - 1 : i + 0 + 1 = i + 1
  OBVIOUS
<1>. QED BY <1>1, <1>2 DEF Sends

LEMMA SpiWrites ==
  ASSUME NEW w \in Spi!Writes
  PROVE  /\ w.reg = "DIVIDER" => ~spi_busy /\ w.value \in SpiDividers
         /\ w.reg = "TXDATA" => w.value \in SpiPayloads
         /\ w.reg = "CTRL" => w.cpol \in BOOLEAN /\ w.cpha \in BOOLEAN
BY DEF Spi!Writes

LEMMA SpiRegs ==
  ASSUME SpiIInv, SpiFollows, NEW w \in Spi!Writes, NEW given, Spi!Edge(w, given)
  PROVE  /\ spi_divider' \in Spi!Div \ {0} /\ spi_divider' >= 2 /\ spi_txdata' \in Spi!Byte
         /\ spi_busy => spi_divider' = spi_divider
<1>. USE SpiSizes
<1>1. spi_divider' = Spi!next_divider(w)
        /\ spi_txdata' = (IF w.reg = "TXDATA" THEN w.value ELSE spi_txdata)
  BY DEF Spi!Edge, Spi!SpiEdge
<1>2. spi_divider \in Spi!Div \ {0} /\ spi_divider >= 2 /\ spi_txdata \in Spi!Byte
  BY DEF SpiIInv, SpiTypes, Spi!TypeOK, Spi!SpiTypeOK, SpiLines
<1>3. spi_txdata' \in Spi!Byte
  BY <1>1, <1>2, SpiWrites, SpiFits DEF Spi!LineAssumption
<1>4. CASE w.reg = "DIVIDER"
  <2>1. ~spi_busy /\ w.value \in SpiDividers
    BY <1>4, SpiWrites
  <2>2. w.value \in Spi!Div /\ w.value >= 2 /\ w.value # 0
    <3>1. w.value \in Spi!Div /\ w.value >= 2
      BY <2>1, SpiFits DEF SpiFollows, Spi!LineAssumption
    <3>2. Spi!Div \subseteq Nat
      BY DEF Spi!Div
    <3>. QED BY <3>1, <3>2
  <2>3. spi_divider' = w.value
    BY <1>1, <1>4, <2>2 DEF Spi!next_divider
  <2>. QED BY <1>3, <2>1, <2>2, <2>3
<1>5. CASE w.reg # "DIVIDER"
  BY <1>1, <1>2, <1>3, <1>5 DEF Spi!next_divider
<1>. QED BY <1>4, <1>5

(* The slave has seen all there is to see.                                 *)
LEMMA SlaveStill ==
  ASSUME SpiIInv, NEW w, NEW given, Spi!Edge(w, given), ~SpiRuns \/ spi_div_cnt # 0
  PROVE  UNCHANGED <<s_tx, s_edges, miso, sclk_prev, spi_received>> /\ cs_n_prev' = cs_n
<1>1. cs_n \/ (~cs_n_prev /\ sclk = sclk_prev)
  BY DEF SpiIInv, SpiLines, SpiBehind
<1>2. Spi!SlaveWaits
  BY <1>1 DEF Spi!Edge, Spi!SlaveSelected, Spi!SlaveClocked
<1>. QED BY <1>2 DEF Spi!SlaveWaits, Spi!Edge

LEMMA SpiMasterStep ==
  ASSUME SpiIInv, NEW w, NEW given, Spi!Edge(w, given)
  PROVE  /\ ~SpiRuns /\ Spi!do_start(w) => Spi!Start(w)
         /\ ~SpiRuns /\ ~Spi!do_start(w) => Spi!Idle(w)
         /\ SpiRuns => ~Spi!do_start(w) /\ UNCHANGED <<preload, spi_sent>>
         /\ SpiRuns /\ ~Spi!tick => Spi!Count(w)
         /\ SpiRuns /\ Spi!tick /\ edge_cnt # 2 * SpiBits => Spi!Toggle(w, miso)
         /\ SpiRuns /\ Spi!tick /\ edge_cnt = 2 * SpiBits => Spi!Finish(w)
<1>1. SpiRuns <=> spi_busy
  BY DEF SpiIInv, SpiLines
<1>2. SpiRuns \/ spi_state = "IDLE"
  BY DEF SpiIInv, SpiTypes, Spi!TypeOK, Spi!SpiTypeOK, SpiRuns
<1>3. SpiRuns => ~Spi!do_start(w)
  BY <1>1 DEF Spi!do_start
<1>4. SpiRuns => UNCHANGED <<preload, spi_sent>>
  BY <1>3 DEF Spi!Edge
<1>5. (spi_state = "IDLE" /\ Spi!Start(w)) \/ Spi!Idle(w) \/ Spi!Count(w)
       \/ Spi!Toggle(w, miso) \/ Spi!Finish(w)
  BY DEF Spi!Edge, Spi!SpiEdge
<1>6. ~SpiRuns => (Spi!do_start(w) => Spi!Start(w)) /\ (~Spi!do_start(w) => Spi!Idle(w))
  BY <1>2, <1>5 DEF SpiRuns, Spi!Idle, Spi!Count, Spi!Toggle, Spi!Finish, Spi!Start
<1>7. SpiRuns => Spi!Count(w) \/ Spi!Toggle(w, miso) \/ Spi!Finish(w)
  BY <1>5 DEF SpiRuns, Spi!Idle
<1>8. SpiRuns => /\ ~Spi!tick => Spi!Count(w)
                 /\ Spi!tick /\ edge_cnt # 2 * SpiBits => Spi!Toggle(w, miso)
                 /\ Spi!tick /\ edge_cnt = 2 * SpiBits => Spi!Finish(w)
  BY <1>7 DEF Spi!Count, Spi!Toggle, Spi!Finish
<1>. QED BY <1>3, <1>4, <1>6, <1>8

SpiParts == SpiLines /\ SpiBehind /\ SpiExchange

LEMMA SpiRestStep ==
  ASSUME SpiIInv, SpiFollows, NEW w \in Spi!Writes, NEW given, Spi!Edge(w, given), ~SpiRuns,
         ~Spi!do_start(w)
  PROVE  SpiParts'
<1>1. Spi!Idle(w)
  BY SpiMasterStep
<1>2. ~SpiRuns' /\ ~spi_busy' /\ cs_n' /\ ~spi_irq'
  BY <1>1 DEF Spi!Idle, SpiRuns, SpiIInv, SpiLines
<1>3. SpiLines'
  BY <1>2, SpiRegs DEF SpiLines
<1>. QED BY <1>2, <1>3 DEF SpiParts, SpiBehind, SpiExchange

LEMMA SpiStartStep ==
  ASSUME SpiIInv, SpiFollows, NEW w \in Spi!Writes, NEW given \in SpiPayloads,
         Spi!Edge(w, given),
         ~SpiRuns, Spi!do_start(w)
  PROVE  SpiParts'
<1>. USE SpiSizes
<1>1. Spi!Start(w)
  BY SpiMasterStep
<1>2. /\ SpiRuns' /\ spi_busy' /\ ~cs_n' /\ ~spi_irq' /\ edge_cnt' = 0 /\ spi_div_cnt' = 0
      /\ sclk' = cpol_r'
  BY <1>1 DEF Spi!Start, SpiRuns
<1>3. spi_half' = 0 /\ spi_sent' = spi_txdata
  BY <1>2 DEF Spi!Edge
<1>4. spi_divider' \in Nat /\ spi_divider' >= 2
  BY SpiRegs DEF Spi!Div
<1>5. 0 % 2 = 0
  OBVIOUS
<1>6. SpiLines'
  BY <1>2, <1>3, <1>4, <1>5 DEF SpiLines
<1>7. cs_n_prev'
  <2>1. cs_n = TRUE
    BY DEF SpiIInv, SpiLines, SpiTypes, Spi!TypeOK, Spi!SpiTypeOK
  <2>. QED BY <2>1, SlaveStill
<1>8. SpiBehind'
  BY <1>2, <1>7 DEF SpiBehind
<1>9. SampledAfter(edge_cnt)' = 0 /\ ShiftedAfter(edge_cnt)' = 0
  <2>1. 0 \div 2 = 0 /\ (0 + 1) \div 2 = 0
    OBVIOUS
  <2>. QED BY <1>2, <2>1 DEF SampledAfter, ShiftedAfter
<1>10. Sends(mosi', spi_tx', spi_sent', 0)
  BY <1>1, <1>3, SendsFirst DEF Spi!Start, SpiIInv, SpiTypes, Spi!TypeOK, Spi!SpiTypeOK
<1>11. Holds(spi_rx', preload', 0)
  BY DEF Holds
<1>12. SpiExchange'
  BY <1>2, <1>7, <1>9, <1>10, <1>11 DEF SpiExchange, Sends, Holds
<1>. QED BY <1>6, <1>8, <1>12 DEF SpiParts

(* Between two edges of SCLK.                                              *)
LEMMA SpiCount ==
  ASSUME SpiIInv, SpiFollows, NEW w \in Spi!Writes, NEW given, Spi!Edge(w, given), SpiRuns,
         ~Spi!tick
  PROVE  /\ SpiLines' /\ SpiRuns' /\ spi_div_cnt' = spi_div_cnt + 1 /\ ~spi_irq'
              /\ cs_n_prev' = FALSE
         /\ UNCHANGED <<edge_cnt, sclk, cpol_r, cpha_r, mosi, spi_tx, spi_rx, preload,
              spi_sent>>
<1>. USE SpiSizes
<1>1. Spi!Count(w) /\ ~Spi!do_start(w) /\ UNCHANGED <<preload, spi_sent>>
  BY SpiMasterStep
<1>2. /\ spi_div_cnt \in Nat /\ spi_div_cnt < spi_divider /\ spi_divider \in Nat
           /\ spi_divider < 2^DivWidth
      /\ spi_half = spi_div_cnt /\ cs_n = FALSE /\ spi_busy
  BY DEF SpiIInv, SpiTypes, Spi!TypeOK, Spi!SpiTypeOK, SpiLines, Spi!Div
<1>3. spi_div_cnt' = spi_div_cnt + 1 /\ spi_div_cnt + 1 < spi_divider
  <2>1. spi_div_cnt + 1 < spi_divider
    BY <1>2 DEF Spi!tick
  <2>2. (spi_div_cnt + 1) % 2^DivWidth = spi_div_cnt + 1
    BY <1>2, <2>1
  <2>. QED BY <1>1, <2>1, <2>2 DEF Spi!Count
<1>4. spi_half' = spi_div_cnt'
  BY <1>1, <1>2, <1>3 DEF Spi!Edge
<1>5. /\ SpiRuns' /\ spi_busy' /\ ~cs_n' /\ ~spi_irq'
      /\ UNCHANGED <<edge_cnt, sclk, cpol_r, cpha_r, mosi, spi_tx, spi_rx>>
  BY <1>1, <1>2 DEF Spi!Count, SpiRuns
<1>6. spi_divider' = spi_divider
  BY <1>2, SpiRegs
<1>7. SpiLines'
  BY <1>2, <1>3, <1>4, <1>5, <1>6 DEF SpiLines, SpiIInv
<1>8. cs_n_prev' = FALSE
  BY <1>2 DEF Spi!Edge
<1>. QED BY <1>1, <1>3, <1>5, <1>7, <1>8

LEMMA SpiSelectedStep ==
  ASSUME SpiIInv, SpiFollows, NEW w \in Spi!Writes, NEW given, Spi!Edge(w, given), SpiRuns,
         cs_n_prev
  PROVE  SpiParts'
<1>. USE SpiSizes
<1>1. spi_div_cnt = 0 /\ edge_cnt = 0 /\ ~cs_n /\ spi_divider \in Nat /\ spi_divider >= 2
  BY DEF SpiIInv, SpiBehind, SpiLines, SpiTypes, Spi!TypeOK, Spi!SpiTypeOK, Spi!Div
<1>2. ~Spi!tick
  BY <1>1 DEF Spi!tick
<1>3. Spi!SlaveSelected
  BY <1>1 DEF Spi!Edge, Spi!SlaveClocked, Spi!SlaveWaits
<1>4. /\ SpiLines' /\ SpiRuns' /\ spi_div_cnt' = 1 /\ ~spi_irq' /\ ~cs_n_prev'
           /\ edge_cnt' = 0
      /\ UNCHANGED <<sclk, cpol_r, cpha_r, mosi, spi_tx, spi_rx, preload, spi_sent>>
  <2>1. /\ SpiLines' /\ SpiRuns' /\ spi_div_cnt' = spi_div_cnt + 1 /\ ~spi_irq'
             /\ cs_n_prev' = FALSE
        /\ UNCHANGED <<edge_cnt, sclk, cpol_r, cpha_r, mosi, spi_tx, spi_rx, preload,
             spi_sent>>
    BY <1>2, SpiCount
  <2>. QED BY <1>1, <2>1
<1>5. sclk = cpol_r
  BY <1>1 DEF SpiIInv, SpiLines
<1>6. s_edges' = 0 /\ sclk_prev' = sclk'
  BY <1>3, <1>4, <1>5 DEF Spi!SlaveSelected
<1>7. SpiBehind'
  BY <1>4, <1>6 DEF SpiBehind
<1>8. Sends(mosi, spi_tx, spi_sent, ShiftedAfter(0))
        /\ Holds(spi_rx, preload, SampledAfter(0))
  BY <1>1 DEF SpiIInv, SpiExchange
<1>9. ShiftedAfter(0) = 0 /\ SampledAfter(0) = 0
  <2>1. cpha_r \in BOOLEAN /\ 0 \in 0 .. 2 * SpiBits
    BY DEF SpiIInv, SpiTypes, Spi!TypeOK, Spi!SpiTypeOK
  <2>. QED BY <2>1, EdgeCounts
<1>10. ShiftedAfter(edge_cnt)' = 0 /\ SampledAfter(edge_cnt)' = 0
       /\ ShiftedAfter(s_edges)' = 0 /\ SampledAfter(s_edges)' = 0
  BY <1>4, <1>6, <1>9 DEF ShiftedAfter, SampledAfter
<1>11. Sends(miso', s_tx', preload', 0) /\ Holds(spi_received', spi_sent', 0)
  BY <1>3, <1>4, SendsFirst DEF Spi!SlaveSelected, SpiIInv, SpiTypes, Spi!TypeOK, Holds
<1>12. SpiExchange'
  BY <1>4, <1>8, <1>9, <1>10, <1>11 DEF SpiExchange, Sends, Holds
<1>. QED BY <1>4, <1>7, <1>12 DEF SpiParts

LEMMA SpiClockedStep ==
  ASSUME SpiIInv, SpiFollows, NEW w \in Spi!Writes, NEW given, Spi!Edge(w, given), SpiRuns,
         ~cs_n_prev, spi_div_cnt = 0
  PROVE  SpiParts'
<1>. USE SpiSizes
<1>1. /\ edge_cnt # 0 /\ ~cs_n /\ spi_divider \in Nat /\ spi_divider >= 2
      /\ s_edges = edge_cnt - 1 /\ sclk_prev = ~sclk
      /\ edge_cnt \in 0 .. 2 * SpiBits /\ sclk \in BOOLEAN /\ cpol_r \in BOOLEAN
           /\ cpha_r \in BOOLEAN
  BY DEF SpiIInv, SpiBehind, SpiLines, SpiTypes, Spi!TypeOK, Spi!SpiTypeOK, Spi!Div
<1>2. ~Spi!tick
  BY <1>1 DEF Spi!tick
<1>3. Spi!SlaveClocked
  BY <1>1 DEF Spi!Edge, Spi!SlaveSelected, Spi!SlaveWaits
<1>4. /\ SpiLines' /\ SpiRuns' /\ spi_div_cnt' = 1 /\ ~spi_irq' /\ ~cs_n_prev'
      /\ UNCHANGED <<edge_cnt, sclk, cpol_r, cpha_r, mosi, spi_tx, spi_rx, preload,
           spi_sent>>
  <2>1. /\ SpiLines' /\ SpiRuns' /\ spi_div_cnt' = spi_div_cnt + 1 /\ ~spi_irq'
             /\ cs_n_prev' = FALSE
        /\ UNCHANGED <<edge_cnt, sclk, cpol_r, cpha_r, mosi, spi_tx, spi_rx, preload,
             spi_sent>>
    BY <1>2, SpiCount
  <2>. QED BY <2>1
<1>5. s_edges' = s_edges + 1 /\ sclk_prev' = sclk' /\ s_edges + 1 = edge_cnt
      /\ s_edges \in 0 .. 2 * SpiBits /\ s_edges < 2 * SpiBits
  BY <1>1, <1>3, <1>4 DEF Spi!SlaveClocked
<1>6. SpiBehind'
  BY <1>4, <1>5 DEF SpiBehind
<1>7. (sclk # cpol_r) <=> (s_edges % 2 = 0)
  <2>1. sclk = (IF edge_cnt % 2 = 0 THEN cpol_r ELSE ~cpol_r)
    BY DEF SpiIInv, SpiLines
  <2>2. edge_cnt % 2 = 0 <=> s_edges % 2 # 0
    BY <1>1, <1>5
  <2>. QED BY <1>1, <2>1, <2>2
<1>8. /\ ((sclk # cpol_r) = ~cpha_r) <=> Samples(s_edges)
      /\ ((sclk # cpol_r) = cpha_r /\ (~cpha_r \/ s_edges # 0)) <=> Shifts(s_edges)
  <2>1. ~cpha_r /\ s_edges % 2 # 0 => s_edges # 0
    BY <1>5
  <2>. QED BY <1>1, <1>7, <2>1 DEF Samples, Shifts
<1>9. /\ spi_received' = (IF Samples(s_edges) THEN Spi!ShiftIn(spi_received, mosi) ELSE spi_received)
      /\ Shifts(s_edges) => miso' = Head(s_tx) /\ s_tx' = Spi!ShiftIn(s_tx, FALSE)
      /\ ~Shifts(s_edges) => miso' = miso /\ s_tx' = s_tx
  BY <1>3, <1>8 DEF Spi!SlaveClocked
<1>10. /\ Sends(mosi, spi_tx, spi_sent, ShiftedAfter(edge_cnt))
       /\ Holds(spi_rx, preload, SampledAfter(edge_cnt))
       /\ Sends(miso, s_tx, preload, ShiftedAfter(s_edges))
       /\ Holds(spi_received, spi_sent, SampledAfter(s_edges))
  BY DEF SpiIInv, SpiExchange
<1>11. /\ SampledAfter(s_edges) \in Nat /\ ShiftedAfter(s_edges) \in Nat
       /\ Samples(s_edges)  => /\ SampledAfter(s_edges + 1) = SampledAfter(s_edges) + 1
                               /\ ShiftedAfter(s_edges + 1) = SampledAfter(s_edges)
                               /\ SampledAfter(s_edges) < SpiBits
       /\ ~Samples(s_edges) => SampledAfter(s_edges + 1) = SampledAfter(s_edges)
       /\ Shifts(s_edges)   => ShiftedAfter(s_edges + 1) = ShiftedAfter(s_edges) + 1
       /\ ~Shifts(s_edges)  => ShiftedAfter(s_edges + 1) = ShiftedAfter(s_edges)
  BY <1>1, <1>5, EdgeCounts
<1>12. /\ spi_received \in Spi!Byte /\ spi_sent \in Spi!Byte /\ preload \in Spi!Byte
            /\ mosi \in BOOLEAN
       /\ s_tx \in [1 .. SpiBits - 1 -> BOOLEAN]
  BY DEF SpiIInv, SpiTypes, Spi!TypeOK, Spi!SpiTypeOK
<1>13. Holds(spi_received', spi_sent, SampledAfter(edge_cnt))
  <2>1. CASE Samples(s_edges)
    <3>1. mosi = spi_sent[SampledAfter(s_edges) + 1]
      BY <1>5, <1>10, <1>11, <2>1 DEF Sends
    <3>2. Holds(Spi!ShiftIn(spi_received, mosi), spi_sent, SampledAfter(s_edges) + 1)
      BY <1>10, <1>11, <1>12, <2>1, <3>1, HoldsNext
    <3>. QED BY <1>5, <1>9, <1>11, <2>1, <3>2
  <2>2. CASE ~Samples(s_edges)
    BY <1>5, <1>9, <1>10, <1>11, <2>2
  <2>. QED BY <2>1, <2>2
<1>14. Sends(miso', s_tx', preload, ShiftedAfter(edge_cnt))
  <2>1. CASE Shifts(s_edges)
    BY <1>5, <1>9, <1>10, <1>11, <1>12, <2>1, SendsNext
  <2>2. CASE ~Shifts(s_edges)
    BY <1>5, <1>9, <1>10, <1>11, <2>2
  <2>. QED BY <2>1, <2>2
<1>15. /\ ShiftedAfter(edge_cnt)' = ShiftedAfter(edge_cnt)
            /\ SampledAfter(edge_cnt)' = SampledAfter(edge_cnt)
       /\ ShiftedAfter(s_edges)' = ShiftedAfter(edge_cnt)
            /\ SampledAfter(s_edges)' = SampledAfter(edge_cnt)
  BY <1>4, <1>5 DEF ShiftedAfter, SampledAfter
<1>16. SpiExchange'
  BY <1>4, <1>10, <1>13, <1>14, <1>15 DEF SpiExchange, Sends, Holds
<1>. QED BY <1>4, <1>6, <1>16 DEF SpiParts

(* Nothing happens.                                                        *)
LEMMA SpiCountStep ==
  ASSUME SpiIInv, SpiFollows, NEW w \in Spi!Writes, NEW given, Spi!Edge(w, given), SpiRuns,
         spi_div_cnt # 0, ~Spi!tick
  PROVE  SpiParts'
<1>1. /\ SpiLines' /\ SpiRuns' /\ spi_div_cnt' = spi_div_cnt + 1 /\ ~spi_irq'
           /\ cs_n_prev' = FALSE
      /\ UNCHANGED <<edge_cnt, sclk, cpol_r, cpha_r, mosi, spi_tx, spi_rx, preload,
           spi_sent>>
  BY SpiCount
<1>2. UNCHANGED <<s_tx, s_edges, miso, sclk_prev, spi_received>>
  BY SlaveStill
<1>3. ~cs_n_prev /\ spi_div_cnt \in Nat
  BY DEF SpiIInv, SpiBehind, SpiTypes, Spi!TypeOK, Spi!SpiTypeOK, Spi!Div
<1>4. SpiBehind'
  BY <1>1, <1>2, <1>3 DEF SpiIInv, SpiBehind
<1>5. SpiExchange'
  BY <1>1, <1>2, <1>3 DEF SpiIInv, SpiExchange, Sends, Holds, ShiftedAfter, SampledAfter
<1>. QED BY <1>1, <1>4, <1>5 DEF SpiParts

LEMMA SpiToggleStep ==
  ASSUME SpiIInv, SpiFollows, NEW w \in Spi!Writes, NEW given, Spi!Edge(w, given), SpiRuns,
         Spi!tick,
         edge_cnt # 2 * SpiBits
  PROVE  SpiParts'
<1>. USE SpiSizes
<1>1. Spi!Toggle(w, miso) /\ ~Spi!do_start(w) /\ UNCHANGED <<preload, spi_sent>>
  BY SpiMasterStep
<1>2. /\ spi_div_cnt \in Nat /\ spi_div_cnt # 0 /\ spi_divider >= 2 /\ cs_n = FALSE
           /\ spi_busy
      /\ edge_cnt \in 0 .. 2 * SpiBits /\ edge_cnt < 2 * SpiBits
      /\ sclk \in BOOLEAN /\ cpol_r \in BOOLEAN /\ cpha_r \in BOOLEAN /\ spi_divider \in Nat
  BY DEF SpiIInv, SpiLines, SpiTypes, Spi!TypeOK, Spi!SpiTypeOK, Spi!Div, Spi!tick
<1>3. /\ UNCHANGED <<s_tx, s_edges, miso, sclk_prev, spi_received>> /\ cs_n_prev' = FALSE
      /\ ~cs_n_prev /\ s_edges = edge_cnt /\ sclk_prev = sclk
  BY <1>2, SlaveStill DEF SpiIInv, SpiBehind
<1>4. /\ SpiRuns' /\ spi_busy' /\ ~cs_n' /\ ~spi_irq' /\ spi_div_cnt' = 0 /\ sclk' = ~sclk
      /\ edge_cnt' = edge_cnt + 1 /\ cpol_r' = cpol_r /\ cpha_r' = cpha_r
  BY <1>1, <1>2 DEF Spi!Toggle, SpiRuns
<1>5. SpiLines'
  <2>1. spi_divider' = spi_divider
    BY <1>2, SpiRegs
  <2>2. spi_half' = 0
    BY <1>4 DEF Spi!Edge
  <2>3. sclk' = (IF edge_cnt' % 2 = 0 THEN cpol_r' ELSE ~cpol_r')
    <3>1. sclk = (IF edge_cnt % 2 = 0 THEN cpol_r ELSE ~cpol_r)
      BY DEF SpiIInv, SpiLines
    <3>2. (edge_cnt + 1) % 2 = 0 <=> edge_cnt % 2 # 0
      BY <1>2
    <3>. QED BY <1>2, <1>4, <3>1, <3>2
  <2>. QED BY <1>2, <1>4, <2>1, <2>2, <2>3 DEF SpiLines
<1>6. SpiBehind'
  <2>1. sclk_prev' = ~sclk'
    BY <1>2, <1>3, <1>4
  <2>2. s_edges' = edge_cnt' - 1 /\ edge_cnt' # 0
    BY <1>2, <1>3, <1>4
  <2>. QED BY <1>3, <1>4, <2>1, <2>2 DEF SpiBehind
<1>7. (Spi!is_sample_edge <=> Samples(edge_cnt)) /\ (Spi!is_shift_edge <=> Shifts(edge_cnt))
  BY <1>2 DEF Spi!is_sample_edge, Spi!is_shift_edge, Spi!is_leading_edge, Samples, Shifts
<1>8. /\ spi_rx' = (IF Samples(edge_cnt) THEN Spi!ShiftIn(spi_rx, miso) ELSE spi_rx)
      /\ Shifts(edge_cnt) => mosi' = Head(spi_tx) /\ spi_tx' = Spi!ShiftIn(spi_tx, FALSE)
      /\ ~Shifts(edge_cnt) => mosi' = mosi /\ spi_tx' = spi_tx
  BY <1>1, <1>7 DEF Spi!Toggle
<1>9. /\ Sends(mosi, spi_tx, spi_sent, ShiftedAfter(edge_cnt))
      /\ Holds(spi_rx, preload, SampledAfter(edge_cnt))
      /\ Sends(miso, s_tx, preload, ShiftedAfter(edge_cnt))
      /\ Holds(spi_received, spi_sent, SampledAfter(edge_cnt))
  BY <1>3 DEF SpiIInv, SpiExchange
<1>10. /\ SampledAfter(edge_cnt) \in Nat /\ ShiftedAfter(edge_cnt) \in Nat
       /\ Samples(edge_cnt)  => /\ SampledAfter(edge_cnt + 1) = SampledAfter(edge_cnt) + 1
                                /\ ShiftedAfter(edge_cnt) = SampledAfter(edge_cnt)
                                /\ SampledAfter(edge_cnt) < SpiBits
       /\ ~Samples(edge_cnt) => SampledAfter(edge_cnt + 1) = SampledAfter(edge_cnt)
       /\ Shifts(edge_cnt)   => ShiftedAfter(edge_cnt + 1) = ShiftedAfter(edge_cnt) + 1
       /\ ~Shifts(edge_cnt)  => ShiftedAfter(edge_cnt + 1) = ShiftedAfter(edge_cnt)
  BY <1>2, EdgeCounts
<1>11. /\ spi_rx \in Spi!Byte /\ spi_sent \in Spi!Byte /\ preload \in Spi!Byte
            /\ miso \in BOOLEAN
       /\ spi_tx \in [1 .. SpiBits - 1 -> BOOLEAN]
  BY DEF SpiIInv, SpiTypes, Spi!TypeOK, Spi!SpiTypeOK
<1>12. Holds(spi_rx', preload, SampledAfter(edge_cnt + 1))
  <2>1. CASE Samples(edge_cnt)
    <3>1. miso = preload[SampledAfter(edge_cnt) + 1]
      BY <1>9, <1>10, <2>1 DEF Sends
    <3>2. Holds(Spi!ShiftIn(spi_rx, miso), preload, SampledAfter(edge_cnt) + 1)
      BY <1>9, <1>10, <1>11, <2>1, <3>1, HoldsNext
    <3>. QED BY <1>8, <1>10, <2>1, <3>2
  <2>2. CASE ~Samples(edge_cnt)
    BY <1>8, <1>9, <1>10, <2>2
  <2>. QED BY <2>1, <2>2
<1>13. Sends(mosi', spi_tx', spi_sent, ShiftedAfter(edge_cnt + 1))
  <2>1. CASE Shifts(edge_cnt)
    BY <1>8, <1>9, <1>10, <1>11, <2>1, SendsNext
  <2>2. CASE ~Shifts(edge_cnt)
    BY <1>8, <1>9, <1>10, <2>2
  <2>. QED BY <2>1, <2>2
<1>14. /\ ShiftedAfter(edge_cnt)' = ShiftedAfter(edge_cnt + 1)
       /\ SampledAfter(edge_cnt)' = SampledAfter(edge_cnt + 1)
       /\ ShiftedAfter(s_edges)' = ShiftedAfter(edge_cnt)
            /\ SampledAfter(s_edges)' = SampledAfter(edge_cnt)
  BY <1>3, <1>4 DEF ShiftedAfter, SampledAfter
<1>15. SpiExchange'
  BY <1>1, <1>3, <1>4, <1>9, <1>12, <1>13, <1>14 DEF SpiExchange, Sends, Holds
<1>. QED BY <1>5, <1>6, <1>15 DEF SpiParts

LEMMA SpiFinishStep ==
  ASSUME SpiIInv, SpiFollows, NEW w \in Spi!Writes, NEW given, Spi!Edge(w, given), SpiRuns,
         Spi!tick,
         edge_cnt = 2 * SpiBits
  PROVE  SpiParts' /\ s_edges = 2 * SpiBits /\ sclk' = cpol_r'
<1>. USE SpiSizes
<1>1. Spi!Finish(w) /\ UNCHANGED <<preload, spi_sent>>
  BY SpiMasterStep
<1>2. /\ spi_div_cnt # 0 /\ spi_divider >= 2 /\ cpha_r \in BOOLEAN
           /\ edge_cnt \in 0 .. 2 * SpiBits
      /\ spi_rx \in Spi!Byte /\ spi_received \in Spi!Byte /\ spi_sent \in Spi!Byte
           /\ preload \in Spi!Byte
  BY DEF SpiIInv, SpiLines, SpiTypes, Spi!TypeOK, Spi!SpiTypeOK, Spi!Div, Spi!tick
<1>3. ~cs_n_prev /\ s_edges = edge_cnt /\ spi_received' = spi_received
  BY <1>2, SlaveStill DEF SpiIInv, SpiBehind
<1>4. SampledAfter(edge_cnt) = SpiBits
  BY <1>2, EdgeCounts
<1>5. spi_rx = preload /\ spi_received = spi_sent
  BY <1>2, <1>3, <1>4, HoldsAll DEF SpiIInv, SpiExchange
<1>6. /\ ~SpiRuns' /\ ~spi_busy' /\ cs_n' /\ spi_done' /\ spi_rxdata' = spi_rx
      /\ sclk' = sclk /\ cpol_r' = cpol_r
  BY <1>1 DEF Spi!Finish, SpiRuns
<1>7. sclk = cpol_r
  <2>1. (2 * SpiBits) % 2 = 0
    OBVIOUS
  <2>. QED BY <2>1 DEF SpiIInv, SpiLines
<1>8. SpiLines' /\ SpiBehind'
  BY <1>6, SpiRegs DEF SpiLines, SpiBehind
<1>9. SpiExchange'
  BY <1>1, <1>3, <1>5, <1>6 DEF SpiExchange
<1>. QED BY <1>3, <1>6, <1>7, <1>8, <1>9 DEF SpiParts

(* The registers of the master after an edge.                              *)
LEMMA SpiMasterTypes ==
  ASSUME SpiIInv, SpiFollows, NEW w \in Spi!Writes, NEW given, Spi!Edge(w, given)
  PROVE  Spi!SpiTypeOK' 
<1>. USE SpiSizes
<1>1. /\ spi_state \in {"IDLE", "RUN"}
      /\ sclk \in BOOLEAN /\ mosi \in BOOLEAN /\ cs_n \in BOOLEAN /\ cpol_r \in BOOLEAN
      /\ cpha_r \in BOOLEAN /\ spi_busy \in BOOLEAN /\ spi_done \in BOOLEAN
           /\ spi_irq \in BOOLEAN
      /\ miso \in BOOLEAN /\ spi_div_cnt \in Spi!Div /\ edge_cnt \in 0 .. 2 * SpiBits
      /\ spi_tx \in [1 .. SpiBits - 1 -> BOOLEAN]
      /\ spi_rx \in Spi!Byte /\ spi_txdata \in Spi!Byte /\ spi_rxdata \in Spi!Byte
  BY DEF SpiIInv, SpiTypes, Spi!TypeOK, Spi!SpiTypeOK
<1>2. spi_divider' \in Spi!Div \ {0} /\ spi_txdata' \in Spi!Byte
  BY SpiRegs
<1>3. 0 \in Spi!Div /\ 0 \in 0 .. 2 * SpiBits
  BY DEF Spi!Div
<1>4. CASE ~SpiRuns /\ Spi!do_start(w)
  <2>1. Spi!Start(w)
    BY <1>4, SpiMasterStep
  <2>2. w.cpol \in BOOLEAN /\ w.cpha \in BOOLEAN
    BY <1>4, SpiWrites DEF Spi!do_start
  <2>3. Head(spi_txdata) \in BOOLEAN /\ Tail(spi_txdata) \in [1 .. SpiBits - 1 -> BOOLEAN]
    BY <1>1, SendsFirst
  <2>. QED BY <1>1, <1>2, <1>3, <2>1, <2>2, <2>3 DEF Spi!Start, Spi!SpiTypeOK
<1>5. CASE ~SpiRuns /\ ~Spi!do_start(w)
  <2>1. Spi!Idle(w)
    BY <1>5, SpiMasterStep
  <2>2. spi_done' \in BOOLEAN
    BY <1>1, <2>1 DEF Spi!Idle, Spi!cleared
  <2>. QED BY <1>1, <1>2, <2>1, <2>2 DEF Spi!Idle, Spi!SpiTypeOK
<1>6. CASE SpiRuns /\ ~Spi!tick
  <2>1. Spi!Count(w)
    BY <1>6, SpiMasterStep
  <2>2. spi_div_cnt' \in Spi!Div
    BY <1>1, <2>1 DEF Spi!Count, Spi!Div
  <2>3. spi_done' \in BOOLEAN
    BY <1>1, <2>1 DEF Spi!Count, Spi!cleared
  <2>. QED BY <1>1, <1>2, <2>1, <2>2, <2>3 DEF Spi!Count, Spi!SpiTypeOK
<1>7. CASE SpiRuns /\ Spi!tick /\ edge_cnt # 2 * SpiBits
  <2>1. Spi!Toggle(w, miso)
    BY <1>7, SpiMasterStep
  <2>2. spi_done' \in BOOLEAN /\ sclk' \in BOOLEAN
    BY <1>1, <2>1 DEF Spi!Toggle, Spi!cleared
  <2>3. edge_cnt' \in 0 .. 2 * SpiBits
    BY <1>1, <1>7, <2>1 DEF Spi!Toggle
  <2>4. Spi!ShiftIn(spi_rx, miso) \in Spi!Byte
    <3>1. SpiBits \in Nat /\ SpiBits >= 1 /\ spi_rx \in [1 .. SpiBits -> BOOLEAN]
      BY <1>1 DEF Spi!Byte
    <3>2. ShiftRegister(spi_rx, SpiBits, miso, BOOLEAN)
      BY <1>1, <3>1, ShiftInIs
    <3>. QED BY <3>2 DEF ShiftRegister, Spi!Byte
  <2>5. Head(spi_tx) \in BOOLEAN
          /\ Spi!ShiftIn(spi_tx, FALSE) \in [1 .. SpiBits - 1 -> BOOLEAN]
    <3>. DEFINE m == SpiBits - 1
    <3>1. m \in Nat /\ m >= 1 /\ spi_tx \in [1 .. m -> BOOLEAN] /\ FALSE \in BOOLEAN
      BY <1>1
    <3>2. ShiftRegister(spi_tx, m, FALSE, BOOLEAN)
      <4>. HIDE DEF m
      <4>. QED BY <3>1, ShiftInIs
    <3>. QED BY <3>2 DEF ShiftRegister
  <2>6. spi_rx' \in Spi!Byte /\ mosi' \in BOOLEAN
          /\ spi_tx' \in [1 .. SpiBits - 1 -> BOOLEAN]
    BY <1>1, <2>1, <2>4, <2>5 DEF Spi!Toggle
  <2>. QED BY <1>1, <1>2, <1>3, <2>1, <2>2, <2>3, <2>6 DEF Spi!Toggle, Spi!SpiTypeOK
<1>8. CASE SpiRuns /\ Spi!tick /\ edge_cnt = 2 * SpiBits
  <2>1. Spi!Finish(w)
    BY <1>8, SpiMasterStep
  <2>. QED BY <1>1, <1>2, <1>3, <2>1 DEF Spi!Finish, Spi!SpiTypeOK
<1>. QED BY <1>4, <1>5, <1>6, <1>7, <1>8

LEMMA SpiTypesStep ==
  ASSUME SpiIInv, SpiFollows, NEW w \in Spi!Writes,
         NEW given \in SpiPayloads \union {preload}, Spi!Edge(w, given),
         SpiParts'
  PROVE  SpiTypes'
<1>. USE SpiSizes
<1>1. /\ cs_n \in BOOLEAN /\ sclk \in BOOLEAN /\ mosi \in BOOLEAN /\ cpol_r \in BOOLEAN
      /\ s_edges \in 0 .. 2 * SpiBits /\ spi_received \in Spi!Byte /\ preload \in Spi!Byte
           /\ spi_sent \in Spi!Byte
      /\ miso \in BOOLEAN /\ sclk_prev \in BOOLEAN /\ s_tx \in [1 .. SpiBits - 1 -> BOOLEAN]
      /\ spi_half \in Nat /\ spi_txdata \in Spi!Byte
  BY DEF SpiIInv, SpiTypes, Spi!TypeOK, Spi!SpiTypeOK
<1>2. preload' \in Spi!Byte /\ spi_sent' \in Spi!Byte
  <2>1. given \in Spi!Byte
    BY <1>1, SpiFits DEF Spi!LineAssumption
  <2>. QED BY <1>1, <2>1 DEF Spi!Edge
<1>3. spi_half' \in Nat
  BY <1>1 DEF Spi!Edge
<1>4. cs_n_prev' \in BOOLEAN
  BY <1>1 DEF Spi!Edge
<1>5. /\ miso' \in BOOLEAN /\ s_tx' \in [1 .. SpiBits - 1 -> BOOLEAN]
           /\ sclk_prev' \in BOOLEAN
      /\ spi_received' \in Spi!Byte /\ s_edges' \in 0 .. 2 * SpiBits
  <2>1. CASE Spi!SlaveSelected
    <3>1. Head(preload) \in BOOLEAN /\ Tail(preload) \in [1 .. SpiBits - 1 -> BOOLEAN]
      BY <1>1, SendsFirst
    <3>. QED BY <1>1, <2>1, <3>1 DEF Spi!SlaveSelected
  <2>2. CASE Spi!SlaveClocked
    <3>1. Spi!ShiftIn(spi_received, mosi) \in Spi!Byte
      <4>1. SpiBits \in Nat /\ SpiBits >= 1 /\ spi_received \in [1 .. SpiBits -> BOOLEAN]
        BY <1>1 DEF Spi!Byte
      <4>2. ShiftRegister(spi_received, SpiBits, mosi, BOOLEAN)
        BY <1>1, <4>1, ShiftInIs
      <4>. QED BY <4>2 DEF ShiftRegister, Spi!Byte
    <3>2. Head(s_tx) \in BOOLEAN
            /\ Spi!ShiftIn(s_tx, FALSE) \in [1 .. SpiBits - 1 -> BOOLEAN]
      <4>. DEFINE m == SpiBits - 1
      <4>1. m \in Nat /\ m >= 1 /\ s_tx \in [1 .. m -> BOOLEAN] /\ FALSE \in BOOLEAN
        BY <1>1
      <4>2. ShiftRegister(s_tx, m, FALSE, BOOLEAN)
        <5>. HIDE DEF m
        <5>. QED BY <4>1, ShiftInIs
      <4>. QED BY <4>2 DEF ShiftRegister
    <3>3. s_edges' \in 0 .. 2 * SpiBits
      <4>1. ~cs_n /\ ~cs_n_prev /\ sclk # sclk_prev /\ s_edges' = s_edges + 1
        BY <2>2 DEF Spi!SlaveClocked
      <4>2. s_edges = edge_cnt - 1 /\ edge_cnt \in 0 .. 2 * SpiBits
        BY <4>1 DEF SpiIInv, SpiLines, SpiBehind, SpiTypes, Spi!TypeOK, Spi!SpiTypeOK
      <4>. QED BY <1>1, <4>1, <4>2
    <3>4. spi_received' \in Spi!Byte /\ miso' \in BOOLEAN
            /\ s_tx' \in [1 .. SpiBits - 1 -> BOOLEAN]
          /\ sclk_prev' = sclk
      BY <1>1, <2>2, <3>1, <3>2 DEF Spi!SlaveClocked
    <3>. QED BY <1>1, <3>3, <3>4
  <2>3. CASE Spi!SlaveWaits
    BY <1>1, <2>3 DEF Spi!SlaveWaits
  <2>. QED BY <2>1, <2>2, <2>3 DEF Spi!Edge
<1>6. Spi!SpiTypeOK'
  BY SpiMasterTypes
<1>. QED BY <1>2, <1>3, <1>4, <1>5, <1>6 DEF SpiTypes, Spi!TypeOK

LEMMA SpiEdgeInv ==
  ASSUME SpiIInv, SpiFollows, NEW w \in Spi!Writes,
         NEW given \in (IF Spi!do_start(w) THEN SpiPayloads ELSE {preload}),
           Spi!Edge(w, given)
  PROVE  SpiIInv' /\ (cs_n # cs_n' /\ cs_n' => s_edges = 2 * SpiBits /\ sclk' = cpol_r')
<1>1. SpiParts'
  <2>1. ~SpiRuns /\ ~Spi!do_start(w) => SpiParts'
    BY SpiRestStep
  <2>2. ~SpiRuns /\ Spi!do_start(w) => SpiParts'
    BY SpiStartStep
  <2>3. SpiRuns /\ cs_n_prev => SpiParts'
    BY SpiSelectedStep
  <2>4. SpiRuns /\ ~cs_n_prev /\ spi_div_cnt = 0 => SpiParts'
    BY SpiClockedStep
  <2>5. SpiRuns /\ spi_div_cnt # 0 /\ ~Spi!tick => SpiParts'
    BY SpiCountStep
  <2>6. SpiRuns /\ Spi!tick => SpiParts'
    BY SpiToggleStep, SpiFinishStep
  <2>. QED BY <2>1, <2>2, <2>3, <2>4, <2>5, <2>6
<1>2. SpiTypes'
  BY <1>1, SpiTypesStep
<1>3. ASSUME cs_n # cs_n', cs_n' PROVE s_edges = 2 * SpiBits /\ sclk' = cpol_r'
  <2>1. SpiRuns
    BY <1>3 DEF SpiIInv, SpiLines, SpiTypes, Spi!TypeOK, Spi!SpiTypeOK
  <2>2. Spi!tick /\ edge_cnt = 2 * SpiBits
    BY <1>3, <2>1, SpiMasterStep DEF Spi!Count, Spi!Toggle
  <2>. QED BY <2>1, <2>2, SpiFinishStep
<1>. QED BY <1>1, <1>2, <1>3 DEF SpiIInv, SpiParts

LEMMA SpiInitInv == Spi!Init => SpiIInv
<1>. SUFFICES ASSUME Spi!Init PROVE SpiIInv
  OBVIOUS
<1>. USE SpiSizes
<1>1. /\ Spi!Zeros(SpiBits) \in Spi!Byte
           /\ Spi!Zeros(SpiBits - 1) \in [1 .. SpiBits - 1 -> BOOLEAN]
      /\ 0 \in Spi!Div /\ 2 \in Spi!Div \ {0} /\ 0 \in 0 .. 2 * SpiBits
  BY DEF Spi!Zeros, Spi!Byte, Spi!Div
<1>2. SpiTypes
  BY <1>1 DEF Spi!Init, Spi!SpiInit, SpiTypes, Spi!TypeOK, Spi!SpiTypeOK
<1>3. SpiLines /\ SpiBehind /\ SpiExchange
  BY DEF Spi!Init, Spi!SpiInit, SpiLines, SpiBehind, SpiExchange, SpiRuns
<1>. QED BY <1>2, <1>3 DEF SpiIInv

LEMMA SpiNextInv == SpiIInv /\ SpiFollows /\ Spi!Next => SpiIInv'
BY SpiEdgeInv DEF Spi!Next

LEMMA SpiRests == SpiIInv /\ UNCHANGED Spi!vars => SpiIInv'
<1>1. ASSUME SpiIInv, UNCHANGED Spi!vars
      PROVE SpiTypes' /\ SpiLines' /\ SpiBehind' /\ SpiExchange'
  BY <1>1 DEF Spi!vars, Spi!spiVars, Spi!slaveVars, SpiIInv, SpiTypes, Spi!TypeOK,
    Spi!SpiTypeOK, SpiLines, SpiBehind, SpiExchange,
    SpiRuns, Sends, Holds, ShiftedAfter, SampledAfter
<1>. QED BY <1>1 DEF SpiIInv

LEMMA SpiInvHolds == SpiIInv => Spi!TypeOK /\ Spi!DoneIsVisible /\ Spi!HalfPeriodIsDivider
  /\ Spi!BytesAreExchanged
BY DEF SpiIInv, SpiTypes, SpiLines, SpiExchange, Spi!DoneIsVisible, Spi!HalfPeriodIsDivider,
  Spi!BytesAreExchanged, SpiRuns

LEMMA SpiClockRests == SpiIInv /\ SpiFollows /\ Spi!Next =>
   (cs_n # cs_n' /\ cs_n' => s_edges = 2 * SpiBits /\ sclk' = cpol_r')
BY SpiEdgeInv DEF Spi!Next

-----------------------------------------------------------------------------
(* The I2C master and its slave.                                           *)

(* Half of half a period is an edge of clk in which the slave follows.     *)
I2cFollows == \A d \in I2cDividers : d >= 2

TopBit == I2cBits - 1

(* The slave is addressed.                                                 *)
Addressed == \A i \in I2c!Bits \ {0} : addr_rw[i] = MCMyAddr[i]

(* Register r holds the bits of b above k, one after the other.            *)
Filled(r, b, k) == \A j \in I2c!Bits : j + k + 1 <= TopBit => r[j] = b[j + k + 1]

(* Register r holds the bits of tx_byte from k down, at its upper end.     *)
SendsFrom(r, k) == \A j \in I2c!Bits : j + k >= TopBit => r[j] = tx_byte[j + k - TopBit]

(* What the slave is at, and whether it pulls SDA low.                     *)
Listens          == s_state = "IDLE" /\ ~s_drive_low
InAddr(k)      == /\ s_state = "ADDR" /\ s_idx = k /\ ~s_drive_low /\ ~got_write
                  /\ Filled(s_shift, addr_rw, k)
InAck(low)     == /\ s_state = "ADDR_ACK" /\ (s_drive_low <=> low) /\ ~got_write
                  /\ s_shift = addr_rw /\ (s_rw <=> rw_r)
InWrite(k, low) == /\ s_state = "WDATA" /\ s_idx = k /\ (s_drive_low <=> low)
                   /\ Filled(s_shift, i2c_tx, k)
InWriteAck     == s_state = "WDATA_ACK" /\ ~s_drive_low /\ s_shift = i2c_tx
WaitsStop(low) == /\ s_state = "WAIT_STOP" /\ (s_drive_low <=> low)
                  /\ got_write /\ rx_byte = i2c_tx
InRead(k, low) == /\ s_state = "RDATA" /\ s_idx = k /\ (s_drive_low <=> low)
                  /\ SendsFrom(s_shift, k)
InReadAck(low) == s_state = "RDATA_ACK" /\ (s_drive_low <=> low)
SlaveDone(low) ==
  IF ~Addressed THEN Listens /\ ~got_write
  ELSE IF rw_r THEN InReadAck(FALSE) ELSE WaitsStop(low)

(* It sends the bit above, or still its acknowledgement.                   *)
PullsBefore(k) == k # TopBit => ~tx_byte[k + 1]

(* An edge of clk after the master has moved the slave has followed.       *)
I2cSettled ==
  /\ i2c_state = "IDLE"      => Listens
  /\ i2c_state = "START"     => IF phase THEN InAddr(TopBit) ELSE Listens
  /\ i2c_state = "ADDR"      => InAddr(i2c_idx)
  /\ i2c_state = "ADDR_ACK"  => InAck(phase /\ Addressed)
  /\ i2c_state = "WDATA"     => InWrite(i2c_idx, ~phase /\ i2c_idx = TopBit)
  /\ i2c_state = "WDATA_ACK" => IF phase THEN WaitsStop(TRUE) ELSE InWriteAck
  /\ i2c_state = "RDATA"     =>
       InRead(i2c_idx, IF phase THEN ~tx_byte[i2c_idx] ELSE PullsBefore(i2c_idx))
  /\ i2c_state = "RDATA_ACK" => InReadAck(~phase /\ ~tx_byte[0])
  /\ i2c_state = "STOP"      => SlaveDone(~phase)

(* Just when it has moved the slave is still behind.                       *)
I2cLagging ==
  /\ i2c_state = "IDLE"      => SlaveDone(FALSE)
  /\ i2c_state = "START"     => Listens
  /\ i2c_state = "ADDR"      => InAddr(IF phase \/ i2c_idx = TopBit THEN i2c_idx ELSE i2c_idx + 1)
  /\ i2c_state = "ADDR_ACK"  => IF phase THEN InAck(FALSE) ELSE InAddr(0)
  /\ i2c_state = "WDATA"     => IF phase THEN InWrite(i2c_idx, i2c_idx = TopBit)
                            ELSE IF i2c_idx = TopBit THEN InAck(TRUE)
                            ELSE InWrite(i2c_idx + 1, FALSE)
  /\ i2c_state = "WDATA_ACK" => IF phase THEN InWriteAck ELSE InWrite(0, FALSE)
  /\ i2c_state = "RDATA"     => IF phase THEN InRead(i2c_idx, PullsBefore(i2c_idx))
                            ELSE IF i2c_idx = TopBit THEN InAck(TRUE)
                            ELSE InRead(i2c_idx + 1, ~tx_byte[i2c_idx + 1])
  /\ i2c_state = "RDATA_ACK" =>
       IF phase THEN InReadAck(~tx_byte[0]) ELSE InRead(0, ~tx_byte[0])
  /\ i2c_state = "STOP"      => IF phase THEN SlaveDone(~scl)
                            ELSE IF Addressed THEN SlaveDone(TRUE) ELSE InAck(FALSE)

I2cLags == IF i2c_state = "IDLE" THEN i2c_irq ELSE i2c_div_cnt = 0
  /\ ~(i2c_state = "START" /\ ~phase)

(* The master's side of the line: the bit before in the first half of a    *)
(* bit, with SCL high but for the first, the bit itself in the second.     *)
firstBit == i2c_state = "ADDR" /\ i2c_idx = TopBit
I2cLine ==
  /\ scl <=> \/ i2c_state \in {"IDLE", "START"}
             \/ ~phase /\ ~firstBit
             \/ i2c_state = "STOP" /\ phase /\ scl
  /\ sda_drive_low <=>
       \/ i2c_state = "START" /\ phase
       \/ i2c_state \notin {"IDLE", "START"} /\ phase /\ I2c!drivesLow
       \/ i2c_state = "ADDR" /\ ~phase /\ (i2c_idx # TopBit => ~addr_rw[i2c_idx + 1])
       \/ i2c_state = "ADDR_ACK" /\ ~phase /\ ~addr_rw[0]
       \/ i2c_state = "WDATA" /\ ~phase /\ i2c_idx # TopBit /\ ~i2c_tx[i2c_idx + 1]
       \/ i2c_state = "WDATA_ACK" /\ ~phase /\ ~i2c_tx[0]

(* What the slave saw on the last edge.                                    *)
I2cSeen ==
  /\ ~I2cLags => (scl_prev <=> scl) /\ (scl => (sda_prev <=> I2c!sda))
  /\ I2cLags => /\ i2c_state = "IDLE"  => scl_prev /\ ~sda_prev
                /\ i2c_state = "START" => scl_prev /\ sda_prev
                /\ i2c_state \notin {"IDLE", "START"} =>
                     (scl_prev <=> ~scl /\ ~(firstBit /\ phase))

I2cLatched ==
  i2c_state # "IDLE" \/ i2c_irq =>
    /\ i2c_tx = i2c_sent /\ (addr_rw[0] <=> rw_r)
    /\ \A i \in I2c!Bits \ {0} : addr_rw[i] = to[i]

I2cProgress ==
  /\ i2c_state \in {"START", "ADDR", "ADDR_ACK"} => ~nack
  /\ i2c_state \in {"WDATA", "WDATA_ACK", "RDATA", "RDATA_ACK"} =>
       Addressed /\ ~nack /\ (rw_r <=> i2c_state \in {"RDATA", "RDATA_ACK"})
  /\ i2c_state = "STOP" \/ i2c_irq =>
       /\ nack <=> ~Addressed
       /\ Addressed /\ rw_r => i2c_rxdata = tx_byte
  /\ i2c_state = "RDATA" => Filled(i2c_rx, tx_byte, i2c_idx)
  /\ i2c_state = "RDATA_ACK" => i2c_rx = tx_byte

I2cStatus ==
  /\ i2c_busy <=> i2c_state # "IDLE"
  /\ i2c_irq => i2c_done /\ i2c_state = "IDLE"
  /\ i2c_divider >= 2
  /\ i2c_busy => i2c_div_cnt < i2c_divider /\ i2c_half = i2c_div_cnt

I2cTypes ==
  /\ I2c!TypeOK /\ to \in I2c!Addr /\ i2c_half \in Nat
  /\ {s_rw, s_drive_low, scl_prev, sda_prev, got_write} \subseteq BOOLEAN

I2cSlave == IF I2cLags THEN I2cLagging ELSE I2cSettled

I2cIInv == I2cTypes /\ I2cStatus /\ I2cLine /\ I2cSeen /\ I2cLatched /\ I2cProgress
  /\ I2cSlave

LEMMA I2cSizes ==
  /\ I2cBits \in Nat /\ TopBit \in Nat /\ TopBit >= 1 /\ TopBit = I2cBits - 1
       /\ I2c!Bits = 0 .. TopBit
  /\ 2^DivWidth \in Nat /\ 2^DivWidth >= 8
BY I2cFits DEF I2c!I2cAssumption, TopBit, I2c!Bits

LEMMA I2cShift ==
  ASSUME NEW r \in I2c!Byte, NEW bit \in BOOLEAN
  PROVE  /\ I2c!ShiftIn(r, bit) \in I2c!Byte /\ I2c!ShiftIn(r, bit)[0] = bit
         /\ \A j \in I2c!Bits : j # 0 => I2c!ShiftIn(r, bit)[j] = r[j - 1]
<1>. USE I2cSizes
<1>1. \A j \in I2c!Bits : I2c!ShiftIn(r, bit)[j] = IF j = 0 THEN bit ELSE r[j - 1]
  BY DEF I2c!ShiftIn
<1>2. \A j \in I2c!Bits : (IF j = 0 THEN bit ELSE r[j - 1]) \in BOOLEAN
  <2>. TAKE j \in I2c!Bits
  <2>1. j # 0 => j - 1 \in I2c!Bits
    OBVIOUS
  <2>. QED BY <2>1 DEF I2c!Byte
<1>3. I2c!ShiftIn(r, bit) \in I2c!Byte
  BY <1>2 DEF I2c!ShiftIn, I2c!Byte
<1>4. 0 \in I2c!Bits
  OBVIOUS
<1>. QED BY <1>1, <1>3, <1>4

LEMMA I2cFilledFirst == \A r, b : Filled(r, b, TopBit)
BY I2cSizes DEF Filled

(* One more bit of b.                                                      *)
LEMMA I2cFilledNext ==
  ASSUME NEW r \in I2c!Byte, NEW b \in I2c!Byte, NEW k \in I2c!Bits, Filled(r, b, k),
         NEW bit \in BOOLEAN, bit = b[k]
  PROVE  /\ k # 0 => Filled(I2c!ShiftIn(r, bit), b, k - 1)
         /\ k = 0 => I2c!ShiftIn(r, bit) = b
<1>. USE I2cSizes
<1>1. ASSUME NEW j \in I2c!Bits, j + k <= TopBit PROVE I2c!ShiftIn(r, bit)[j] = b[j + k]
  <2>1. CASE j = 0
    BY <2>1, I2cShift
  <2>2. CASE j # 0
    <3>1. j - 1 \in I2c!Bits /\ (j - 1) + k + 1 <= TopBit /\ (j - 1) + k + 1 = j + k
      BY <1>1, <2>2
    <3>2. r[j - 1] = b[j + k]
      BY <3>1 DEF Filled
    <3>. QED BY <2>2, <3>2, I2cShift
  <2>. QED BY <2>1, <2>2
<1>2. k # 0 => Filled(I2c!ShiftIn(r, bit), b, k - 1)
  <2>1. \A j \in I2c!Bits : j + (k - 1) + 1 = j + k
    OBVIOUS
  <2>. QED BY <1>1, <2>1 DEF Filled
<1>3. ASSUME k = 0 PROVE I2c!ShiftIn(r, bit) = b
  <2>1. \A j \in I2c!Bits : I2c!ShiftIn(r, bit)[j] = b[j]
    BY <1>1, <1>3
  <2>2. I2c!ShiftIn(r, bit) \in [I2c!Bits -> BOOLEAN] /\ b \in [I2c!Bits -> BOOLEAN]
    BY I2cShift DEF I2c!Byte
  <2>. DEFINE s == I2c!ShiftIn(r, bit)
  <2>. HIDE DEF s
  <2>3. s = [j \in I2c!Bits |-> s[j]] /\ b = [j \in I2c!Bits |-> b[j]]
    BY <2>2, Zenon DEF s
  <2>4. \A j \in I2c!Bits : s[j] = b[j]
    BY <2>1 DEF s
  <2>. QED BY <2>3, <2>4, Zenon DEF s
<1>. QED BY <1>2, <1>3

(* The slave's register while it sends tx_byte.                            *)
LEMMA I2cSendsNext ==
  ASSUME NEW r \in I2c!Byte, NEW k \in I2c!Bits, k # 0, SendsFrom(r, k)
  PROVE  SendsFrom(I2c!ShiftIn(r, FALSE), k - 1)
<1>. USE I2cSizes
<1>. SUFFICES ASSUME NEW j \in I2c!Bits, j + (k - 1) >= TopBit
              PROVE I2c!ShiftIn(r, FALSE)[j] = tx_byte[j + (k - 1) - TopBit]
  BY DEF SendsFrom
<1>1. j # 0 /\ j - 1 \in I2c!Bits /\ (j - 1) + k >= TopBit
        /\ (j - 1) + k - TopBit = j + (k - 1) - TopBit
  OBVIOUS
<1>2. r[j - 1] = tx_byte[(j - 1) + k - TopBit]
  BY <1>1 DEF SendsFrom
<1>. QED BY <1>1, <1>2, I2cShift

LEMMA I2cSame ==
  ASSUME NEW a \in I2c!Byte, NEW b \in I2c!Byte, a[0] = b[0],
         \A i \in I2c!Bits \ {0} : a[i] = b[i]
  PROVE  a = b
<1>1. \A j \in I2c!Bits : a[j] = b[j]
  OBVIOUS
<1>2. a = [j \in I2c!Bits |-> a[j]] /\ b = [j \in I2c!Bits |-> b[j]]
  BY Zenon DEF I2c!Byte
<1>. QED BY <1>1, <1>2, Zenon

-----------------------------------------------------------------------------
LEMMA I2cWrites ==
  ASSUME NEW w \in I2c!Writes
  PROVE  /\ w.reg = "DIVIDER" => ~i2c_busy /\ w.value \in I2cDividers
         /\ w.reg = "TXDATA" => w.value \in I2cPayloads
         /\ w.reg = "ADDR" => w.value \in I2c!Addr
         /\ w.reg = "CTRL" => w.rw \in BOOLEAN
         /\ w.reg = "STATUS" /\ i2c_busy => w.nack = FALSE
BY DEF I2c!Writes

LEMMA I2cRegs ==
  ASSUME I2cIInv, I2cFollows, NEW w \in I2c!Writes, NEW given, I2c!Edge(w, given)
  PROVE  /\ i2c_divider' \in I2c!Div \ {0} /\ i2c_divider' >= 2 /\ i2c_txdata' \in I2c!Byte
         /\ addr_reg' \in I2c!Addr /\ (i2c_busy => i2c_divider' = i2c_divider)
<1>. USE I2cSizes
<1>1. /\ i2c_divider' = (IF w.reg # "DIVIDER" THEN i2c_divider
                         ELSE IF w.value = 0 THEN 1 ELSE w.value)
      /\ addr_reg' = (IF w.reg = "ADDR" THEN w.value ELSE addr_reg)
      /\ i2c_txdata' = (IF w.reg = "TXDATA" THEN w.value ELSE i2c_txdata)
  BY DEF I2c!Edge, I2c!I2cEdge
<1>2. /\ i2c_divider \in I2c!Div \ {0} /\ i2c_divider >= 2 /\ i2c_txdata \in I2c!Byte
      /\ addr_reg \in I2c!Addr
  BY DEF I2cIInv, I2cTypes, I2c!TypeOK, I2c!I2cTypeOK, I2cStatus
<1>3. i2c_txdata' \in I2c!Byte /\ addr_reg' \in I2c!Addr
  BY <1>1, <1>2, I2cWrites, I2cFits DEF I2c!LineAssumption
<1>4. CASE w.reg = "DIVIDER"
  <2>1. ~i2c_busy /\ w.value \in I2cDividers
    BY <1>4, I2cWrites
  <2>2. w.value \in I2c!Div /\ w.value >= 2 /\ w.value # 0
    <3>1. w.value \in I2c!Div /\ w.value >= 2
      BY <2>1, I2cFits DEF I2cFollows, I2c!LineAssumption
    <3>2. I2c!Div \subseteq Nat
      BY DEF I2c!Div
    <3>. QED BY <3>1, <3>2
  <2>3. i2c_divider' = w.value
    BY <1>1, <1>4, <2>2
  <2>. QED BY <1>3, <2>1, <2>2, <2>3
<1>5. CASE w.reg # "DIVIDER"
  BY <1>1, <1>2, <1>3, <1>5
<1>. QED BY <1>4, <1>5

LEMMA I2cMasterStep ==
  ASSUME I2cIInv, NEW w \in I2c!Writes, NEW given, I2c!Edge(w, given)
  PROVE  /\ i2c_state = "IDLE" => I2c!Idle(w)
         /\ i2c_state # "IDLE" /\ ~I2c!tick => I2c!Count(w)
         /\ i2c_state # "IDLE" /\ I2c!tick => I2c!Tick(w, I2c!sda)
         /\ i2c_state # "IDLE" => /\ i2c_busy /\ ~I2c!do_start(w) /\ ~I2c!clears(w, "nack")
                                  /\ UNCHANGED <<tx_byte, to, i2c_sent>>
<1>1. I2c!Idle(w) \/ I2c!Count(w) \/ I2c!Tick(w, I2c!sda)
  BY DEF I2c!Edge, I2c!I2cEdge
<1>2. /\ i2c_state = "IDLE" => I2c!Idle(w)
      /\ i2c_state # "IDLE" /\ ~I2c!tick => I2c!Count(w)
      /\ i2c_state # "IDLE" /\ I2c!tick => I2c!Tick(w, I2c!sda)
  BY <1>1 DEF I2c!Idle, I2c!Count, I2c!Tick
<1>3. i2c_state # "IDLE" => i2c_busy
  BY DEF I2cIInv, I2cStatus
<1>4. i2c_busy => ~I2c!do_start(w) /\ ~I2c!clears(w, "nack")
  BY I2cWrites DEF I2c!do_start, I2c!clears
<1>5. ~I2c!do_start(w) => UNCHANGED <<tx_byte, to, i2c_sent>>
  BY DEF I2c!Edge
<1>. QED BY <1>2, <1>3, <1>4, <1>5

(* The slave has seen all there is to see.                                 *)
LEMMA I2cSlaveStill ==
  ASSUME I2cIInv, NEW w, NEW given, I2c!Edge(w, given), ~I2cLags
  PROVE  /\ UNCHANGED <<s_state, s_idx, s_shift, s_rw, s_drive_low, rx_byte, got_write>>
         /\ scl_prev' = scl /\ sda_prev' = I2c!sda
<1>1. (scl_prev <=> scl) /\ (scl => (sda_prev <=> I2c!sda)) /\ I2cSettled
  BY DEF I2cIInv, I2cSeen, I2cSlave
<1>2. scl \in BOOLEAN /\ scl_prev \in BOOLEAN /\ s_drive_low \in BOOLEAN
        /\ i2c_state \in I2c!States
  BY DEF I2cIInv, I2cTypes, I2c!TypeOK, I2c!I2cTypeOK
<1>3. I2c!SlaveWaits
  BY <1>1 DEF I2c!Edge, I2c!Slave, I2c!SlaveStarts, I2c!SlaveStops, I2c!SlaveFalls,
    I2c!SlaveRises, I2c!start_cond, I2c!stop_cond,
     I2c!scl_falling, I2c!scl_rising
<1>4. s_state = "IDLE" => ~s_drive_low
  BY <1>1, <1>2 DEF I2cSettled, I2c!States, Listens, InAddr, InAck, InWrite, InWriteAck,
    WaitsStop, InRead,
     InReadAck, SlaveDone
<1>5. s_drive_low' = s_drive_low
  BY <1>2, <1>3, <1>4 DEF I2c!SlaveWaits
<1>. QED BY <1>3, <1>5 DEF I2c!SlaveWaits, I2c!Edge, I2c!Slave

(* Between two phases.                                                     *)
LEMMA I2cCount ==
  ASSUME I2cIInv, I2cFollows, NEW w \in I2c!Writes, NEW given, I2c!Edge(w, given),
         i2c_state # "IDLE", ~I2c!tick
  PROVE  /\ UNCHANGED <<i2c_state, phase, i2c_idx, scl, sda_drive_low, I2c!latchedVars,
              i2c_rx, i2c_rxdata,
                        tx_byte, to, i2c_sent>>
         /\ (nack' <=> nack) /\ ~i2c_irq' /\ ~I2cLags' /\ I2cStatus' /\ I2cLine'
              /\ I2cLatched' /\ I2cProgress'
<1>. USE I2cSizes
<1>1. /\ I2c!Count(w) /\ i2c_busy /\ ~I2c!do_start(w) /\ ~I2c!clears(w, "nack")
      /\ UNCHANGED <<tx_byte, to, i2c_sent>>
  BY I2cMasterStep
<1>2. /\ UNCHANGED <<i2c_state, phase, i2c_idx, scl, sda_drive_low, I2c!latchedVars, i2c_rx,
           i2c_rxdata,
                     i2c_busy>>
      /\ (nack' <=> nack) /\ ~i2c_irq'
  BY <1>1 DEF I2c!Count
<1>3. /\ i2c_div_cnt \in Nat /\ i2c_div_cnt < i2c_divider /\ i2c_divider \in Nat
           /\ i2c_divider < 2^DivWidth
      /\ i2c_half = i2c_div_cnt /\ i2c_divider' = i2c_divider
  BY <1>1, I2cRegs DEF I2cIInv, I2cTypes, I2c!TypeOK, I2c!I2cTypeOK, I2cStatus, I2c!Div
<1>4. i2c_div_cnt' = i2c_div_cnt + 1 /\ i2c_div_cnt + 1 < i2c_divider
  <2>1. i2c_div_cnt + 1 < i2c_divider
    BY <1>3 DEF I2c!tick
  <2>2. (i2c_div_cnt + 1) % 2^DivWidth = i2c_div_cnt + 1
    BY <1>3, <2>1
  <2>. QED BY <1>1, <2>1, <2>2 DEF I2c!Count
<1>5. i2c_half' = i2c_div_cnt'
  BY <1>1, <1>3, <1>4 DEF I2c!Edge
<1>6. I2cStatus'
  BY <1>1, <1>2, <1>3, <1>4, <1>5 DEF I2cStatus, I2cIInv
<1>7. ~I2cLags'
  BY <1>1, <1>2, <1>3, <1>4 DEF I2cLags, I2c!Count
<1>8. I2cLine'
  BY <1>2 DEF I2cLine, I2cIInv, firstBit, I2c!drivesLow, I2c!latchedVars
<1>9. I2cLatched'
  BY <1>1, <1>2 DEF I2cLatched, I2cIInv, I2c!latchedVars
<1>10. I2cProgress'
  BY <1>1, <1>2 DEF I2cProgress, I2cIInv, Addressed, Filled, I2c!latchedVars, I2c!Count
<1>. QED BY <1>1, <1>2, <1>6, <1>7, <1>8, <1>9, <1>10

(* The slave sees a START, a rising or a falling edge.                     *)
LEMMA I2cSlaveSees ==
  ASSUME I2cIInv, NEW w, NEW given, I2c!Edge(w, given), i2c_state # "IDLE", I2cLags
  PROVE  /\ scl_prev' = scl /\ sda_prev' = I2c!sda
         /\ i2c_state = "START" => I2c!SlaveStarts /\ phase /\ sda_drive_low
         /\ i2c_state # "START" => /\ scl <=> (~phase /\ ~firstBit) \/ (i2c_state = "STOP" /\ phase /\ scl)
                                   /\ scl => I2c!SlaveRises
                                   /\ firstBit /\ phase => I2c!SlaveWaits
                                   /\ ~scl /\ ~(firstBit /\ phase) => I2c!SlaveFalls
<1>1. I2c!Slave /\ scl_prev' = scl /\ sda_prev' = I2c!sda
  BY DEF I2c!Edge, I2c!Slave
<1>2. I2cLine /\ I2cSeen
  BY DEF I2cIInv
<1>3. /\ {scl, scl_prev, s_drive_low, sda_drive_low, phase} \subseteq BOOLEAN
           /\ i2c_state \in I2c!States
  BY DEF I2cIInv, I2cTypes, I2c!TypeOK, I2c!I2cTypeOK
<1>4. CASE i2c_state = "START"
  <2>1. phase /\ sda_drive_low /\ scl /\ scl_prev /\ sda_prev
    BY <1>2, <1>3, <1>4 DEF I2cLags, I2cLine, I2cSeen
  <2>2. ~I2c!sda /\ I2c!start_cond
    BY <2>1 DEF I2c!sda, I2c!start_cond
  <2>3. I2c!SlaveStarts
    BY <1>1, <2>1, <2>2 DEF I2c!Slave, I2c!SlaveStops, I2c!SlaveFalls, I2c!SlaveRises,
      I2c!SlaveWaits, I2c!start_cond, I2c!stop_cond
  <2>. QED BY <1>1, <1>4, <2>1, <2>3
<1>5. CASE i2c_state # "START"
  <2>1. scl_prev <=> ~scl /\ ~(firstBit /\ phase)
    BY <1>2, <1>5 DEF I2cSeen
  <2>2. scl <=> (~phase /\ ~firstBit) \/ (i2c_state = "STOP" /\ phase /\ scl)
    BY <1>2, <1>5 DEF I2cLine
  <2>3. firstBit => i2c_state # "STOP"
    BY DEF firstBit
  <2>4. /\ scl => I2c!SlaveRises
        /\ firstBit /\ phase => I2c!SlaveWaits
        /\ ~scl /\ ~(firstBit /\ phase) => I2c!SlaveFalls
    BY <1>1, <1>3, <2>1, <2>2, <2>3 DEF I2c!Slave, I2c!SlaveStarts, I2c!SlaveStops,
      I2c!SlaveFalls, I2c!SlaveRises, I2c!SlaveWaits,
       I2c!start_cond, I2c!stop_cond, I2c!scl_rising, I2c!scl_falling
  <2>. QED BY <1>1, <1>5, <2>2, <2>4
<1>. QED BY <1>4, <1>5

(* What the slave may rely on.                                             *)
LEMMA I2cSlaveTypes ==
  I2cIInv => /\ i2c_state \in I2c!States /\ phase \in BOOLEAN /\ i2c_idx \in I2c!Bits
                  /\ s_idx \in I2c!Bits
             /\ {s_shift, addr_rw, i2c_tx, tx_byte, rx_byte} \subseteq I2c!Byte
             /\ {scl, sda_drive_low, s_drive_low, s_rw, got_write, rw_r, nack} \subseteq BOOLEAN
BY DEF I2cIInv, I2cTypes, I2c!TypeOK, I2c!I2cTypeOK

LEMMA I2cMatches ==
  ASSUME I2cIInv, s_shift = addr_rw PROVE I2c!matched <=> Addressed
BY DEF I2c!matched, Addressed

LEMMA I2cFollowStart ==
  ASSUME I2cIInv, I2cFollows, NEW w \in I2c!Writes, NEW given, I2c!Edge(w, given),
         ~I2c!tick, I2cLags,
         i2c_state = "START"
  PROVE  I2cSettled'
<1>1. I2c!SlaveStarts /\ phase /\ i2c_state' = "START" /\ phase'
  BY I2cCount, I2cSlaveSees
<1>2. s_state' = "ADDR" /\ s_idx' = TopBit /\ ~s_drive_low' /\ ~got_write'
  BY <1>1 DEF I2c!SlaveStarts, TopBit
<1>3. Filled(s_shift', addr_rw', TopBit)
  BY I2cFilledFirst
<1>4. InAddr(TopBit)'
  BY <1>2, <1>3 DEF InAddr, Filled, TopBit
<1>. QED BY <1>1, <1>4 DEF I2cSettled

LEMMA I2cFollowAddr ==
  ASSUME I2cIInv, I2cFollows, NEW w \in I2c!Writes, NEW given, I2c!Edge(w, given),
         ~I2c!tick, I2cLags,
         i2c_state = "ADDR"
  PROVE  I2cSettled'
<1>. USE I2cSizes
<1>1. UNCHANGED <<i2c_state, phase, i2c_idx, addr_rw>>
  BY I2cCount DEF I2c!latchedVars
<1>2. InAddr(IF phase \/ i2c_idx = TopBit THEN i2c_idx ELSE i2c_idx + 1)
  BY DEF I2cIInv, I2cSlave, I2cLagging
<1>3. CASE phase \/ i2c_idx = TopBit
  <2>1. ~scl /\ InAddr(i2c_idx)
    BY <1>2, <1>3, I2cSlaveSees DEF firstBit
  <2>2. I2c!SlaveFalls \/ I2c!SlaveWaits
    BY <2>1, I2cSlaveSees
  <2>3. UNCHANGED <<s_state, s_idx, s_shift, got_write>> /\ ~s_drive_low'
    BY <2>1, <2>2 DEF I2c!SlaveFalls, I2c!SlaveWaits, InAddr
  <2>4. InAddr(i2c_idx)'
    BY <1>1, <2>1, <2>3 DEF InAddr, Filled
  <2>. QED BY <1>1, <2>4 DEF I2cSettled
<1>4. CASE ~phase /\ i2c_idx # TopBit
  <2>1. I2c!SlaveRises /\ InAddr(i2c_idx + 1) /\ i2c_idx + 1 \in I2c!Bits
          /\ i2c_idx \in I2c!Bits /\ i2c_idx + 1 # 0
        /\ s_idx = i2c_idx + 1
    BY <1>2, <1>4, I2cSlaveSees, I2cSlaveTypes DEF firstBit, InAddr
  <2>2. I2c!sda = addr_rw[i2c_idx + 1]
    <3>1. sda_drive_low <=> ~addr_rw[i2c_idx + 1]
      BY <1>4 DEF I2cIInv, I2cLine, I2c!drivesLow
    <3>2. addr_rw[i2c_idx + 1] \in BOOLEAN
      BY <2>1, I2cSlaveTypes DEF I2c!Byte
    <3>. QED BY <2>1, <3>1, <3>2 DEF I2c!sda, InAddr
  <2>3. /\ s_state' = "ADDR" /\ s_idx' = i2c_idx /\ s_shift' = I2c!ShiftIn(s_shift, I2c!sda)
        /\ ~s_drive_low' /\ ~got_write'
    BY <2>1, I2cSlaveTypes DEF I2c!SlaveRises, InAddr, I2c!NextBit
  <2>4. Filled(I2c!ShiftIn(s_shift, I2c!sda), addr_rw, i2c_idx + 1 - 1)
    <3>1. I2c!sda \in BOOLEAN
      BY DEF I2c!sda
    <3>2. Filled(s_shift, addr_rw, i2c_idx + 1)
      BY <2>1 DEF InAddr
    <3>. QED BY <2>1, <2>2, <3>1, <3>2, I2cFilledNext, I2cSlaveTypes
  <2>5. i2c_idx + 1 - 1 = i2c_idx
    BY <2>1
  <2>6. InAddr(i2c_idx)'
    BY <1>1, <2>3, <2>4, <2>5 DEF InAddr, Filled
  <2>. QED BY <1>1, <2>6 DEF I2cSettled
<1>. QED BY <1>3, <1>4, I2cSlaveTypes

LEMMA I2cFollowAddrAck ==
  ASSUME I2cIInv, I2cFollows, NEW w \in I2c!Writes, NEW given, I2c!Edge(w, given),
         ~I2c!tick, I2cLags,
         i2c_state = "ADDR_ACK"
  PROVE  I2cSettled'
<1>. USE I2cSizes
<1>1. UNCHANGED <<i2c_state, phase, i2c_idx, addr_rw, rw_r>>
  BY I2cCount DEF I2c!latchedVars
<1>2. (IF phase THEN InAck(FALSE) ELSE InAddr(0)) /\ ~firstBit
  BY DEF I2cIInv, I2cSlave, I2cLagging, firstBit
<1>3. Addressed' <=> Addressed
  BY <1>1 DEF Addressed
<1>4. CASE phase
  <2>1. I2c!SlaveFalls /\ InAck(FALSE)
    BY <1>2, <1>4, I2cSlaveSees
  <2>2. I2c!matched <=> Addressed
    BY <2>1, I2cMatches DEF InAck
  <2>3. UNCHANGED <<s_state, s_shift, s_rw, got_write>> /\ (s_drive_low' <=> Addressed)
    BY <2>1, <2>2 DEF I2c!SlaveFalls, InAck
  <2>4. InAck(phase /\ Addressed)'
    BY <1>1, <1>3, <1>4, <2>1, <2>3 DEF InAck
  <2>. QED BY <1>1, <2>4 DEF I2cSettled
<1>5. CASE ~phase
  <2>1. I2c!SlaveRises /\ InAddr(0) /\ s_idx = 0
    BY <1>2, <1>5, I2cSlaveSees DEF InAddr
  <2>2. I2c!sda = addr_rw[0] /\ 0 \in I2c!Bits
    <3>1. sda_drive_low <=> ~addr_rw[0]
      BY <1>5 DEF I2cIInv, I2cLine, I2c!drivesLow
    <3>2. addr_rw[0] \in BOOLEAN
      BY I2cSlaveTypes DEF I2c!Byte
    <3>. QED BY <2>1, <3>1, <3>2 DEF I2c!sda, InAddr
  <2>3. /\ s_state' = "ADDR_ACK" /\ s_shift' = I2c!ShiftIn(s_shift, I2c!sda)
             /\ s_rw' = I2c!sda
        /\ ~s_drive_low' /\ ~got_write'
    BY <2>1 DEF I2c!SlaveRises, InAddr, I2c!NextBit
  <2>4. I2c!ShiftIn(s_shift, I2c!sda) = addr_rw
    <3>1. I2c!sda \in BOOLEAN
      BY DEF I2c!sda
    <3>2. Filled(s_shift, addr_rw, 0)
      BY <2>1 DEF InAddr
    <3>. QED BY <2>1, <2>2, <3>1, <3>2, I2cFilledNext, I2cSlaveTypes
  <2>5. s_rw' <=> rw_r
    BY <2>2, <2>3 DEF I2cIInv, I2cLatched
  <2>6. InAck(FALSE)'
    BY <1>1, <2>3, <2>4, <2>5 DEF InAck
  <2>7. ~phase'
    BY <1>1, <1>5
  <2>. QED BY <1>1, <2>6, <2>7 DEF I2cSettled, InAck
<1>. QED BY <1>4, <1>5

LEMMA I2cFollowWrite ==
  ASSUME I2cIInv, I2cFollows, NEW w \in I2c!Writes, NEW given, I2c!Edge(w, given),
         ~I2c!tick, I2cLags,
         i2c_state = "WDATA"
  PROVE  I2cSettled'
<1>. USE I2cSizes
<1>1. UNCHANGED <<i2c_state, phase, i2c_idx, i2c_tx>>
  BY I2cCount DEF I2c!latchedVars
<1>2. /\ IF phase THEN InWrite(i2c_idx, i2c_idx = TopBit)
         ELSE IF i2c_idx = TopBit THEN InAck(TRUE)
         ELSE InWrite(i2c_idx + 1, FALSE)
      /\ ~firstBit
  BY DEF I2cIInv, I2cSlave, I2cLagging, firstBit
<1>3. CASE phase
  <2>1. I2c!SlaveFalls /\ InWrite(i2c_idx, i2c_idx = TopBit)
    BY <1>2, <1>3, I2cSlaveSees
  <2>2. UNCHANGED <<s_state, s_idx, s_shift>> /\ ~s_drive_low'
    BY <2>1 DEF I2c!SlaveFalls, InWrite
  <2>3. InWrite(i2c_idx, FALSE)'
    BY <1>1, <2>1, <2>2 DEF InWrite, Filled
  <2>4. phase'
    BY <1>1, <1>3
  <2>. QED BY <1>1, <2>3, <2>4 DEF I2cSettled, InWrite
<1>4. CASE ~phase /\ i2c_idx = TopBit
  <2>1. I2c!SlaveRises /\ InAck(TRUE)
    BY <1>2, <1>4, I2cSlaveSees
  <2>2. I2c!matched /\ ~s_rw
    <3>1. Addressed /\ ~rw_r
      BY DEF I2cIInv, I2cProgress
    <3>2. I2c!matched
      BY <2>1, <3>1, I2cMatches DEF InAck
    <3>. QED BY <2>1, <3>1, <3>2 DEF InAck
  <2>3. s_state' = "WDATA" /\ s_idx' = TopBit /\ s_drive_low'
    BY <2>1, <2>2 DEF I2c!SlaveRises, InAck
  <2>4. Filled(s_shift', i2c_tx', TopBit)
    BY I2cFilledFirst
  <2>5. InWrite(TopBit, TRUE)'
    BY <1>1, <2>3, <2>4 DEF InWrite, Filled
  <2>6. ~phase' /\ i2c_idx' = TopBit
    BY <1>1, <1>4
  <2>. QED BY <1>1, <2>5, <2>6 DEF I2cSettled, InWrite, TopBit
<1>5. CASE ~phase /\ i2c_idx # TopBit
  <2>1. I2c!SlaveRises /\ InWrite(i2c_idx + 1, FALSE) /\ i2c_idx + 1 \in I2c!Bits
          /\ i2c_idx + 1 # 0
        /\ s_idx = i2c_idx + 1
    BY <1>2, <1>5, I2cSlaveSees, I2cSlaveTypes DEF InWrite
  <2>2. I2c!sda = i2c_tx[i2c_idx + 1]
    <3>1. sda_drive_low <=> ~i2c_tx[i2c_idx + 1]
      BY <1>5 DEF I2cIInv, I2cLine, I2c!drivesLow
    <3>2. i2c_tx[i2c_idx + 1] \in BOOLEAN
      BY <2>1, I2cSlaveTypes DEF I2c!Byte
    <3>. QED BY <2>1, <3>1, <3>2 DEF I2c!sda, InWrite
  <2>3. /\ s_state' = "WDATA" /\ s_idx' = i2c_idx
             /\ s_shift' = I2c!ShiftIn(s_shift, I2c!sda)
        /\ ~s_drive_low'
    BY <2>1, I2cSlaveTypes DEF I2c!SlaveRises, InWrite, I2c!NextBit
  <2>4. Filled(I2c!ShiftIn(s_shift, I2c!sda), i2c_tx, i2c_idx + 1 - 1)
    <3>1. I2c!sda \in BOOLEAN
      BY DEF I2c!sda
    <3>2. Filled(s_shift, i2c_tx, i2c_idx + 1)
      BY <2>1 DEF InWrite
    <3>. QED BY <2>1, <2>2, <3>1, <3>2, I2cFilledNext, I2cSlaveTypes
  <2>5. i2c_idx + 1 - 1 = i2c_idx
    BY I2cSlaveTypes
  <2>6. InWrite(i2c_idx, FALSE)'
    BY <1>1, <2>3, <2>4, <2>5 DEF InWrite, Filled
  <2>7. i2c_idx' # TopBit
    BY <1>1, <1>5
  <2>. QED BY <1>1, <2>6, <2>7 DEF I2cSettled, InWrite, TopBit
<1>. QED BY <1>3, <1>4, <1>5

LEMMA I2cFollowWriteAck ==
  ASSUME I2cIInv, I2cFollows, NEW w \in I2c!Writes, NEW given, I2c!Edge(w, given),
         ~I2c!tick, I2cLags,
         i2c_state = "WDATA_ACK"
  PROVE  I2cSettled'
<1>. USE I2cSizes
<1>1. UNCHANGED <<i2c_state, phase, i2c_tx>>
  BY I2cCount DEF I2c!latchedVars
<1>2. (IF phase THEN InWriteAck ELSE InWrite(0, FALSE)) /\ ~firstBit
  BY DEF I2cIInv, I2cSlave, I2cLagging, firstBit
<1>3. CASE phase
  <2>1. I2c!SlaveFalls /\ InWriteAck
    BY <1>2, <1>3, I2cSlaveSees
  <2>2. s_state' = "WAIT_STOP" /\ rx_byte' = s_shift /\ got_write' /\ s_drive_low'
    BY <2>1 DEF I2c!SlaveFalls, InWriteAck
  <2>3. WaitsStop(TRUE)'
    BY <1>1, <2>1, <2>2 DEF InWriteAck, WaitsStop
  <2>4. phase'
    BY <1>1, <1>3
  <2>. QED BY <1>1, <2>3, <2>4 DEF I2cSettled
<1>4. CASE ~phase
  <2>1. I2c!SlaveRises /\ InWrite(0, FALSE) /\ s_idx = 0 /\ 0 \in I2c!Bits
    BY <1>2, <1>4, I2cSlaveSees DEF InWrite
  <2>2. I2c!sda = i2c_tx[0]
    <3>1. sda_drive_low <=> ~i2c_tx[0]
      BY <1>4 DEF I2cIInv, I2cLine, I2c!drivesLow
    <3>2. i2c_tx[0] \in BOOLEAN
      BY <2>1, I2cSlaveTypes DEF I2c!Byte
    <3>. QED BY <2>1, <3>1, <3>2 DEF I2c!sda, InWrite
  <2>3. s_state' = "WDATA_ACK" /\ s_shift' = I2c!ShiftIn(s_shift, I2c!sda) /\ ~s_drive_low'
    BY <2>1 DEF I2c!SlaveRises, InWrite, I2c!NextBit
  <2>4. I2c!ShiftIn(s_shift, I2c!sda) = i2c_tx
    <3>1. I2c!sda \in BOOLEAN
      BY DEF I2c!sda
    <3>2. Filled(s_shift, i2c_tx, 0)
      BY <2>1 DEF InWrite
    <3>. QED BY <2>1, <2>2, <3>1, <3>2, I2cFilledNext, I2cSlaveTypes
  <2>5. InWriteAck'
    BY <1>1, <2>3, <2>4 DEF InWriteAck
  <2>6. ~phase'
    BY <1>1, <1>4
  <2>. QED BY <1>1, <2>5, <2>6 DEF I2cSettled
<1>. QED BY <1>3, <1>4

LEMMA I2cFollowRead ==
  ASSUME I2cIInv, I2cFollows, NEW w \in I2c!Writes, NEW given, I2c!Edge(w, given),
         ~I2c!tick, I2cLags,
         i2c_state = "RDATA"
  PROVE  I2cSettled'
<1>. USE I2cSizes
<1>1. UNCHANGED <<i2c_state, phase, i2c_idx, tx_byte>>
  BY I2cCount
<1>2. /\ IF phase THEN InRead(i2c_idx, PullsBefore(i2c_idx))
         ELSE IF i2c_idx = TopBit THEN InAck(TRUE)
         ELSE InRead(i2c_idx + 1, ~tx_byte[i2c_idx + 1])
      /\ ~firstBit /\ i2c_idx \in I2c!Bits
  BY I2cSlaveTypes DEF I2cIInv, I2cSlave, I2cLagging, firstBit
<1>3. CASE phase
  <2>1. I2c!SlaveFalls /\ InRead(i2c_idx, PullsBefore(i2c_idx))
    BY <1>2, <1>3, I2cSlaveSees
  <2>2. s_shift[TopBit] = tx_byte[i2c_idx]
    <3>1. TopBit \in I2c!Bits /\ TopBit + i2c_idx >= TopBit
            /\ TopBit + i2c_idx - TopBit = i2c_idx
      BY <1>2
    <3>. QED BY <2>1, <3>1 DEF InRead, SendsFrom
  <2>3. UNCHANGED <<s_state, s_idx, s_shift>> /\ (s_drive_low' <=> ~tx_byte[i2c_idx])
    BY <2>1, <2>2 DEF I2c!SlaveFalls, InRead, TopBit
  <2>4. InRead(i2c_idx, ~tx_byte[i2c_idx])'
    BY <1>1, <2>1, <2>3 DEF InRead, SendsFrom, TopBit
  <2>5. phase'
    BY <1>1, <1>3
  <2>. QED BY <1>1, <2>4, <2>5 DEF I2cSettled
<1>4. CASE ~phase /\ i2c_idx = TopBit
  <2>1. I2c!SlaveRises /\ InAck(TRUE)
    BY <1>2, <1>4, I2cSlaveSees
  <2>2. I2c!matched /\ s_rw
    <3>1. Addressed /\ rw_r
      BY DEF I2cIInv, I2cProgress
    <3>2. I2c!matched
      BY <2>1, <3>1, I2cMatches DEF InAck
    <3>. QED BY <2>1, <3>1, <3>2 DEF InAck
  <2>3. s_state' = "RDATA" /\ s_idx' = TopBit /\ s_shift' = tx_byte /\ s_drive_low'
    BY <2>1, <2>2 DEF I2c!SlaveRises, InAck
  <2>4. SendsFrom(s_shift, TopBit)'
    <3>1. \A j \in I2c!Bits : j + TopBit - TopBit = j
      OBVIOUS
    <3>. QED BY <1>1, <2>3, <3>1 DEF SendsFrom, TopBit
  <2>5. ~phase' /\ i2c_idx' = TopBit
    BY <1>1, <1>4
  <2>6. InRead(i2c_idx, PullsBefore(i2c_idx))'
    BY <2>3, <2>4, <2>5 DEF InRead, PullsBefore, TopBit
  <2>. QED BY <1>1, <2>5, <2>6 DEF I2cSettled
<1>5. CASE ~phase /\ i2c_idx # TopBit
  <2>1. I2c!SlaveRises /\ InRead(i2c_idx + 1, ~tx_byte[i2c_idx + 1])
          /\ i2c_idx + 1 \in I2c!Bits
        /\ i2c_idx + 1 # 0 /\ s_idx = i2c_idx + 1
    <3>1. InRead(i2c_idx + 1, ~tx_byte[i2c_idx + 1])
      BY <1>2, <1>5
    <3>2. I2c!SlaveRises
      BY <1>2, <1>5, I2cSlaveSees
    <3>3. i2c_idx + 1 \in I2c!Bits /\ i2c_idx + 1 # 0
      BY <1>2, <1>5
    <3>. QED BY <3>1, <3>2, <3>3 DEF InRead
  <2>2. /\ s_state' = "RDATA" /\ s_idx' = i2c_idx /\ s_shift' = I2c!ShiftIn(s_shift, FALSE)
        /\ (s_drive_low' <=> ~tx_byte[i2c_idx + 1])
    <3>1. s_state = "RDATA" /\ (s_drive_low <=> ~tx_byte[i2c_idx + 1]) /\ s_idx # 0
            /\ s_idx - 1 = i2c_idx
      BY <1>2, <2>1 DEF InRead
    <3>. QED BY <2>1, <3>1 DEF I2c!SlaveRises, I2c!NextBit
  <2>3. i2c_idx + 1 - 1 = i2c_idx
    BY <1>2
  <2>4. SendsFrom(I2c!ShiftIn(s_shift, FALSE), i2c_idx)
    <3>1. SendsFrom(s_shift, i2c_idx + 1)
      BY <2>1 DEF InRead
    <3>2. PICK k \in I2c!Bits : k = i2c_idx + 1 /\ k # 0
      BY <2>1
    <3>3. s_shift \in I2c!Byte
      BY I2cSlaveTypes
    <3>4. SendsFrom(I2c!ShiftIn(s_shift, FALSE), k - 1)
      BY <3>1, <3>2, <3>3, I2cSendsNext
    <3>5. k - 1 = i2c_idx
      BY <1>2, <3>2
    <3>. QED BY <3>4, <3>5
  <2>5. SendsFrom(s_shift, i2c_idx)'
    BY <1>1, <2>2, <2>3, <2>4 DEF SendsFrom
  <2>6. PullsBefore(i2c_idx)' <=> ~tx_byte[i2c_idx + 1]
    BY <1>1, <1>5 DEF PullsBefore, TopBit
  <2>7. InRead(i2c_idx, PullsBefore(i2c_idx))'
    BY <1>1, <2>2, <2>5, <2>6 DEF InRead, TopBit
  <2>8. ~phase'
    BY <1>1, <1>5
  <2>. QED BY <1>1, <2>7, <2>8 DEF I2cSettled
<1>. QED BY <1>3, <1>4, <1>5

LEMMA I2cFollowReadAck ==
  ASSUME I2cIInv, I2cFollows, NEW w \in I2c!Writes, NEW given, I2c!Edge(w, given),
         ~I2c!tick, I2cLags,
         i2c_state = "RDATA_ACK"
  PROVE  I2cSettled'
<1>. USE I2cSizes
<1>1. UNCHANGED <<i2c_state, phase, tx_byte>>
  BY I2cCount
<1>2. /\ IF phase THEN InReadAck(~tx_byte[0]) ELSE InRead(0, ~tx_byte[0])
      /\ ~firstBit
  BY DEF I2cIInv, I2cSlave, I2cLagging, firstBit
<1>3. CASE phase
  <2>1. I2c!SlaveFalls /\ InReadAck(~tx_byte[0])
    BY <1>2, <1>3, I2cSlaveSees
  <2>2. s_state' = "RDATA_ACK" /\ ~s_drive_low' /\ phase'
    BY <1>1, <1>3, <2>1 DEF I2c!SlaveFalls, InReadAck
  <2>. QED BY <1>1, <2>2 DEF I2cSettled, InReadAck
<1>4. CASE ~phase
  <2>1. I2c!SlaveRises /\ InRead(0, ~tx_byte[0])
    BY <1>2, <1>4, I2cSlaveSees
  <2>2. s_state' = "RDATA_ACK" /\ (s_drive_low' <=> ~tx_byte[0]) /\ ~phase'
    BY <1>1, <1>4, <2>1 DEF I2c!SlaveRises, InRead, I2c!NextBit
  <2>. QED BY <1>1, <2>2 DEF I2cSettled, InReadAck
<1>. QED BY <1>3, <1>4

LEMMA I2cFollowStop ==
  ASSUME I2cIInv, I2cFollows, NEW w \in I2c!Writes, NEW given, I2c!Edge(w, given),
         ~I2c!tick, I2cLags,
         i2c_state = "STOP"
  PROVE  I2cSettled'
<1>. USE I2cSizes
<1>1. UNCHANGED <<i2c_state, phase, addr_rw, i2c_tx, rw_r>>
  BY I2cCount DEF I2c!latchedVars
<1>2. /\ IF phase THEN SlaveDone(~scl)
         ELSE IF Addressed THEN SlaveDone(TRUE) ELSE InAck(FALSE)
      /\ ~firstBit
  BY DEF I2cIInv, I2cSlave, I2cLagging, firstBit
<1>3. Addressed' <=> Addressed
  BY <1>1 DEF Addressed
<1>4. CASE phase
  <2>1. /\ scl => SlaveDone(FALSE) /\ I2c!SlaveRises
        /\ ~scl => SlaveDone(TRUE) /\ I2c!SlaveFalls
    <3>1. SlaveDone(~scl)
      BY <1>2, <1>4
    <3>. QED BY <1>2, <3>1, I2cSlaveSees DEF SlaveDone, WaitsStop, InReadAck
  <2>4. ASSUME scl PROVE SlaveDone(FALSE)'
    <3>1. CASE ~Addressed
      <4>1. s_state' = "IDLE" /\ ~s_drive_low' /\ ~got_write'
        <5>1. s_state = "IDLE" /\ ~s_drive_low /\ ~got_write
          BY <2>1, <2>4, <3>1 DEF SlaveDone, Listens
        <5>2. s_state' = "IDLE"
          BY <2>1, <2>4, <5>1 DEF I2c!SlaveRises
        <5>3. ~s_drive_low' /\ got_write' = got_write
          BY <2>1, <2>4, <5>1 DEF I2c!SlaveRises
        <5>. QED BY <5>1, <5>2, <5>3
      <4>. QED BY <1>3, <3>1, <4>1 DEF SlaveDone, Listens
    <3>2. CASE Addressed /\ rw_r
      <4>1. s_state' = "RDATA_ACK" /\ ~s_drive_low'
        BY <2>1, <2>4, <3>2 DEF SlaveDone, InReadAck, I2c!SlaveRises
      <4>. QED BY <1>1, <1>3, <3>2, <4>1 DEF SlaveDone, InReadAck
    <3>3. CASE Addressed /\ ~rw_r
      <4>1. s_state' = "WAIT_STOP" /\ ~s_drive_low' /\ got_write' /\ rx_byte' = i2c_tx
        <5>1. s_state = "WAIT_STOP" /\ ~s_drive_low /\ got_write /\ rx_byte = i2c_tx
          BY <2>1, <2>4, <3>3 DEF SlaveDone, WaitsStop
        <5>. QED BY <2>1, <2>4, <5>1 DEF I2c!SlaveRises
      <4>. QED BY <1>1, <1>3, <3>3, <4>1 DEF SlaveDone, WaitsStop
    <3>. QED BY <3>1, <3>2, <3>3
  <2>5. ASSUME ~scl PROVE SlaveDone(FALSE)'
    <3>1. CASE ~Addressed
      <4>1. s_state' = "IDLE" /\ ~s_drive_low' /\ ~got_write'
        BY <2>1, <2>5, <3>1 DEF SlaveDone, Listens, I2c!SlaveFalls
      <4>. QED BY <1>3, <3>1, <4>1 DEF SlaveDone, Listens
    <3>2. CASE Addressed /\ rw_r
      <4>1. s_state' = "RDATA_ACK" /\ ~s_drive_low'
        BY <2>1, <2>5, <3>2 DEF SlaveDone, InReadAck, I2c!SlaveFalls
      <4>. QED BY <1>1, <1>3, <3>2, <4>1 DEF SlaveDone, InReadAck
    <3>3. CASE Addressed /\ ~rw_r
      <4>1. s_state' = "WAIT_STOP" /\ ~s_drive_low' /\ got_write' /\ rx_byte' = i2c_tx
        BY <2>1, <2>5, <3>3 DEF SlaveDone, WaitsStop, I2c!SlaveFalls
      <4>. QED BY <1>1, <1>3, <3>3, <4>1 DEF SlaveDone, WaitsStop
    <3>. QED BY <3>1, <3>2, <3>3
  <2>2. SlaveDone(FALSE)'
    BY <2>4, <2>5
  <2>3. phase'
    BY <1>1, <1>4
  <2>. QED BY <1>1, <2>2, <2>3 DEF I2cSettled, SlaveDone, WaitsStop, InReadAck
<1>5. CASE ~phase
  <2>1. I2c!SlaveRises /\ (IF Addressed THEN SlaveDone(TRUE) ELSE InAck(FALSE))
    BY <1>2, <1>5, I2cSlaveSees
  <2>2. SlaveDone(TRUE)'
    <3>1. CASE ~Addressed
      <4>1. ~I2c!matched
        BY <2>1, <3>1, I2cMatches DEF InAck
      <4>2. s_state' = "IDLE" /\ ~s_drive_low' /\ ~got_write'
        BY <2>1, <3>1, <4>1 DEF InAck, I2c!SlaveRises
      <4>. QED BY <1>3, <3>1, <4>2 DEF SlaveDone, Listens
    <3>2. CASE Addressed /\ rw_r
      <4>1. s_state' = "RDATA_ACK" /\ ~s_drive_low'
        BY <2>1, <3>2 DEF SlaveDone, InReadAck, I2c!SlaveRises
      <4>. QED BY <1>1, <1>3, <3>2, <4>1 DEF SlaveDone, InReadAck
    <3>3. CASE Addressed /\ ~rw_r
      <4>1. s_state' = "WAIT_STOP" /\ s_drive_low' /\ got_write' /\ rx_byte' = i2c_tx
        BY <2>1, <3>3 DEF SlaveDone, WaitsStop, I2c!SlaveRises
      <4>. QED BY <1>1, <1>3, <3>3, <4>1 DEF SlaveDone, WaitsStop
    <3>. QED BY <3>1, <3>2, <3>3
  <2>3. ~phase'
    BY <1>1, <1>5
  <2>. QED BY <1>1, <2>2, <2>3 DEF I2cSettled, SlaveDone, WaitsStop, InReadAck
<1>. QED BY <1>4, <1>5

I2cParts == I2cStatus /\ I2cLine /\ I2cSeen /\ I2cLatched /\ I2cProgress /\ I2cSlave

LEMMA I2cIdleQuiet ==
  ASSUME I2cIInv PROVE s_state = "IDLE" => ~s_drive_low
<1>1. i2c_state \in I2c!States /\ (IF I2cLags THEN I2cLagging ELSE I2cSettled)
  BY I2cSlaveTypes DEF I2cIInv, I2cSlave
<1>2. CASE I2cLags
  BY <1>1, <1>2 DEF I2cLagging, I2c!States, Listens, InAddr, InAck, InWrite, InWriteAck,
    WaitsStop, InRead,
     InReadAck, SlaveDone
<1>3. CASE ~I2cLags
  BY <1>1, <1>3 DEF I2cSettled, I2c!States, Listens, InAddr, InAck, InWrite, InWriteAck,
    WaitsStop, InRead,
     InReadAck, SlaveDone
<1>. QED BY <1>2, <1>3

(* Between two phases the slave follows, or waits.                         *)
LEMMA I2cCountStep ==
  ASSUME I2cIInv, I2cFollows, NEW w \in I2c!Writes, NEW given, I2c!Edge(w, given),
         i2c_state # "IDLE", ~I2c!tick
  PROVE  I2cParts'
<1>1. /\ UNCHANGED <<i2c_state, phase, i2c_idx, scl, sda_drive_low, addr_rw, i2c_tx, rw_r,
           tx_byte>>
      /\ ~I2cLags' /\ I2cStatus' /\ I2cLine' /\ I2cLatched' /\ I2cProgress'
  BY I2cCount DEF I2c!latchedVars
<1>2. CASE I2cLags
  <2>1. I2cSettled'
    BY <1>2, I2cSlaveTypes, I2cFollowStart, I2cFollowAddr, I2cFollowAddrAck, I2cFollowWrite,
       I2cFollowWriteAck, I2cFollowRead, I2cFollowReadAck, I2cFollowStop DEF I2c!States
  <2>2. scl_prev' = scl /\ sda_prev' = I2c!sda
    BY <1>2, I2cSlaveSees
  <2>3. ASSUME scl PROVE s_drive_low' <=> s_drive_low
    <3>1. CASE i2c_state = "START"
      <4>1. Listens
        BY <1>2, <3>1 DEF I2cIInv, I2cSlave, I2cLagging
      <4>2. I2c!SlaveStarts
        BY <1>2, <3>1, I2cSlaveSees
      <4>. QED BY <4>1, <4>2 DEF Listens, I2c!SlaveStarts
    <3>2. CASE i2c_state # "START"
      <4>1. I2c!SlaveRises
        BY <1>2, <2>3, <3>2, I2cSlaveSees
      <4>. QED BY <4>1, I2cIdleQuiet, I2cSlaveTypes DEF I2c!SlaveRises
    <3>. QED BY <3>1, <3>2
  <2>4. I2cSeen'
    BY <1>1, <2>2, <2>3 DEF I2cSeen, I2c!sda
  <2>. QED BY <1>1, <2>1, <2>4 DEF I2cParts, I2cSlave
<1>3. CASE ~I2cLags
  <2>1. /\ UNCHANGED <<s_state, s_idx, s_shift, s_rw, s_drive_low, rx_byte, got_write>>
        /\ scl_prev' = scl /\ sda_prev' = I2c!sda
    BY <1>3, I2cSlaveStill
  <2>2. I2cSettled
    BY <1>3 DEF I2cIInv, I2cSlave
  <2>3. I2cSettled'
    BY <1>1, <2>1, <2>2, I2cSlaveTypes DEF I2cSettled, Addressed, PullsBefore, Listens,
      InAddr, InAck, InWrite,
       InWriteAck, WaitsStop, InRead, InReadAck, SlaveDone, Filled, SendsFrom, TopBit
  <2>4. I2cSeen'
    BY <1>1, <2>1 DEF I2cSeen, I2c!sda
  <2>. QED BY <1>1, <2>3, <2>4 DEF I2cParts, I2cSlave
<1>. QED BY <1>2, <1>3

(* The master rests, or starts a transfer; the slave may still have to see *)
(* the STOP of the last.                                                   *)
LEMMA I2cRestStep ==
  ASSUME I2cIInv, I2cFollows, NEW w \in I2c!Writes, NEW given, I2c!Edge(w, given),
         i2c_state = "IDLE"
  PROVE  I2cParts'
<1>. USE I2cSizes
<1>1. I2c!Idle(w)
  BY I2cMasterStep
<1>2. /\ scl' = TRUE /\ sda_drive_low' = FALSE /\ i2c_irq' = FALSE /\ ~i2c_busy
      /\ (I2c!do_start(w) => /\ i2c_state' = "START" /\ phase' = FALSE
                             /\ i2c_div_cnt' = 0 /\ i2c_busy' /\ ~nack'
                             /\ i2c_sent' = i2c_txdata /\ to' = addr_reg)
      /\ (~I2c!do_start(w) => i2c_state' = "IDLE" /\ ~i2c_busy')
  BY <1>1 DEF I2c!Idle, I2c!Edge, I2cIInv, I2cStatus
<1>3. scl /\ ~sda_drive_low
  BY DEF I2cIInv, I2cLine, firstBit
<1>4. s_state' = "IDLE" /\ ~s_drive_low' /\ scl_prev' = scl /\ sda_prev' /\ ~I2cLags'
  <2>1. CASE I2cLags
    <3>1. SlaveDone(FALSE) /\ scl_prev /\ ~sda_prev
      BY <2>1 DEF I2cIInv, I2cSlave, I2cLagging, I2cSeen
    <3>2. ~s_drive_low
      BY <3>1 DEF SlaveDone, Listens, InReadAck, WaitsStop
    <3>3. I2c!sda /\ I2c!stop_cond /\ I2c!Slave
      BY <1>3, <3>1, <3>2 DEF I2c!sda, I2c!stop_cond, I2c!Edge
    <3>4. I2c!SlaveStops
      BY <1>3, <3>1, <3>3 DEF I2c!Slave, I2c!SlaveStarts, I2c!SlaveFalls, I2c!SlaveRises,
        I2c!SlaveWaits, I2c!start_cond, I2c!stop_cond
    <3>5. ~I2cLags'
      BY <1>2 DEF I2cLags
    <3>. QED BY <3>3, <3>4, <3>5 DEF I2c!SlaveStops, I2c!Slave
  <2>2. CASE ~I2cLags
    <3>1. Listens
      BY <2>2 DEF I2cIInv, I2cSlave, I2cSettled
    <3>2. I2c!sda
      BY <1>3, <3>1 DEF I2c!sda, Listens
    <3>3. ~I2cLags'
      BY <1>2 DEF I2cLags
    <3>. QED BY <2>2, <3>1, <3>2, <3>3, I2cSlaveStill DEF Listens
  <2>. QED BY <2>1, <2>2
<1>5. i2c_half' = 0
  BY <1>2 DEF I2c!Edge
<1>6. i2c_divider' \in Nat /\ i2c_divider' >= 2
  BY I2cRegs DEF I2c!Div
<1>7. I2cStatus'
  BY <1>2, <1>5, <1>6 DEF I2cStatus
<1>8. I2cLine'
  BY <1>2 DEF I2cLine, I2c!drivesLow, firstBit
<1>9. I2cSeen'
  BY <1>2, <1>3, <1>4 DEF I2cSeen, I2c!sda
<1>10. I2cLatched'
  <2>1. CASE I2c!do_start(w)
    <3>1. /\ i2c_tx' = i2c_txdata /\ rw_r' = w.rw
          /\ addr_rw' = [i \in I2c!Bits |-> IF i = 0 THEN w.rw ELSE addr_reg[i]]
      BY <1>1, <2>1 DEF I2c!Idle
    <3>2. 0 \in I2c!Bits
      OBVIOUS
    <3>3. addr_rw'[0] = w.rw /\ \A i \in I2c!Bits \ {0} : addr_rw'[i] = addr_reg[i]
      BY <3>1, <3>2
    <3>. QED BY <1>2, <2>1, <3>1, <3>3 DEF I2cLatched
  <2>2. CASE ~I2c!do_start(w)
    BY <1>2, <2>2 DEF I2cLatched
  <2>. QED BY <2>1, <2>2
<1>11. I2cProgress'
  BY <1>2 DEF I2cProgress
<1>12. I2cSlave'
  BY <1>2, <1>4 DEF I2cSlave, I2cSettled, Listens
<1>. QED BY <1>7, <1>8, <1>9, <1>10, <1>11, <1>12 DEF I2cParts

(* The master moves; the slave has followed its last move.                 *)
LEMMA I2cTick ==
  ASSUME I2cIInv, I2cFollows, NEW w \in I2c!Writes, NEW given, I2c!Edge(w, given),
         i2c_state # "IDLE", I2c!tick
  PROVE  /\ ~I2cLags /\ I2cSettled
         /\ UNCHANGED <<s_state, s_idx, s_shift, s_rw, s_drive_low, rx_byte, got_write>>
         /\ scl_prev' = scl /\ sda_prev' = I2c!sda
         /\ UNCHANGED <<addr_rw, i2c_tx, rw_r, tx_byte, to, i2c_sent>>
         /\ I2c!StartCondition \/ I2c!BitLow \/ I2c!BitHigh(I2c!sda) \/ I2c!StopCondition
         /\ (nack' <=> I2c!unanswered(I2c!sda) \/ nack) /\ (i2c_irq' <=> I2c!finishes)
         /\ (Addressed' <=> Addressed) /\ I2cLatched'
         /\ (i2c_state' = "IDLE" <=> I2c!finishes) => I2cStatus'
         /\ I2cLags' <=> IF i2c_state' = "IDLE" THEN i2c_irq' ELSE ~(i2c_state' = "START" /\ ~phase')
<1>. USE I2cSizes
<1>1. /\ I2c!Tick(w, I2c!sda) /\ i2c_busy /\ ~I2c!do_start(w) /\ ~I2c!clears(w, "nack")
      /\ UNCHANGED <<tx_byte, to, i2c_sent>>
  BY I2cMasterStep
<1>2. /\ i2c_div_cnt \in Nat /\ i2c_divider \in Nat /\ i2c_divider >= 2
           /\ i2c_divider' = i2c_divider
  BY <1>1, I2cRegs DEF I2cIInv, I2cTypes, I2c!TypeOK, I2c!I2cTypeOK, I2cStatus, I2c!Div
<1>3. ~I2cLags
  BY <1>2 DEF I2cLags, I2c!tick
<1>4. I2cSettled
  BY <1>3 DEF I2cIInv, I2cSlave
<1>5. i2c_div_cnt' = 0 /\ i2c_half' = 0
  BY <1>1 DEF I2c!Tick, I2c!Edge
<1>6. UNCHANGED <<addr_rw, i2c_tx,
        rw_r>> /\ (I2c!StartCondition \/ I2c!BitLow \/ I2c!BitHigh(I2c!sda) \/ I2c!StopCondition)
  BY <1>1 DEF I2c!Tick, I2c!latchedVars
<1>7. /\ (nack' <=> I2c!unanswered(I2c!sda) \/ nack) /\ (i2c_irq' <=> I2c!finishes)
      /\ (i2c_busy' <=> ~I2c!finishes) /\ (I2c!finishes => i2c_done')
  BY <1>1 DEF I2c!Tick, I2c!Status
<1>8. Addressed' <=> Addressed
  BY <1>6 DEF Addressed
<1>9. I2cLatched'
  BY <1>1, <1>6 DEF I2cIInv, I2cLatched
<1>10. (i2c_state' = "IDLE" <=> I2c!finishes) => I2cStatus'
  BY <1>2, <1>5, <1>7 DEF I2cStatus
<1>11. I2cLags' <=> IF i2c_state' = "IDLE" THEN i2c_irq' ELSE ~(i2c_state' = "START" /\ ~phase')
  BY <1>5 DEF I2cLags
<1>. QED BY <1>1, <1>3, <1>4, <1>6, <1>7, <1>8, <1>9, <1>10, <1>11, I2cSlaveStill

(* SDA falls; or SCL follows.                                              *)
LEMMA I2cStartTick ==
  ASSUME I2cIInv, I2cFollows, NEW w \in I2c!Writes, NEW given, I2c!Edge(w, given),
         i2c_state = "START", I2c!tick
  PROVE  I2cParts'
<1>. USE I2cSizes
<1>1. /\ I2c!StartCondition /\ ~I2c!finishes /\ ~I2c!unanswered(I2c!sda)
  BY I2cTick DEF I2c!StartCondition, I2c!BitLow, I2c!BitHigh, I2c!StopCondition,
    I2c!finishes, I2c!unanswered
<1>2. ~i2c_irq' /\ (nack' <=> nack) /\ I2cLatched' /\ I2cSettled
  BY <1>1, I2cTick
<1>3. scl /\ (sda_drive_low <=> phase) /\ phase \in BOOLEAN /\ ~nack
  BY I2cSlaveTypes DEF I2cIInv, I2cLine, firstBit, I2c!drivesLow, I2cProgress
<1>4. CASE ~phase
  <2>1. i2c_state' = "START" /\ phase' /\ sda_drive_low' /\ scl' = scl
    BY <1>1, <1>4 DEF I2c!StartCondition
  <2>2. Listens /\ Listens'
    BY <1>2, <1>4, I2cTick DEF I2cSettled, Listens
  <2>3. I2cLags' /\ I2cStatus' /\ I2cSlave'
    BY <1>1, <2>1, <2>2, I2cTick DEF I2cSlave, I2cLagging
  <2>4. I2cLine'
    BY <1>3, <2>1 DEF I2cLine, I2c!drivesLow, firstBit
  <2>5. I2cSeen'
    BY <1>3, <1>4, <2>1, <2>2, <2>3, I2cTick DEF I2cSeen, I2c!sda, Listens
  <2>6. I2cProgress'
    BY <1>2, <1>3, <2>1 DEF I2cProgress
  <2>. QED BY <1>2, <2>3, <2>4, <2>5, <2>6 DEF I2cParts
<1>5. CASE phase
  <2>1. i2c_state' = "ADDR" /\ ~phase' /\ sda_drive_low' /\ ~scl' /\ i2c_idx' = TopBit
    BY <1>1, <1>3, <1>5 DEF I2c!StartCondition, TopBit
  <2>2. InAddr(TopBit)
    BY <1>2, <1>5 DEF I2cSettled
  <2>3. InAddr(TopBit)'
    BY <2>2, I2cTick DEF InAddr, Filled, TopBit
  <2>4. I2cLags' /\ I2cStatus' /\ I2cSlave'
    <3>1. I2cLags' /\ I2cStatus'
      BY <1>1, <2>1, I2cTick
    <3>. QED BY <2>1, <2>3, <3>1 DEF I2cSlave, I2cLagging, InAddr, TopBit
  <2>5. I2cLine'
    BY <2>1 DEF I2cLine, I2c!drivesLow, firstBit, TopBit
  <2>6. I2cSeen'
    BY <1>3, <2>1, <2>4, I2cTick DEF I2cSeen
  <2>7. I2cProgress'
    BY <1>2, <1>3, <2>1 DEF I2cProgress
  <2>. QED BY <1>2, <2>4, <2>5, <2>6, <2>7 DEF I2cParts
<1>. QED BY <1>3, <1>4, <1>5

(* SCL falls, and SDA takes its next level.                                *)
LEMMA I2cLowTick ==
  ASSUME I2cIInv, I2cFollows, NEW w \in I2c!Writes, NEW given, I2c!Edge(w, given),
         i2c_state \notin {"IDLE", "START"}, ~phase, I2c!tick
  PROVE  I2cParts'
<1>. USE I2cSizes
<1>1. I2c!BitLow /\ ~I2c!finishes /\ ~I2c!unanswered(I2c!sda)
  BY I2cTick DEF I2c!StartCondition, I2c!BitLow, I2c!BitHigh, I2c!StopCondition,
    I2c!finishes, I2c!unanswered
<1>2. ~i2c_irq' /\ (nack' <=> nack) /\ I2cLatched' /\ I2cSettled
  BY <1>1, I2cTick
<1>3. /\ ~scl' /\ sda_drive_low' = I2c!drivesLow /\ phase'
           /\ UNCHANGED <<i2c_state, i2c_idx, i2c_rx, i2c_rxdata>>
  BY <1>1 DEF I2c!BitLow
<1>4. I2cLags' /\ I2cStatus'
  BY <1>1, <1>3, I2cTick
<1>5. I2c!drivesLow' <=> I2c!drivesLow
  BY <1>3, I2cTick DEF I2c!drivesLow
<1>6. I2cLine'
  BY <1>3, <1>5 DEF I2cLine
<1>7. scl <=> ~firstBit
  BY DEF I2cIInv, I2cLine
<1>8. I2cSeen'
  BY <1>3, <1>4, <1>7, I2cTick DEF I2cSeen, firstBit, TopBit
<1>9. I2cProgress'
  BY <1>2, <1>3, I2cTick DEF I2cIInv, I2cProgress, Filled
<1>10. I2cLagging'
  <2>1. UNCHANGED <<s_state, s_idx, s_shift, s_rw, s_drive_low, rx_byte, got_write, addr_rw,
          i2c_tx,
                    rw_r, tx_byte>> /\ (Addressed' <=> Addressed)
    BY I2cTick
  <2>2. CASE i2c_state \in {"ADDR", "ADDR_ACK"}
    BY <1>2, <1>3, <2>1, <2>2 DEF I2cSettled, I2cLagging, InAddr, InAck, Filled, TopBit
  <2>3. CASE i2c_state \in {"WDATA", "WDATA_ACK"}
    BY <1>2, <1>3, <2>1, <2>3 DEF I2cSettled, I2cLagging, InWrite, InWriteAck, Filled,
      TopBit
  <2>4. CASE i2c_state \in {"RDATA", "RDATA_ACK"}
    BY <1>2, <1>3, <2>1, <2>4 DEF I2cSettled, I2cLagging, InRead, InReadAck, PullsBefore,
      SendsFrom, TopBit
  <2>5. CASE i2c_state = "STOP"
    <3>1. SlaveDone(TRUE)
      BY <1>2, <2>5 DEF I2cSettled, SlaveDone, WaitsStop, InReadAck
    <3>2. SlaveDone(TRUE)'
      BY <2>1, <3>1 DEF SlaveDone, WaitsStop, InReadAck, Listens
    <3>. QED BY <1>3, <2>5, <3>2 DEF I2cLagging, SlaveDone, WaitsStop, InReadAck
  <2>. QED BY <2>2, <2>3, <2>4, <2>5, I2cSlaveTypes DEF I2c!States
<1>. QED BY <1>2, <1>4, <1>6, <1>8, <1>9, <1>10 DEF I2cParts, I2cSlave

(* SCL rises and falls again, and SDA rises with the STOP.                 *)
LEMMA I2cStopTick ==
  ASSUME I2cIInv, I2cFollows, NEW w \in I2c!Writes, NEW given, I2c!Edge(w, given),
         i2c_state = "STOP", phase, I2c!tick
  PROVE  I2cParts'
<1>. USE I2cSizes
<1>1. /\ I2c!StopCondition /\ ~I2c!unanswered(I2c!sda) /\ (I2c!finishes <=> scl)
  BY I2cTick DEF I2c!StartCondition, I2c!BitLow, I2c!BitHigh, I2c!StopCondition,
    I2c!finishes, I2c!unanswered
<1>2. (i2c_irq' <=> scl) /\ (nack' <=> nack) /\ I2cLatched' /\ I2cSettled
  BY <1>1, I2cTick
<1>3. sda_drive_low
  BY DEF I2cIInv, I2cLine, I2c!drivesLow
<1>4. SlaveDone(FALSE)'
  <2>1. UNCHANGED <<s_state, s_idx, s_shift, s_rw, s_drive_low, rx_byte, got_write, i2c_tx,
          rw_r>>
        /\ (Addressed' <=> Addressed)
    BY I2cTick
  <2>. QED BY <1>2, <2>1 DEF I2cSettled, SlaveDone, WaitsStop, InReadAck, Listens
<1>5. scl' /\ UNCHANGED <<phase, i2c_idx, i2c_rx, i2c_rxdata>>
  BY <1>1 DEF I2c!StopCondition
<1>6. I2cProgress'
  <2>1. i2c_state' \in {"STOP", "IDLE"}
    BY <1>1 DEF I2c!StopCondition
  <2>. QED BY <1>2, <1>5, <2>1, I2cTick DEF I2cIInv, I2cProgress
<1>7. CASE scl
  <2>1. i2c_state' = "IDLE" /\ ~sda_drive_low'
    BY <1>1, <1>7 DEF I2c!StopCondition
  <2>2. I2cLags' /\ I2cStatus'
    BY <1>1, <1>2, <1>7, <2>1, I2cTick
  <2>3. I2cLine'
    BY <1>5, <2>1 DEF I2cLine, I2c!drivesLow, firstBit
  <2>4. I2cSeen'
    BY <1>3, <1>7, <2>1, <2>2, I2cTick DEF I2cSeen, I2c!sda
  <2>. QED BY <1>2, <1>4, <1>6, <2>1, <2>2, <2>3, <2>4 DEF I2cParts, I2cSlave, I2cLagging
<1>8. CASE ~scl
  <2>1. i2c_state' = "STOP" /\ sda_drive_low'
    BY <1>1, <1>3, <1>8 DEF I2c!StopCondition
  <2>2. I2cLags' /\ I2cStatus'
    BY <1>1, <1>2, <1>8, <2>1, I2cTick
  <2>3. I2cLine'
    BY <1>5, <2>1 DEF I2cLine, I2c!drivesLow, firstBit
  <2>4. I2cSeen'
    BY <1>5, <1>8, <2>1, <2>2, I2cTick DEF I2cSeen, firstBit
  <2>5. I2cLagging'
    BY <1>4, <1>5, <2>1 DEF I2cLagging, SlaveDone, WaitsStop, InReadAck
  <2>. QED BY <1>2, <1>6, <2>2, <2>3, <2>4, <2>5 DEF I2cParts, I2cSlave
<1>. QED BY <1>7, <1>8

-----------------------------------------------------------------------------
(* SCL rises: what the level of SDA then is, and what follows.             *)
LEMMA I2cHigh ==
  ASSUME I2cIInv, I2cFollows, NEW w \in I2c!Writes, NEW given, I2c!Edge(w, given),
         i2c_state \notin {"IDLE", "START", "STOP"}, phase, I2c!tick
  PROVE  /\ I2c!BitHigh(I2c!sda) /\ ~i2c_irq' /\ (nack' <=> I2c!unanswered(I2c!sda) \/ nack)
         /\ I2cLatched' /\ I2cSettled /\ scl' /\ ~phase'
         /\ i2c_state' = I2c!afterBit(I2c!sda) /\ sda_drive_low' = sda_drive_low
         /\ (sda_drive_low <=> I2c!drivesLow) /\ I2cLags' /\ I2cStatus' /\ I2cSeen'
         /\ UNCHANGED <<s_state, s_idx, s_shift, s_rw, s_drive_low, rx_byte, got_write>>
         /\ UNCHANGED <<addr_rw, i2c_tx, rw_r, tx_byte>> /\ (Addressed' <=> Addressed)
<1>1. I2c!BitHigh(I2c!sda) /\ ~I2c!finishes
  BY I2cTick DEF I2c!StartCondition, I2c!BitLow, I2c!BitHigh, I2c!StopCondition,
    I2c!finishes
<1>2. scl' /\ ~phase' /\ i2c_state' = I2c!afterBit(I2c!sda)
        /\ sda_drive_low' = sda_drive_low
  BY <1>1 DEF I2c!BitHigh
<1>3. i2c_state' \notin {"IDLE", "START"}
  BY <1>2, I2cSlaveTypes DEF I2c!afterBit, I2c!States
<1>4. ~scl /\ (sda_drive_low <=> I2c!drivesLow)
  BY DEF I2cIInv, I2cLine
<1>5. I2cLags' /\ I2cStatus' /\ scl_prev' = scl
  BY <1>1, <1>2, <1>3, I2cTick
<1>6. I2cSeen'
  BY <1>2, <1>3, <1>4, <1>5 DEF I2cSeen
<1>. QED BY <1>1, <1>2, <1>4, <1>5, <1>6, I2cTick

LEMMA I2cHighAddr ==
  ASSUME I2cIInv, I2cFollows, NEW w \in I2c!Writes, NEW given, I2c!Edge(w, given),
         i2c_state = "ADDR", phase, I2c!tick
  PROVE  I2cParts'
<1>. USE I2cSizes
<1>1. /\ I2c!BitHigh(I2c!sda) /\ scl' /\ ~phase' /\ i2c_state' = I2c!afterBit(I2c!sda)
           /\ sda_drive_low' = sda_drive_low
      /\ I2cLatched' /\ I2cLags' /\ I2cStatus' /\ I2cSeen'
           /\ (sda_drive_low <=> I2c!drivesLow)
      /\ UNCHANGED <<s_state, s_idx, s_shift, s_rw, s_drive_low, rx_byte, got_write>>
      /\ addr_rw' = addr_rw /\ ~i2c_irq' /\ (nack' <=> nack)
  BY I2cHigh DEF I2c!unanswered
<1>2. InAddr(i2c_idx) /\ i2c_idx \in I2c!Bits /\ ~nack
        /\ (sda_drive_low <=> ~addr_rw[i2c_idx])
  BY <1>1, I2cHigh, I2cSlaveTypes DEF I2cSettled, I2cIInv, I2cProgress, I2c!drivesLow
<1>3. CASE i2c_idx = 0
  <2>1. i2c_state' = "ADDR_ACK"
    BY <1>1, <1>3 DEF I2c!afterBit
  <2>2. InAddr(0)'
    BY <1>1, <1>2, <1>3 DEF InAddr, Filled, TopBit
  <2>3. I2cLagging'
    BY <1>1, <2>1, <2>2 DEF I2cLagging
  <2>4. I2cLine'
    BY <1>1, <1>2, <1>3, <2>1 DEF I2cLine, firstBit, I2c!drivesLow
  <2>5. I2cProgress'
    BY <1>1, <1>2, <2>1 DEF I2cProgress
  <2>. QED BY <1>1, <2>3, <2>4, <2>5 DEF I2cParts, I2cSlave
<1>4. CASE i2c_idx # 0
  <2>1. i2c_state' = "ADDR" /\ i2c_idx' = i2c_idx - 1
    BY <1>1, <1>4 DEF I2c!afterBit, I2c!BitHigh
  <2>2. i2c_idx' # TopBit /\ i2c_idx' + 1 = i2c_idx
    BY <1>2, <1>4, <2>1
  <2>3. InAddr(i2c_idx + 1)'
    BY <1>1, <1>2, <2>2 DEF InAddr, Filled, TopBit
  <2>4. I2cLagging'
    <3>1. ~(phase' \/ i2c_idx' = TopBit')
      BY <1>1, <2>2 DEF TopBit
    <3>. QED BY <1>1, <2>1, <2>3, <3>1 DEF I2cLagging, InAddr, Filled, TopBit
  <2>5. I2cLine'
    BY <1>1, <1>2, <2>1, <2>2 DEF I2cLine, firstBit, I2c!drivesLow, TopBit
  <2>6. I2cProgress'
    BY <1>1, <1>2, <2>1 DEF I2cProgress
  <2>. QED BY <1>1, <2>4, <2>5, <2>6 DEF I2cParts, I2cSlave
<1>. QED BY <1>3, <1>4

(* The slave has pulled SDA low if it is the one addressed.                *)
LEMMA I2cHighAddrAck ==
  ASSUME I2cIInv, I2cFollows, NEW w \in I2c!Writes, NEW given, I2c!Edge(w, given),
         i2c_state = "ADDR_ACK", phase, I2c!tick
  PROVE  I2cParts'
<1>. USE I2cSizes
<1>1. /\ I2c!BitHigh(I2c!sda) /\ scl' /\ ~phase' /\ i2c_state' = I2c!afterBit(I2c!sda)
           /\ sda_drive_low' = sda_drive_low
      /\ I2cLatched' /\ I2cLags' /\ I2cStatus' /\ I2cSeen'
           /\ (sda_drive_low <=> I2c!drivesLow)
      /\ UNCHANGED <<s_state, s_idx, s_shift, s_rw, s_drive_low, rx_byte, got_write>>
      /\ UNCHANGED <<addr_rw, i2c_tx, rw_r,
           tx_byte>> /\ ~i2c_irq' /\ (nack' <=> I2c!sda \/ nack)
      /\ (Addressed' <=> Addressed)
  BY I2cHigh DEF I2c!unanswered
<1>2. InAck(Addressed) /\ ~nack /\ ~sda_drive_low
  BY <1>1, I2cHigh DEF I2cSettled, I2cIInv, I2cProgress, I2c!drivesLow, InAck
<1>3. I2c!sda <=> ~Addressed
  BY <1>2 DEF I2c!sda, InAck
<1>4. CASE ~Addressed
  <2>1. i2c_state' = "STOP" /\ nack'
    BY <1>1, <1>3, <1>4 DEF I2c!afterBit
  <2>2. InAck(FALSE)'
    BY <1>1, <1>2, <1>4 DEF InAck
  <2>3. I2cLagging'
    BY <1>1, <1>4, <2>1, <2>2 DEF I2cLagging, InAck
  <2>4. I2cLine'
    BY <1>1, <1>2, <2>1 DEF I2cLine, firstBit, I2c!drivesLow
  <2>5. I2cProgress'
    BY <1>1, <1>4, <2>1 DEF I2cProgress
  <2>. QED BY <1>1, <2>3, <2>4, <2>5 DEF I2cParts, I2cSlave
<1>5. CASE Addressed
  <2>1. i2c_state' = (IF rw_r THEN "RDATA" ELSE "WDATA") /\ ~nack' /\ i2c_idx' = TopBit
    BY <1>1, <1>2, <1>3, <1>5 DEF I2c!afterBit, I2c!BitHigh, TopBit
  <2>2. InAck(TRUE)'
    BY <1>1, <1>2, <1>5 DEF InAck
  <2>3. I2cLagging'
    BY <1>1, <2>1, <2>2 DEF I2cLagging, InAck, TopBit
  <2>4. I2cLine'
    BY <1>1, <1>2, <2>1 DEF I2cLine, firstBit, I2c!drivesLow, TopBit
  <2>5. I2cProgress'
    <3>1. Filled(i2c_rx', tx_byte', TopBit)
      BY I2cFilledFirst
    <3>. QED BY <1>1, <1>5, <2>1, <3>1, I2cSlaveTypes DEF I2cProgress, Filled, TopBit
  <2>. QED BY <1>1, <2>3, <2>4, <2>5 DEF I2cParts, I2cSlave
<1>. QED BY <1>4, <1>5

LEMMA I2cHighWrite ==
  ASSUME I2cIInv, I2cFollows, NEW w \in I2c!Writes, NEW given, I2c!Edge(w, given),
         i2c_state = "WDATA", phase, I2c!tick
  PROVE  I2cParts'
<1>. USE I2cSizes
<1>1. /\ I2c!BitHigh(I2c!sda) /\ scl' /\ ~phase' /\ i2c_state' = I2c!afterBit(I2c!sda)
           /\ sda_drive_low' = sda_drive_low
      /\ I2cLatched' /\ I2cLags' /\ I2cStatus' /\ I2cSeen'
           /\ (sda_drive_low <=> I2c!drivesLow)
      /\ UNCHANGED <<s_state, s_idx, s_shift, s_rw, s_drive_low, rx_byte, got_write>>
      /\ UNCHANGED <<i2c_tx, rw_r>> /\ ~i2c_irq' /\ (nack' <=> nack)
           /\ (Addressed' <=> Addressed)
  BY I2cHigh DEF I2c!unanswered
<1>2. /\ InWrite(i2c_idx, FALSE) /\ i2c_idx \in I2c!Bits /\ ~nack /\ Addressed /\ ~rw_r
      /\ (sda_drive_low <=> ~i2c_tx[i2c_idx])
  BY <1>1, I2cHigh, I2cSlaveTypes DEF I2cSettled, I2cIInv, I2cProgress, I2c!drivesLow,
    InWrite
<1>3. CASE i2c_idx = 0
  <2>1. i2c_state' = "WDATA_ACK"
    BY <1>1, <1>3 DEF I2c!afterBit
  <2>2. InWrite(0, FALSE)'
    BY <1>1, <1>2, <1>3 DEF InWrite, Filled, TopBit
  <2>3. I2cLagging'
    BY <1>1, <2>1, <2>2 DEF I2cLagging
  <2>4. I2cLine'
    BY <1>1, <1>2, <1>3, <2>1 DEF I2cLine, firstBit, I2c!drivesLow
  <2>5. I2cProgress'
    BY <1>1, <1>2, <2>1 DEF I2cProgress
  <2>. QED BY <1>1, <2>3, <2>4, <2>5 DEF I2cParts, I2cSlave
<1>4. CASE i2c_idx # 0
  <2>1. i2c_state' = "WDATA" /\ i2c_idx' = i2c_idx - 1
    BY <1>1, <1>4 DEF I2c!afterBit, I2c!BitHigh
  <2>2. i2c_idx' # TopBit /\ i2c_idx' + 1 = i2c_idx
    BY <1>2, <1>4, <2>1
  <2>3. InWrite(i2c_idx + 1, FALSE)'
    BY <1>1, <1>2, <2>2 DEF InWrite, Filled, TopBit
  <2>4. I2cLagging'
    BY <1>1, <2>1, <2>2, <2>3 DEF I2cLagging, InWrite, Filled, TopBit
  <2>5. I2cLine'
    BY <1>1, <1>2, <2>1, <2>2 DEF I2cLine, firstBit, I2c!drivesLow, TopBit
  <2>6. I2cProgress'
    BY <1>1, <1>2, <2>1 DEF I2cProgress
  <2>. QED BY <1>1, <2>4, <2>5, <2>6 DEF I2cParts, I2cSlave
<1>. QED BY <1>3, <1>4

LEMMA I2cHighWriteAck ==
  ASSUME I2cIInv, I2cFollows, NEW w \in I2c!Writes, NEW given, I2c!Edge(w, given),
         i2c_state = "WDATA_ACK", phase, I2c!tick
  PROVE  I2cParts'
<1>. USE I2cSizes
<1>1. /\ I2c!BitHigh(I2c!sda) /\ scl' /\ ~phase' /\ i2c_state' = I2c!afterBit(I2c!sda)
           /\ sda_drive_low' = sda_drive_low
      /\ I2cLatched' /\ I2cLags' /\ I2cStatus' /\ I2cSeen'
           /\ (sda_drive_low <=> I2c!drivesLow)
      /\ UNCHANGED <<s_state, s_idx, s_shift, s_rw, s_drive_low, rx_byte, got_write>>
      /\ UNCHANGED <<i2c_tx, rw_r>> /\ ~i2c_irq' /\ (nack' <=> I2c!sda \/ nack)
      /\ (Addressed' <=> Addressed)
  BY I2cHigh DEF I2c!unanswered
<1>2. WaitsStop(TRUE) /\ ~nack /\ Addressed /\ ~rw_r /\ ~sda_drive_low
  BY <1>1, I2cHigh DEF I2cSettled, I2cIInv, I2cProgress, I2c!drivesLow
<1>3. ~I2c!sda
  BY <1>2 DEF I2c!sda, WaitsStop
<1>4. i2c_state' = "STOP" /\ ~nack'
  BY <1>1, <1>2, <1>3 DEF I2c!afterBit
<1>5. I2cLagging'
  BY <1>1, <1>2, <1>4 DEF I2cLagging, SlaveDone, WaitsStop
<1>6. I2cLine'
  BY <1>1, <1>2, <1>4 DEF I2cLine, firstBit, I2c!drivesLow
<1>7. I2cProgress'
  BY <1>1, <1>2, <1>4 DEF I2cProgress
<1>. QED BY <1>1, <1>5, <1>6, <1>7 DEF I2cParts, I2cSlave

LEMMA I2cHighRead ==
  ASSUME I2cIInv, I2cFollows, NEW w \in I2c!Writes, NEW given, I2c!Edge(w, given),
         i2c_state = "RDATA", phase, I2c!tick
  PROVE  I2cParts'
<1>. USE I2cSizes
<1>1. /\ I2c!BitHigh(I2c!sda) /\ scl' /\ ~phase' /\ i2c_state' = I2c!afterBit(I2c!sda)
           /\ sda_drive_low' = sda_drive_low
      /\ I2cLatched' /\ I2cLags' /\ I2cStatus' /\ I2cSeen'
           /\ (sda_drive_low <=> I2c!drivesLow)
      /\ UNCHANGED <<s_state, s_idx, s_shift, s_rw, s_drive_low, rx_byte, got_write>>
      /\ UNCHANGED <<rw_r, tx_byte>> /\ ~i2c_irq' /\ (nack' <=> nack)
           /\ (Addressed' <=> Addressed)
  BY I2cHigh DEF I2c!unanswered
<1>2. /\ InRead(i2c_idx, ~tx_byte[i2c_idx]) /\ i2c_idx \in I2c!Bits /\ ~nack /\ Addressed
           /\ rw_r
      /\ ~sda_drive_low /\ Filled(i2c_rx, tx_byte, i2c_idx)
  BY <1>1, I2cHigh, I2cSlaveTypes DEF I2cSettled, I2cIInv, I2cProgress, I2c!drivesLow,
    InRead
<1>3. /\ I2c!sda \in BOOLEAN /\ I2c!sda = tx_byte[i2c_idx]
           /\ i2c_rx' = I2c!ShiftIn(i2c_rx, I2c!sda)
      /\ i2c_rx \in I2c!Byte /\ tx_byte \in I2c!Byte
  <2>1. tx_byte[i2c_idx] \in BOOLEAN /\ I2c!sda \in BOOLEAN
    BY <1>2, I2cSlaveTypes DEF I2c!Byte, I2c!sda
  <2>2. I2c!sda <=> tx_byte[i2c_idx]
    BY <1>2 DEF I2c!sda, InRead
  <2>. QED BY <1>1, <2>1, <2>2, I2cSlaveTypes DEF I2c!BitHigh, I2cIInv, I2cTypes,
           I2c!TypeOK, I2c!I2cTypeOK
<1>4. CASE i2c_idx = 0
  <2>1. i2c_state' = "RDATA_ACK"
    BY <1>1, <1>4 DEF I2c!afterBit
  <2>2. InRead(0, ~tx_byte[0])'
    BY <1>1, <1>2, <1>4 DEF InRead, SendsFrom, TopBit
  <2>3. I2cLagging'
    BY <1>1, <2>1, <2>2 DEF I2cLagging, InRead
  <2>4. I2cLine'
    BY <1>1, <1>2, <2>1 DEF I2cLine, firstBit, I2c!drivesLow
  <2>5. i2c_rx' = tx_byte
    BY <1>2, <1>3, <1>4, I2cFilledNext
  <2>6. I2cProgress'
    BY <1>1, <1>2, <2>1, <2>5 DEF I2cProgress
  <2>. QED BY <1>1, <2>3, <2>4, <2>6 DEF I2cParts, I2cSlave
<1>5. CASE i2c_idx # 0
  <2>1. i2c_state' = "RDATA" /\ i2c_idx' = i2c_idx - 1
    BY <1>1, <1>5 DEF I2c!afterBit, I2c!BitHigh
  <2>2. i2c_idx' # TopBit /\ i2c_idx' + 1 = i2c_idx
    BY <1>2, <1>5, <2>1
  <2>3. InRead(i2c_idx + 1, ~tx_byte[i2c_idx + 1])'
    BY <1>1, <1>2, <2>2 DEF InRead, SendsFrom, TopBit
  <2>4. I2cLagging'
    BY <1>1, <2>1, <2>2, <2>3 DEF I2cLagging, InRead, SendsFrom, TopBit
  <2>5. I2cLine'
    BY <1>1, <1>2, <2>1 DEF I2cLine, firstBit, I2c!drivesLow
  <2>6. Filled(i2c_rx', tx_byte', i2c_idx')
    <3>1. Filled(I2c!ShiftIn(i2c_rx, I2c!sda), tx_byte, i2c_idx - 1)
      BY <1>2, <1>3, <1>5, I2cFilledNext
    <3>. QED BY <1>1, <1>3, <2>1, <3>1
  <2>7. I2cProgress'
    BY <1>1, <1>2, <2>1, <2>6 DEF I2cProgress, Filled, TopBit
  <2>. QED BY <1>1, <2>4, <2>5, <2>7 DEF I2cParts, I2cSlave
<1>. QED BY <1>4, <1>5

LEMMA I2cHighReadAck ==
  ASSUME I2cIInv, I2cFollows, NEW w \in I2c!Writes, NEW given, I2c!Edge(w, given),
         i2c_state = "RDATA_ACK", phase, I2c!tick
  PROVE  I2cParts'
<1>. USE I2cSizes
<1>1. /\ I2c!BitHigh(I2c!sda) /\ scl' /\ ~phase' /\ i2c_state' = I2c!afterBit(I2c!sda)
           /\ sda_drive_low' = sda_drive_low
      /\ I2cLatched' /\ I2cLags' /\ I2cStatus' /\ I2cSeen'
           /\ (sda_drive_low <=> I2c!drivesLow)
      /\ UNCHANGED <<s_state, s_idx, s_shift, s_rw, s_drive_low, rx_byte, got_write>>
      /\ UNCHANGED <<rw_r, tx_byte>> /\ ~i2c_irq' /\ (nack' <=> nack)
           /\ (Addressed' <=> Addressed)
  BY I2cHigh DEF I2c!unanswered
<1>2. InReadAck(FALSE) /\ ~nack /\ Addressed /\ rw_r /\ ~sda_drive_low /\ i2c_rx = tx_byte
  BY <1>1, I2cHigh DEF I2cSettled, I2cIInv, I2cProgress, I2c!drivesLow, InReadAck
<1>3. i2c_state' = "STOP" /\ i2c_rxdata' = i2c_rx
  BY <1>1 DEF I2c!afterBit, I2c!BitHigh
<1>4. I2cLagging'
  BY <1>1, <1>2, <1>3 DEF I2cLagging, SlaveDone, InReadAck
<1>5. I2cLine'
  BY <1>1, <1>2, <1>3 DEF I2cLine, firstBit, I2c!drivesLow
<1>6. I2cProgress'
  BY <1>1, <1>2, <1>3 DEF I2cProgress
<1>. QED BY <1>1, <1>4, <1>5, <1>6 DEF I2cParts, I2cSlave

(* Every edge keeps what relates the master, the line and the slave.       *)
LEMMA I2cPartsStep ==
  ASSUME I2cIInv, I2cFollows, NEW w \in I2c!Writes, NEW given, I2c!Edge(w, given)
  PROVE  I2cParts'
<1>1. i2c_state \in I2c!States /\ phase \in BOOLEAN
  BY I2cSlaveTypes
<1>2. ASSUME i2c_state # "IDLE", I2c!tick PROVE I2cParts'
  <2>1. CASE i2c_state = "START"
    BY <1>2, <2>1, I2cStartTick
  <2>2. CASE i2c_state # "START" /\ ~phase
    BY <1>2, <2>2, I2cLowTick
  <2>3. CASE i2c_state # "START" /\ phase
    BY <1>1, <1>2, <2>3, I2cStopTick, I2cHighAddr, I2cHighAddrAck, I2cHighWrite,
      I2cHighWriteAck,
       I2cHighRead, I2cHighReadAck DEF I2c!States
  <2>. QED BY <2>1, <2>2, <2>3
<1>. QED BY <1>2, I2cRestStep, I2cCountStep

LEMMA I2cMasterTypes ==
  ASSUME I2cIInv, I2cFollows, NEW w \in I2c!Writes, NEW given, I2c!Edge(w, given)
  PROVE  I2c!I2cTypeOK'
<1>. USE I2cSizes
<1>1. I2c!I2cTypeOK
  BY DEF I2cIInv, I2cTypes, I2c!TypeOK
<1>2. /\ i2c_state' \in I2c!States
           /\ {scl', sda_drive_low', phase', rw_r', i2c_busy', i2c_done', nack', i2c_irq'} \subseteq BOOLEAN
      /\ i2c_idx' \in I2c!Bits /\ i2c_div_cnt' \in I2c!Div
      /\ {addr_rw', i2c_tx', i2c_rx', i2c_rxdata'} \subseteq I2c!Byte
  <2>1. CASE i2c_state = "IDLE"
    <3>1. I2c!Idle(w)
      BY <2>1, I2cMasterStep
    <3>2. CASE I2c!do_start(w)
      <4>1. w.rw \in BOOLEAN
        BY <3>2, I2cWrites DEF I2c!do_start
      <4>2. [i \in I2c!Bits |-> IF i = 0 THEN w.rw ELSE addr_reg[i]] \in I2c!Byte
        <5>1. \A i \in I2c!Bits : (IF i = 0 THEN w.rw ELSE addr_reg[i]) \in BOOLEAN
          BY <1>1, <4>1 DEF I2c!I2cTypeOK, I2c!Addr
        <5>. QED BY <5>1 DEF I2c!Byte
      <4>3. addr_rw' \in I2c!Byte /\ i2c_tx' \in I2c!Byte /\ rw_r' \in BOOLEAN
        BY <1>1, <3>1, <3>2, <4>1, <4>2 DEF I2c!Idle, I2c!I2cTypeOK
      <4>4. 0 \in I2c!Div
        BY DEF I2c!Div
      <4>. QED BY <1>1, <3>1, <3>2, <4>3, <4>4 DEF I2c!Idle, I2c!I2cTypeOK, I2c!States
    <3>3. CASE ~I2c!do_start(w)
      BY <1>1, <3>1, <3>3 DEF I2c!Idle, I2c!I2cTypeOK, I2c!latchedVars
    <3>. QED BY <3>2, <3>3
  <2>2. CASE i2c_state # "IDLE" /\ ~I2c!tick
    <3>1. I2c!Count(w)
      BY <2>2, I2cMasterStep
    <3>2. i2c_div_cnt' \in I2c!Div
      <4>1. i2c_div_cnt + 1 \in Nat
        BY <1>1 DEF I2c!I2cTypeOK, I2c!Div
      <4>2. (i2c_div_cnt + 1) % 2^DivWidth \in 0 .. 2^DivWidth - 1
        BY <4>1
      <4>. QED BY <3>1, <4>2 DEF I2c!Count, I2c!Div
    <3>. QED BY <1>1, <3>1, <3>2 DEF I2c!Count, I2c!I2cTypeOK, I2c!latchedVars
  <2>3. CASE i2c_state # "IDLE" /\ I2c!tick
    <3>1. I2c!Tick(w, I2c!sda)
      BY <2>3, I2cMasterStep
    <3>2. {i2c_busy', i2c_done', nack', i2c_irq'} \subseteq BOOLEAN
            /\ i2c_div_cnt' \in I2c!Div
          /\ {addr_rw', i2c_tx'} \subseteq I2c!Byte /\ rw_r' \in BOOLEAN
      <4>1. {i2c_busy', i2c_done', nack', i2c_irq'} \subseteq BOOLEAN
        <5>1. I2c!Status(w, I2c!sda)
          BY <3>1 DEF I2c!Tick
        <5>2. I2c!finishes \in BOOLEAN /\ I2c!unanswered(I2c!sda) \in BOOLEAN
          BY DEF I2c!finishes, I2c!unanswered
        <5>. QED BY <1>1, <5>1, <5>2 DEF I2c!Status, I2c!I2cTypeOK
      <4>2. i2c_div_cnt' \in I2c!Div
        BY <3>1 DEF I2c!Tick, I2c!Div
      <4>3. {addr_rw', i2c_tx'} \subseteq I2c!Byte /\ rw_r' \in BOOLEAN
        BY <1>1, <3>1 DEF I2c!Tick, I2c!I2cTypeOK, I2c!latchedVars
      <4>. QED BY <4>1, <4>2, <4>3
    <3>3. ASSUME I2c!StartCondition \/ I2c!BitLow \/ I2c!StopCondition
          PROVE /\ i2c_state' \in I2c!States
                     /\ {scl', sda_drive_low', phase'} \subseteq BOOLEAN
                /\ i2c_idx' \in I2c!Bits /\ {i2c_rx', i2c_rxdata'} \subseteq I2c!Byte
      <4>1. I2c!drivesLow \in BOOLEAN
        BY DEF I2c!drivesLow
      <4>2. TopBit \in I2c!Bits
        OBVIOUS
      <4>. QED BY <1>1, <3>3, <4>1, <4>2 DEF I2c!StartCondition, I2c!BitLow,
               I2c!StopCondition, I2c!I2cTypeOK, I2c!States, TopBit
    <3>4. ASSUME I2c!BitHigh(I2c!sda)
          PROVE /\ i2c_state' \in I2c!States
                     /\ {scl', sda_drive_low', phase'} \subseteq BOOLEAN
                /\ i2c_idx' \in I2c!Bits /\ {i2c_rx', i2c_rxdata'} \subseteq I2c!Byte
      <4>1. i2c_state' \in I2c!States /\ {scl', sda_drive_low', phase'} \subseteq BOOLEAN
        BY <1>1, <3>4 DEF I2c!BitHigh, I2c!afterBit, I2c!I2cTypeOK, I2c!States
      <4>2. i2c_idx' \in I2c!Bits
        <5>1. i2c_idx \in I2c!Bits /\ TopBit \in I2c!Bits
          BY <1>1 DEF I2c!I2cTypeOK
        <5>2. i2c_idx' = TopBit \/ i2c_idx' = i2c_idx \/ (i2c_idx # 0 /\ i2c_idx' = i2c_idx - 1)
          BY <3>4 DEF I2c!BitHigh, TopBit
        <5>. QED BY <5>1, <5>2
      <4>3. I2c!sda \in BOOLEAN
        BY DEF I2c!sda
      <4>4. I2c!ShiftIn(i2c_rx, I2c!sda) \in I2c!Byte
        BY <1>1, <4>3, I2cShift DEF I2c!I2cTypeOK
      <4>5. {i2c_rx', i2c_rxdata'} \subseteq I2c!Byte
        BY <1>1, <3>4, <4>4 DEF I2c!BitHigh, I2c!I2cTypeOK
      <4>. QED BY <4>1, <4>2, <4>5
    <3>. QED BY <3>1, <3>2, <3>3, <3>4 DEF I2c!Tick
  <2>. QED BY <2>1, <2>2, <2>3
<1>. QED BY <1>2, I2cRegs DEF I2c!I2cTypeOK

LEMMA I2cTypesStep ==
  ASSUME I2cIInv, I2cFollows, NEW w \in I2c!Writes,
         NEW given \in (IF I2c!do_start(w) THEN I2cPayloads ELSE {tx_byte}),
           I2c!Edge(w, given)
  PROVE  I2cTypes'
<1>. USE I2cSizes
<1>1. I2cTypes
  BY DEF I2cIInv
<1>2. I2c!I2cTypeOK'
  BY I2cMasterTypes
<1>3. tx_byte' \in I2c!Byte /\ i2c_sent' \in I2c!Byte /\ to' \in I2c!Addr
  <2>1. CASE I2c!do_start(w)
    BY <1>1, <2>1, I2cFits DEF I2c!Edge, I2cTypes, I2c!TypeOK, I2c!I2cTypeOK,
      I2c!LineAssumption
  <2>2. CASE ~I2c!do_start(w)
    BY <1>1, <2>2 DEF I2c!Edge, I2cTypes, I2c!TypeOK
  <2>. QED BY <2>1, <2>2
<1>4. i2c_half' \in Nat
  BY <1>1 DEF I2c!Edge, I2cTypes
<1>5. scl_prev' \in BOOLEAN /\ sda_prev' \in BOOLEAN
  <2>1. I2c!sda \in BOOLEAN
    BY DEF I2c!sda
  <2>. QED BY <1>1, <2>1 DEF I2c!Edge, I2c!Slave, I2cTypes, I2c!TypeOK, I2c!I2cTypeOK
<1>6. /\ s_idx' \in I2c!Bits /\ s_shift' \in I2c!Byte /\ rx_byte' \in I2c!Byte
      /\ {s_rw', s_drive_low', got_write'} \subseteq BOOLEAN
  <2>1. I2c!sda \in BOOLEAN /\ I2c!matched \in BOOLEAN
    BY DEF I2c!sda, I2c!matched
  <2>2. I2c!ShiftIn(s_shift, I2c!sda) \in I2c!Byte
          /\ I2c!ShiftIn(s_shift, FALSE) \in I2c!Byte
    BY <1>1, <2>1, I2cShift DEF I2cTypes, I2c!TypeOK
  <2>3. TopBit \in I2c!Bits /\ (s_idx # 0 => s_idx - 1 \in I2c!Bits)
          /\ [i \in I2c!Bits |-> FALSE] \in I2c!Byte /\ 0 \in I2c!Bits
    BY <1>1 DEF I2cTypes, I2c!TypeOK, I2c!Byte
  <2>4. CASE I2c!SlaveStarts
    BY <1>1, <2>3, <2>4 DEF I2c!SlaveStarts, I2cTypes, I2c!TypeOK, TopBit
  <2>5. CASE I2c!SlaveStops \/ I2c!SlaveWaits
    BY <1>1, <2>5 DEF I2c!SlaveStops, I2c!SlaveWaits, I2cTypes, I2c!TypeOK
  <2>6. CASE I2c!SlaveFalls
    <3>1. s_drive_low' \in BOOLEAN
      BY <1>1, <2>1, <2>6 DEF I2c!SlaveFalls
    <3>. QED BY <1>1, <2>6, <3>1 DEF I2c!SlaveFalls, I2cTypes, I2c!TypeOK
  <2>7. CASE I2c!SlaveRises
    <3>1. s_drive_low' \in BOOLEAN
      BY <2>7 DEF I2c!SlaveRises
    <3>2. s_idx' \in I2c!Bits
      <4>1. s_idx \in I2c!Bits
        BY <1>1 DEF I2cTypes, I2c!TypeOK
      <4>. QED BY <2>3, <2>7, <4>1 DEF I2c!SlaveRises, I2c!NextBit, TopBit
    <3>3. s_shift' \in I2c!Byte
      BY <1>1, <2>2, <2>7 DEF I2c!SlaveRises, I2cTypes, I2c!TypeOK
    <3>4. s_rw' \in BOOLEAN /\ rx_byte' \in I2c!Byte /\ got_write' \in BOOLEAN
      BY <1>1, <2>1, <2>7 DEF I2c!SlaveRises, I2cTypes, I2c!TypeOK
    <3>. QED BY <3>1, <3>2, <3>3, <3>4
  <2>. QED BY <2>4, <2>5, <2>6, <2>7 DEF I2c!Edge, I2c!Slave
<1>. QED BY <1>2, <1>3, <1>4, <1>5, <1>6 DEF I2cTypes, I2c!TypeOK

LEMMA I2cInitInv == I2c!Init => I2cIInv
<1>. USE I2cSizes
<1>. SUFFICES ASSUME I2c!Init PROVE I2cIInv
  OBVIOUS
<1>1. [i \in I2c!Bits |-> FALSE] \in I2c!Byte
        /\ [i \in I2c!Bits \ {0} |-> FALSE] \in I2c!Addr /\ 0 \in I2c!Bits
      /\ 0 \in I2c!Div /\ 4 \in I2c!Div \ {0}
  BY DEF I2c!Byte, I2c!Addr, I2c!Div
<1>2. I2cTypes
  BY <1>1 DEF I2c!Init, I2c!I2cInit, I2cTypes, I2c!TypeOK, I2c!I2cTypeOK, I2c!States
<1>3. i2c_state = "IDLE" /\ ~i2c_irq /\ ~i2c_busy /\ i2c_divider = 4 /\ scl
        /\ ~sda_drive_low
      /\ s_state = "IDLE" /\ ~s_drive_low /\ scl_prev /\ sda_prev
  BY DEF I2c!Init, I2c!I2cInit
<1>4. I2cStatus /\ I2cLine /\ I2cLatched /\ I2cProgress
  BY <1>3 DEF I2cStatus, I2cLine, firstBit, I2c!drivesLow, I2cLatched, I2cProgress
<1>5. I2cSeen /\ I2cSlave
  BY <1>3 DEF I2cSeen, I2cSlave, I2cLags, I2cSettled, Listens, I2c!sda
<1>. QED BY <1>2, <1>4, <1>5 DEF I2cIInv

LEMMA I2cNextInv == I2cIInv /\ I2cFollows /\ I2c!Next => I2cIInv'
BY I2cPartsStep, I2cTypesStep DEF I2c!Next, I2cIInv, I2cParts

LEMMA I2cRests == I2cIInv /\ UNCHANGED I2c!vars => I2cIInv'
<1>. SUFFICES ASSUME I2cIInv, UNCHANGED I2c!vars PROVE I2cIInv'
  OBVIOUS
<1>. USE DEF I2c!vars, I2c!i2cVars, I2c!slaveVars, I2c!latchedVars, I2c!statusVars
<1>1. I2cTypes' /\ I2cStatus' /\ I2cLine' /\ I2cLatched'
  BY DEF I2cIInv, I2cTypes, I2c!TypeOK, I2c!I2cTypeOK, I2cStatus, I2cLine, firstBit,
    I2c!drivesLow, I2cLatched
<1>2. I2cProgress'
  BY DEF I2cIInv, I2cProgress, Addressed, Filled, TopBit
<1>3. I2cLags' <=> I2cLags
  BY DEF I2cLags
<1>4. I2cSeen'
  BY <1>3 DEF I2cIInv, I2cSeen, I2c!sda, firstBit, TopBit
<1>5. I2cSlave'
  BY <1>3 DEF I2cIInv, I2cSlave, I2cLagging, I2cSettled, Addressed, PullsBefore, Listens,
    InAddr, InAck, InWrite,
     InWriteAck, WaitsStop, InRead, InReadAck, SlaveDone, Filled, SendsFrom, TopBit
<1>. QED BY <1>1, <1>2, <1>4, <1>5 DEF I2cIInv

(* What is promised when the interrupt comes.                              *)
LEMMA I2cInvHolds ==
  I2cIInv => I2c!TypeOK /\ I2c!DoneIsVisible /\ I2c!HalfPeriodIsDivider /\ I2c!BytesArrive
    /\ I2c!NackIffNobody
<1>. USE I2cSizes
<1>. SUFFICES ASSUME I2cIInv
              PROVE I2c!TypeOK /\ I2c!DoneIsVisible /\ I2c!HalfPeriodIsDivider
                     /\ I2c!BytesArrive /\ I2c!NackIffNobody
  OBVIOUS
<1>1. I2c!TypeOK /\ I2c!DoneIsVisible /\ I2c!HalfPeriodIsDivider
  BY DEF I2cIInv, I2cTypes, I2cStatus, I2c!DoneIsVisible, I2c!HalfPeriodIsDivider
<1>2. ASSUME i2c_irq PROVE I2c!BytesArrive /\ I2c!NackIffNobody
  <2>1. i2c_state = "IDLE" /\ SlaveDone(FALSE)
    BY <1>2 DEF I2cIInv, I2cStatus, I2cSlave, I2cLagging, I2cLags
  <2>2. /\ i2c_tx = i2c_sent /\ \A i \in I2c!Bits \ {0} : addr_rw[i] = to[i]
        /\ (nack <=> ~Addressed) /\ (Addressed /\ rw_r => i2c_rxdata = tx_byte)
    BY <1>2 DEF I2cIInv, I2cLatched, I2cProgress
  <2>3. Addressed <=> to = MCMyAddr
    <3>1. Addressed <=> \A i \in I2c!Bits \ {0} : to[i] = MCMyAddr[i]
      BY <2>2 DEF Addressed
    <3>2. to = [i \in I2c!Bits \ {0} |-> to[i]]
            /\ MCMyAddr = [i \in I2c!Bits \ {0} |-> MCMyAddr[i]]
      <4>1. to \in [I2c!Bits \ {0} -> BOOLEAN] /\ MCMyAddr \in [I2c!Bits \ {0} -> BOOLEAN]
        BY I2cFits DEF I2cIInv, I2cTypes, I2c!LineAssumption, I2c!Addr
      <4>. QED BY <4>1, Zenon
    <3>. QED BY <3>1, <3>2, Zenon
  <2>4. /\ ~Addressed => ~got_write
        /\ Addressed /\ ~rw_r => got_write /\ rx_byte = i2c_tx
    BY <2>1 DEF SlaveDone, WaitsStop
  <2>5. ~nack => IF rw_r THEN i2c_rxdata = tx_byte ELSE got_write /\ rx_byte = i2c_sent
    BY <2>2, <2>4
  <2>6. (nack <=> to # MCMyAddr) /\ (nack => ~got_write)
    BY <2>2, <2>3, <2>4
  <2>. QED BY <2>5, <2>6 DEF I2c!BytesArrive, I2c!NackIffNobody
<1>3. ASSUME ~i2c_irq PROVE I2c!BytesArrive /\ I2c!NackIffNobody
  BY <1>3 DEF I2c!BytesArrive, I2c!NackIffNobody
<1>. QED BY <1>1, <1>2, <1>3

(* SDA moves while SCL is high for START and STOP only.                    *)
LEMMA I2cSdaStable ==
  I2cIInv /\ I2cFollows /\ I2c!Next =>
    (scl /\ scl' /\ I2c!sda # I2c!sda' => (~I2c!sda' /\ i2c_state = "START") \/ (I2c!sda' /\ I2c!finishes))
<1>. SUFFICES ASSUME I2cIInv, I2cFollows, NEW w \in I2c!Writes, NEW given,
       I2c!Edge(w, given),
                     scl, scl', I2c!sda # I2c!sda'
              PROVE  (~I2c!sda' /\ i2c_state = "START") \/ (I2c!sda' /\ I2c!finishes)
  BY DEF I2c!Next
<1>1. I2c!sda \in BOOLEAN /\ I2c!sda' \in BOOLEAN /\ i2c_state \in I2c!States
        /\ phase \in BOOLEAN
      /\ {scl, s_drive_low, sda_drive_low} \subseteq BOOLEAN
  BY I2cSlaveTypes DEF I2c!sda
<1>2. i2c_state # "IDLE"
  <2>. SUFFICES ASSUME i2c_state = "IDLE" PROVE FALSE
    OBVIOUS
  <2>1. ~sda_drive_low /\ ~sda_drive_low'
    BY I2cMasterStep DEF I2cIInv, I2cLine, firstBit, I2c!drivesLow, I2c!Idle
  <2>2. ~s_drive_low
    <3>1. SlaveDone(FALSE) \/ Listens
      BY DEF I2cIInv, I2cSlave, I2cLagging, I2cSettled
    <3>. QED BY <3>1 DEF SlaveDone, Listens, InReadAck, WaitsStop
  <2>3. I2cParts'
    BY I2cRestStep
  <2>4. I2c!Idle(w)
    BY I2cMasterStep
  <2>5. ~s_drive_low'
    <3>1. ~I2cLags'
      BY <2>4 DEF I2cLags, I2c!Idle, I2cIInv, I2cStatus
    <3>2. i2c_state' = "IDLE" \/ (i2c_state' = "START" /\ ~phase')
      BY <2>4 DEF I2c!Idle
    <3>. QED BY <2>3, <3>1, <3>2 DEF I2cParts, I2cSlave, I2cSettled, Listens
  <2>. QED BY <2>1, <2>2, <2>5 DEF I2c!sda
<1>3. CASE ~I2c!tick
  <2>. SUFFICES FALSE
    OBVIOUS
  <2>1. sda_drive_low' = sda_drive_low
    BY <1>2, <1>3, I2cCount
  <2>2. s_drive_low' <=> s_drive_low
    <3>1. CASE ~I2cLags
      BY <3>1, I2cSlaveStill
    <3>2. CASE I2cLags /\ i2c_state = "START"
      <4>1. Listens
        BY <3>2 DEF I2cIInv, I2cSlave, I2cLagging
      <4>2. I2c!SlaveStarts
        BY <1>2, <3>2, I2cSlaveSees
      <4>. QED BY <4>1, <4>2 DEF Listens, I2c!SlaveStarts
    <3>3. CASE I2cLags /\ i2c_state # "START"
      <4>1. I2c!SlaveRises
        BY <1>2, <3>3, I2cSlaveSees
      <4>. QED BY <4>1, I2cIdleQuiet, I2cSlaveTypes DEF I2c!SlaveRises
    <3>. QED BY <3>1, <3>2, <3>3
  <2>. QED BY <2>1, <2>2 DEF I2c!sda
<1>4. CASE I2c!tick
  <2>1. /\ I2c!StartCondition \/ I2c!BitLow \/ I2c!BitHigh(I2c!sda) \/ I2c!StopCondition
        /\ s_drive_low' = s_drive_low /\ I2cSettled
    BY <1>2, <1>4, I2cTick
  <2>2. sda_drive_low # sda_drive_low'
    BY <2>1 DEF I2c!sda
  <2>3. CASE I2c!StartCondition
    BY <1>1, <2>1, <2>2, <2>3 DEF I2c!StartCondition, I2c!sda
  <2>4. CASE I2c!BitLow
    BY <2>4 DEF I2c!BitLow
  <2>5. CASE I2c!BitHigh(I2c!sda)
    BY <2>2, <2>5 DEF I2c!BitHigh
  <2>6. CASE I2c!StopCondition
    <3>1. I2c!finishes /\ ~sda_drive_low'
      BY <2>2, <2>6 DEF I2c!StopCondition, I2c!finishes
    <3>2. SlaveDone(FALSE)
      BY <2>1, <2>6 DEF I2cSettled, I2c!StopCondition, SlaveDone, WaitsStop, InReadAck
    <3>3. ~s_drive_low
      BY <3>2 DEF SlaveDone, Listens, WaitsStop, InReadAck
    <3>. QED BY <2>1, <3>1, <3>3 DEF I2c!sda
  <2>. QED BY <2>1, <2>3, <2>4, <2>5, <2>6
<1>. QED BY <1>3, <1>4

(* The line is left to everyone, and the slave sees it.                    *)
LEMMA I2cReleased ==
  I2cIInv /\ I2cFollows /\ I2c!Next => (i2c_irq => I2c!sda /\ scl /\ s_state' = "IDLE")
<1>. SUFFICES ASSUME I2cIInv, I2cFollows, NEW w \in I2c!Writes, NEW given,
       I2c!Edge(w, given), i2c_irq
              PROVE  I2c!sda /\ scl /\ s_state' = "IDLE"
  BY DEF I2c!Next
<1>1. i2c_state = "IDLE" /\ I2cLags
  BY DEF I2cIInv, I2cStatus, I2cLags
<1>2. SlaveDone(FALSE) /\ scl /\ ~sda_drive_low /\ scl_prev /\ ~sda_prev
  BY <1>1 DEF I2cIInv, I2cSlave, I2cLagging, I2cLine, I2cSeen, firstBit, I2c!drivesLow
<1>3. I2c!sda
  BY <1>2 DEF SlaveDone, Listens, WaitsStop, InReadAck, I2c!sda
<1>4. I2cParts' /\ I2c!Idle(w)
  BY <1>1, I2cRestStep, I2cMasterStep
<1>5. ~I2cLags'
  BY <1>4 DEF I2cLags, I2c!Idle, I2cIInv, I2cStatus
<1>6. i2c_state' = "IDLE" \/ (i2c_state' = "START" /\ ~phase')
  BY <1>1, <1>4 DEF I2c!Idle
<1>7. Listens'
  BY <1>4, <1>5, <1>6 DEF I2cParts, I2cSlave, I2cSettled
<1>. QED BY <1>2, <1>3, <1>7 DEF Listens

-----------------------------------------------------------------------------
(* The units side by side, one of them at work.                            *)

(* What the devices are used with: a bit of the UART that its counter can  *)
(* hold, software that waits an edge before it polls, a warning before the *)
(* counter is at zero, dividers the slaves of the testbenches can follow.  *)
DevicesFit == BitFits /\ MinGap # 0 /\ WARN_MARGIN # 0 /\ SpiFollows /\ I2cFollows

DevicesIInv == TimerIInv /\ WatchdogIInv /\ UartIInv /\ Polled /\ SpiIInv /\ I2cIInv

LEMMA UnitSteps ==
  [MCNext]_MCVars =>
    /\ [TimerUseNext]_timerUseVars /\ [WatchdogUseNext]_watchdogUseVars
    /\ [UartLineNext]_uartLineVars /\ [Spi!Next]_(Spi!vars) /\ [I2c!Next]_(I2c!vars)
<1>1. UNCHANGED spiLineVars => UNCHANGED Spi!vars
  BY DEF spiLineVars, Spi!vars, Spi!spiVars, Spi!slaveVars
<1>2. UNCHANGED i2cLineVars => UNCHANGED I2c!vars
  BY DEF i2cLineVars, I2c!vars, I2c!i2cVars, I2c!slaveVars, I2c!latchedVars, I2c!statusVars
<1>. QED BY <1>1, <1>2 DEF MCNext, TimerStep, WatchdogStep, UartStep, SpiStep, I2cStep,
         MCVars

LEMMA DevicesInitInv == MCInit => DevicesIInv
<1>1. UartLineInit => Polled
  BY DEF UartLineInit, UartInit, Polled, NothingDropped
<1>. QED BY <1>1, TimerInitInv, WatchdogInitInv, UartInitInv, SpiInitInv, I2cInitInv
         DEF MCInit, DevicesIInv

LEMMA DevicesNextInv == ASSUME DevicesFit
                        PROVE DevicesIInv /\ [MCNext]_MCVars => DevicesIInv'
<1>. SUFFICES ASSUME DevicesIInv, [MCNext]_MCVars PROVE DevicesIInv'
  OBVIOUS
<1>1. TimerIInv' /\ WatchdogIInv'
  BY UnitSteps, TimerNextInv, WatchdogNextInv DEF DevicesIInv
<1>2. UartIInv' /\ Polled'
  BY UnitSteps, UartNextInv, PolledNext DEF DevicesIInv, DevicesFit
<1>3. SpiIInv'
  BY UnitSteps, SpiNextInv, SpiRests DEF DevicesIInv, DevicesFit
<1>4. I2cIInv'
  BY UnitSteps, I2cNextInv, I2cRests DEF DevicesIInv, DevicesFit
<1>. QED BY <1>1, <1>2, <1>3, <1>4 DEF DevicesIInv

LEMMA DevicesInductive == ASSUME DevicesFit PROVE MCSpec => []DevicesIInv
<1>1. DevicesIInv /\ [MCNext]_MCVars => DevicesIInv'
  BY DevicesNextInv
<1>. QED BY <1>1, DevicesInitInv, PTL DEF MCSpec

(* Whatever is written and whatever the lines carry, registers keep their  *)
(* types, whoever is interrupted finds in STATUS why, the watchdog warns   *)
(* in time, no half period is longer than DIVIDER clocks: timer.v:63-94,   *)
(* watchdog.v:69-109, spi_master.v:103-180, i2c_master.v:123-290.          *)
THEOREM DevicesKeepTheirState == ASSUME DevicesFit PROVE MCSpec => []DevicesInv
<1>1. DevicesIInv => DevicesInv
  <2>. SUFFICES ASSUME DevicesIInv PROVE DevicesInv
    OBVIOUS
  <2>1. TimerUseTypeOK /\ ExpiryIsVisible
    BY DEF DevicesIInv, TimerIInv
  <2>2. WatchdogUseTypeOK /\ WarningIsVisible /\ WarnsInTime
    BY DEF DevicesIInv, WatchdogIInv, InterruptedWhenDue, Due, WarnsInTime
  <2>3. UartLineTypeOK
    BY DEF DevicesIInv, UartIInv
  <2>. QED BY <2>1, <2>2, <2>3, SpiInvHolds, I2cInvHolds DEF DevicesIInv, DevicesInv
<1>. QED BY <1>1, DevicesInductive, PTL

(* Polling loses nothing on the UART; an SPI transfer leaves each side with*)
(* the byte of the other, in any mode and at any divider; an I2C transfer  *)
(* without NACK has carried the byte to the slave addressed, or from it,   *)
(* and NACK says that there is none: uart.v:7-9, spi_master.v:140-158,     *)
(* i2c_master.v:183, 204-262.                                              *)
THEOREM BytesCrossTheLines == ASSUME DevicesFit PROVE MCSpec => []BytesCross
<1>1. DevicesIInv => BytesCross
  BY SpiInvHolds, I2cInvHolds DEF DevicesIInv, BytesCross, Polled
<1>. QED BY <1>1, DevicesInductive, PTL

(* Interrupts are pulses, only whole frames leave the UART, SCLK rests     *)
(* around every transfer, SDA moves while SCL is high for START and STOP   *)
(* only and is released at the end.                                        *)
THEOREM LinesAreProper == ASSUME DevicesFit PROVE MCSpec => LinesKeepProtocol
<1>1. DevicesIInv /\ [MCNext]_MCVars
        => [irq_pulse /\ loaded # 0 => ~irq_pulse']_timerUseVars
  BY UnitSteps, PulseStep DEF DevicesIInv
<1>2. DevicesIInv /\ [MCNext]_MCVars
        => [interrupted => ~wdt_irq_pulse']_watchdogUseVars
  BY UnitSteps, WarningStep DEF DevicesIInv, DevicesFit
<1>3. DevicesIInv /\ [MCNext]_MCVars =>
        [received' # NoFrame =>
           /\ offer # None
           /\ received' = [i \in 1 .. DataBits + 1 |-> i = DataBits + 1 \/ offer[i - 1]]]_uartLineVars
  BY UnitSteps, FrameArrives DEF DevicesIInv, DevicesFit
<1>4. DevicesIInv /\ [MCNext]_MCVars =>
        [(cs_n # cs_n' /\ cs_n') => s_edges = 2 * SpiBits /\ sclk' = cpol_r']_(Spi!vars)
  BY UnitSteps, SpiClockRests DEF DevicesIInv, DevicesFit
<1>5. DevicesIInv /\ [MCNext]_MCVars =>
        [scl /\ scl' /\ I2c!sda # I2c!sda' =>
           (~I2c!sda' /\ i2c_state = "START") \/ (I2c!sda' /\ I2c!finishes)]_(I2c!vars)
  BY UnitSteps, I2cSdaStable DEF DevicesIInv, DevicesFit
<1>6. DevicesIInv /\ [MCNext]_MCVars =>
        [i2c_irq => I2c!sda /\ scl /\ s_state' = "IDLE"]_(I2c!vars)
  BY UnitSteps, I2cReleased DEF DevicesIInv, DevicesFit
<1>7. MCSpec => OneCyclePulse /\ WarnsOnce
  BY <1>1, <1>2, DevicesInductive, PTL DEF MCSpec, OneCyclePulse, WarnsOnce
<1>8. MCSpec => ArrivesIntact /\ Spi!ClockRests
  BY <1>3, <1>4, DevicesInductive, PTL DEF MCSpec, ArrivesIntact, Spi!ClockRests
<1>9. MCSpec => I2c!SdaIsStable /\ I2c!LineIsReleased
  BY <1>5, <1>6, DevicesInductive, PTL DEF MCSpec, I2c!SdaIsStable, I2c!LineIsReleased
<1>. QED BY <1>7, <1>8, <1>9, PTL DEF LinesKeepProtocol

-----------------------------------------------------------------------------
(* Where the program is, whatever the period.                              *)

(* What the registers and counters can hold.                               *)
Typed ==
  /\ TimerTypeOK /\ WatchdogTypeOK
  /\ irq_pending \in SUBSET Lines /\ irq_mask \in SUBSET Lines
  /\ saved_mask \in SUBSET Lines /\ q1 \in SUBSET Lines
  /\ irq_active \in BOOLEAN /\ irq_delay \in BOOLEAN /\ irq_state \in 0 .. 2
  /\ pc \in MainPcs \union IsrPcs /\ ret \in MainPcs \union IsrPcs
  /\ timer_irq_count \in Nat /\ wdt_warning_count \in Nat
  /\ TIMER_PERIOD \in TIMER_PERIODS
  /\ reported \in 0 .. MaxPulses /\ stall \in 0 .. MaxStall /\ pulses \in 0 .. MaxPulses

(* Where main is, also while the handler runs.                             *)
mainPc == IF irq_active THEN ret ELSE pc

(* The core's and the firmware's idea of an interrupt agree, and only main *)
(* is ever interrupted.                                                    *)
Bearings ==
  /\ irq_active <=> pc \in IsrPcs
  /\ irq_state = 1 => ~irq_active
  /\ irq_state = 2 => pc = "irq_vec"
  /\ ret \in MainPcs \ {"reset", "hello", "reload", "enable"} \/ ~irq_active

(* What is masked where, and why the handler is at a step.                 *)
Masks ==
  /\ pc \in (MainPcs \ {"reset"}) \union {"irq_vec", "retirq"} => irq_mask = {}
  /\ pc \in IsrPcs \ {"irq_vec"} => saved_mask = {}
  /\ pc \in {"clear", "kick", "stop"} => "timer" \in q1
  /\ pc = "stop" => counted
  /\ pc = "warn" => "wdt" \in q1

(* What main has not set up yet is as the reset left it.                   *)
Starting ==
  /\ mainPc \in {"reset", "hello", "reload", "enable"} =>
       /\ ~irq_active /\ irq_state = 0 /\ irq_pending = {}
       /\ ~ctrl_en /\ ~irq_pulse /\ timer_irq_count = 0 /\ pulses = 0
  /\ mainPc \in {"reset", "hello", "reload", "enable", "timeout", "watch"} =>
       ~wdt_en /\ ~wdt_irq_pulse /\ ~status_warning /\ "wdt" \notin irq_pending
  /\ mainPc \notin {"reset", "hello", "reload"} => reload_reg = TIMER_PERIOD
  /\ mainPc \notin {"reset", "hello", "reload", "enable", "timeout"} =>
       timeout_reg = WDT_TIMEOUT_CYCLES

(* A timer interrupt that has yet to be counted.                           *)
claimed == "timer" \in q1 /\ irq_state = 0 /\ pc \in {"irq_vec", "handler", "clear"}
due == irq_pulse \/ "timer" \in irq_pending \/ claimed

(* The handler stops the timer when it has counted enough; at most one more *)
(* interrupt is on its way then.                                           *)
Counts ==
  /\ irq_pulse /\ ~ctrl_en => pc \in {"warn", "restore"}
  /\ ctrl_en => timer_irq_count <= TARGET_TIMER_IRQS
  /\ ctrl_en /\ counted => pc \in {"kick", "stop"}
  /\ ~ctrl_en => timer_irq_count <= TARGET_TIMER_IRQS + (IF due THEN 0 ELSE 1)
  /\ ctrl_en \/ counted \/ mainPc \in {"reset", "hello", "reload", "enable"}
  /\ ~ctrl_en /\ claimed => ~irq_pulse /\ "timer" \notin irq_pending

-----------------------------------------------------------------------------
(* How long things take, in edges.                                         *)

(* The most edges one program step takes.                                  *)
Patience == MaxStall + 1

(* At most how long until the core takes an interrupt that is pending, from *)
(* the first edge of the program step; until the timer is stopped, when the *)
(* handler is about to stop it.                                            *)
TimeToTrigger ==
  CASE pc = "irq_vec" -> IF "timer" \in q1 THEN 9 * Patience + 2 ELSE 7 * Patience + 2
    [] pc = "handler" -> IF "timer" \in q1 THEN 8 * Patience + 2 ELSE 6 * Patience + 2
    [] pc = "clear"   -> 7 * Patience + 2
    [] pc = "kick"    -> IF counted THEN 2 * Patience ELSE 6 * Patience + 2
    [] pc = "stop"    -> Patience
    [] pc = "warn"    -> 5 * Patience + 2
    [] pc = "restore" -> 4 * Patience + 2
    [] pc = "retirq"  -> 3 * Patience + 2
    [] pc \in MainPcs -> IF irq_delay THEN 2 * Patience + 2 ELSE Patience + 2

(* At most how long until it claims it.                                    *)
ClaimIn == CASE irq_state = 0 -> TimeToTrigger - stall
             [] irq_state = 1 -> 2
             [] irq_state = 2 -> 1

(* A timer interrupt is claimed before the next one is pending.            *)
Served ==
  Unhurried =>
    /\ ~(irq_pulse /\ "timer" \in irq_pending)
    /\ ctrl_en =>
       /\ count <= TIMER_PERIOD
       /\ irq_pulse => count = TIMER_PERIOD /\ ClaimIn < count
       /\ "timer" \in irq_pending => ClaimIn <= count

(* What has not been counted yet, as numbers.                              *)
Bit(b) == IF b THEN 1 ELSE 0
Unserved == Bit(irq_pulse) + Bit("timer" \in irq_pending) + Bit(claimed)
OnceEach == Unhurried => pulses = timer_irq_count + Unserved

(* The handler runs for the timer and has not kicked yet.                  *)
serving == irq_state = 0 /\ "timer" \in q1 /\ pc \in {"irq_vec", "handler", "clear", "kick"}

(* At most how long until the next kick.                                   *)
TimeToKick ==
  CASE pc = "irq_vec" -> 4 * Patience
    [] pc = "handler" -> 3 * Patience
    [] pc = "clear"   -> 2 * Patience
    [] pc = "kick"    -> Patience

KickIn ==
  IF serving THEN TimeToKick - stall
  ELSE IF "timer" \in irq_pending THEN ClaimIn + 4 * Patience
  ELSE IF irq_pulse THEN 5 * Patience + 3
  ELSE count + 5 * Patience + 4

(* Until enough are counted the watchdog keeps quiet, and without its      *)
(* interrupts the handler ends before the next one of the timer.           *)
Fed ==
  /\ ~counted =>
     /\ wdt_warning_count = 0 /\ ~status_warning /\ ~wdt_irq_pulse /\ "wdt" \notin irq_pending
     /\ irq_active /\ irq_state = 0 => q1 = {"timer"}
     /\ irq_state # 0 => "timer" \in irq_pending
  /\ ~counted /\ wdt_en => KickIn + WARN_MARGIN <= wdt_count
  /\ ~counted /\ ctrl_en =>
     /\ irq_pulse => ClaimIn <= Patience + 2
     /\ "timer" \in irq_pending => ClaimIn + TIMER_PERIOD <= count + Patience + 3
     /\ ClaimIn <= count + Patience + 3

(* After that no timer interrupt comes any more.                           *)
Over ==
  counted =>
     /\ timer_irq_count = TARGET_TIMER_IRQS
     /\ ~irq_pulse /\ "timer" \notin irq_pending /\ ~claimed
     /\ ctrl_en => ClaimIn <= count
     /\ ~ctrl_en => pc \notin {"clear", "kick", "stop"}

(* main leaves its loop when enough are counted, and reports that many.    *)
Reported ==
    /\ mainPc = "done" => reported = TARGET_TIMER_IRQS
    /\ mainPc \in {"report", "done"} => counted

IrqIInv ==
  /\ Typed /\ Bearings /\ Masks /\ Starting /\ Counts /\ Served /\ OnceEach
  /\ WellFed => Fed /\ Over /\ Reported

-----------------------------------------------------------------------------
(* The types.                                                              *)

LEMMA TimerTyped ==
  ASSUME TimerTypeOK, NEW w, TimerEdge(w), w.reg = "CTRL" => w.value \in BOOLEAN,
         w.reg = "RELOAD" => w.value \in Count
  PROVE  TimerTypeOK'
<1>1. ctrl_en' \in BOOLEAN /\ reload_reg' \in Count
  BY DEF TimerTypeOK, TimerEdge
<1>2. status_expired' \in BOOLEAN /\ irq_pulse' \in BOOLEAN
  BY DEF TimerTypeOK, TimerEdge, next_expired, irq, expires
<1>3. count' \in Count
  BY TimerAssumption DEF TimerTypeOK, TimerEdge, next_count, Count
<1>. QED BY <1>1, <1>2, <1>3 DEF TimerTypeOK

LEMMA WatchdogTyped ==
  ASSUME WatchdogTypeOK, NEW w, WatchdogEdge(w), w.reg = "CTRL" => w.value \in BOOLEAN,
         w.reg = "TIMEOUT" => w.value \in WdtCount
  PROVE  WatchdogTypeOK'
<1>1. wdt_en' \in BOOLEAN /\ timeout_reg' \in WdtCount
  BY DEF WatchdogTypeOK, WatchdogEdge
<1>2. status_warning' \in BOOLEAN /\ status_reset_req' \in BOOLEAN /\ wdt_irq_pulse' \in BOOLEAN
  BY DEF WatchdogTypeOK, WatchdogEdge, next_warning, next_reset_req, warned
<1>3. wdt_count' \in WdtCount
  BY WatchdogAssumption DEF WatchdogTypeOK, WatchdogEdge, next_wdt_count, WdtCount
<1>. QED BY <1>1, <1>2, <1>3 DEF WatchdogTypeOK

LEMMA TimerIsWritten ==
  /\ timer_write.reg = "CTRL" <=> pc \in {"enable", "stop"}
  /\ timer_write.reg = "RELOAD" <=> pc = "reload"
  /\ pc = "reload" => timer_write.value = TIMER_PERIOD
  /\ pc = "enable" => timer_write.value = TRUE
  /\ pc = "stop" => timer_write.value = FALSE
<1>1. CASE pc = "reload"
  BY <1>1 DEF timer_write
<1>2. CASE pc = "enable"
  BY <1>2 DEF timer_write
<1>3. CASE pc = "clear"
  BY <1>3 DEF timer_write
<1>4. CASE pc = "stop"
  BY <1>4 DEF timer_write
<1>5. CASE pc \notin {"reload", "enable", "clear", "stop"}
  BY <1>5 DEF timer_write, NoWrite
<1>. QED BY <1>1, <1>2, <1>3, <1>4, <1>5

LEMMA WatchdogIsWritten ==
  /\ wdt_write.reg = "KICK" <=> pc = "kick"
  /\ wdt_write.reg = "CTRL" <=> pc = "watch"
  /\ wdt_write.reg = "TIMEOUT" <=> pc = "timeout"
  /\ pc = "timeout" => wdt_write.value = WDT_TIMEOUT_CYCLES
  /\ pc = "watch" => wdt_write.value = TRUE
<1>1. CASE pc = "timeout"
  BY <1>1 DEF wdt_write
<1>2. CASE pc = "watch"
  BY <1>2 DEF wdt_write
<1>3. CASE pc = "kick"
  BY <1>3 DEF wdt_write
<1>4. CASE pc \notin {"timeout", "watch", "kick"}
  BY <1>4 DEF wdt_write, NoWrite
<1>. QED BY <1>1, <1>2, <1>3, <1>4

LEMMA DevicesTyped ==
  ASSUME Typed, NEW tw, NEW ww, Devices(tw, ww),
         tw \in {NoWrite, timer_write}, ww \in {NoWrite, wdt_write}
  PROVE  /\ TimerTypeOK' /\ WatchdogTypeOK' /\ irq_pending' \in SUBSET Lines
         /\ pulses' \in 0 .. MaxPulses
<1>1. /\ tw.reg = "CTRL" => tw.value \in BOOLEAN
      /\ tw.reg = "RELOAD" => tw.value \in Count
  <2>1. CASE tw = NoWrite
    BY <2>1 DEF NoWrite
  <2>2. CASE tw = timer_write
    BY <2>2, TimerIsWritten, SocAssumption DEF Typed
  <2>. QED BY <2>1, <2>2
<1>2. /\ ww.reg = "CTRL" => ww.value \in BOOLEAN
      /\ ww.reg = "TIMEOUT" => ww.value \in WdtCount
  <2>1. CASE ww = NoWrite
    BY <2>1 DEF NoWrite
  <2>2. CASE ww = wdt_write
    BY <2>2, WatchdogIsWritten, SocAssumption
  <2>. QED BY <2>1, <2>2
<1>3. TimerTypeOK' /\ WatchdogTypeOK'
  BY <1>1, <1>2, TimerTyped, WatchdogTyped DEF Typed, Devices
<1>4. irq_pending' \in SUBSET Lines
  BY DEF Devices, next_irq_pending, irq_lines, Typed
<1>5. pulses' \in 0 .. MaxPulses
  BY SocAssumption DEF Devices, Typed, MaxPulses
<1>. QED BY <1>3, <1>4, <1>5

LEMMA TypedStep ==
  ASSUME Typed, Counts, Next
  PROVE  Typed'
<1>0. TIMER_PERIOD' \in TIMER_PERIODS
  BY DEF Next, Typed
<1>1. CASE Stall
  <2>1. /\ TimerTypeOK' /\ WatchdogTypeOK' /\ irq_pending' \in SUBSET Lines
        /\ pulses' \in 0 .. MaxPulses
    BY <1>1, DevicesTyped DEF Stall
  <2>2. stall' \in 0 .. MaxStall
    BY <1>1, SocAssumption DEF Stall, Typed
  <2>. QED BY <1>0, <1>1, <2>1, <2>2 DEF Stall, Typed, coreVars, fwVars
<1>2. CASE Enter
  <2>1. /\ TimerTypeOK' /\ WatchdogTypeOK' /\ irq_pending' \in SUBSET Lines
        /\ pulses' \in 0 .. MaxPulses
    BY <1>2, DevicesTyped DEF Enter
  <2>2. stall' \in 0 .. MaxStall
    BY <1>2, SocAssumption DEF Enter
  <2>3. CASE IrqTrigger
    BY <1>0, <2>1, <2>2, <2>3 DEF IrqTrigger, Typed, fwVars
  <2>4. CASE IrqVector
    BY <1>0, <2>1, <2>2, <2>4 DEF IrqVector, Typed, IsrPcs
  <2>5. CASE IrqClaim
    BY <1>0, <2>1, <2>2, <2>5 DEF IrqClaim, Typed, fwVars, unmasked
  <2>. QED BY <1>2, <2>3, <2>4, <2>5 DEF Enter
<1>3. CASE Execute
  <2>1. /\ TimerTypeOK' /\ WatchdogTypeOK' /\ irq_pending' \in SUBSET Lines
        /\ pulses' \in 0 .. MaxPulses
    BY <1>3, DevicesTyped DEF Execute
  <2>2. stall' \in 0 .. MaxStall
    BY <1>3, SocAssumption DEF Execute
  <2>3. pc' \in MainPcs \union IsrPcs
    BY <1>3 DEF Execute, Program, next_pc, afterTimer, Typed, MainPcs, IsrPcs
  <2>4. irq_mask' \in SUBSET Lines /\ saved_mask' \in SUBSET Lines /\ irq_active' \in BOOLEAN
    BY <1>3 DEF Execute, Program, CoreStep, Typed
  <2>5. timer_irq_count' \in Nat /\ wdt_warning_count' \in Nat
    BY <1>3 DEF Execute, Program, Typed
  <2>6. reported' \in 0 .. MaxPulses
    BY <1>3, SocAssumption DEF Execute, Program, Typed, Counts, MaxPulses
  <2>7. /\ irq_state' = irq_state /\ q1' = q1 /\ ret' = ret /\ irq_delay' = irq_active
    BY <1>3 DEF Execute, Program
  <2>. QED BY <1>0, <2>1, <2>2, <2>3, <2>4, <2>5, <2>6, <2>7 DEF Typed
<1>. QED BY <1>1, <1>2, <1>3 DEF Next

-----------------------------------------------------------------------------
(* One step of the program, of the devices and of the pending bits.        *)

LEMMA ProgramCounter ==
  ASSUME Typed, Program
  PROVE  /\ pc = "reset"   => pc' = "hello"
         /\ pc = "hello"   => pc' = "reload"
         /\ pc = "reload"  => pc' = "enable"
         /\ pc = "enable"  => pc' = "timeout"
         /\ pc = "timeout" => pc' = "watch"
         /\ pc = "watch"   => pc' = "wait"
         /\ pc = "wait"    => pc' = (IF counted THEN "report" ELSE "wait")
         /\ pc \in {"report", "done"} => pc' = "done"
         /\ pc = "irq_vec" => pc' = "handler"
         /\ pc = "handler" /\ "timer" \in q1 => pc' = "clear"
         /\ pc = "clear"   => pc' = "kick"
         /\ pc = "kick" /\ counted => pc' = "stop"
         /\ (pc = "handler" /\ "timer" \notin q1) \/ (pc = "kick" /\ ~counted) \/ pc = "stop"
               => pc' = (IF "wdt" \in q1 THEN "warn" ELSE "restore")
         /\ pc = "warn"    => pc' = "restore"
         /\ pc = "restore" => pc' = "retirq"
         /\ pc = "retirq"  => pc' = ret
  BY DEF Program, next_pc, afterTimer

LEMMA BearingsStep ==
  ASSUME Typed, Bearings, Masks, Starting, Next
  PROVE  Bearings'
<1>1. CASE Stall
  BY <1>1 DEF Stall, coreVars, fwVars, Bearings
<1>2. CASE Enter
  <2>1. CASE IrqTrigger
    BY <2>1 DEF IrqTrigger, Bearings, fwVars, takes_irq
  <2>2. CASE IrqVector
    BY <2>2 DEF IrqVector, Bearings, Typed, Starting, mainPc, MainPcs, IsrPcs
  <2>3. CASE IrqClaim
    BY <2>3 DEF IrqClaim, Bearings, fwVars
  <2>. QED BY <1>2, <2>1, <2>2, <2>3 DEF Enter
<1>3. CASE Execute
  <2>1. Program
    BY <1>3 DEF Execute
  <2>2. irq_active' = (irq_active /\ pc # "retirq") /\ irq_state' = 0 /\ irq_state = 0 /\ ret' = ret
    BY <2>1 DEF Program, CoreStep
  <2>3. irq_active' <=> pc' \in IsrPcs
    <3>1. CASE irq_active
      BY <2>1, <2>2, <3>1, ProgramCounter DEF Bearings, MainPcs, IsrPcs
    <3>2. CASE ~irq_active
      BY <2>1, <2>2, <3>2, ProgramCounter DEF Bearings, Typed, MainPcs, IsrPcs
    <3>. QED BY <3>1, <3>2
  <2>4. ~irq_active' \/ ret' \in MainPcs \ {"reset", "hello", "reload", "enable"}
    BY <2>2 DEF Bearings
  <2>. QED BY <2>2, <2>3, <2>4 DEF Bearings
<1>. QED BY <1>1, <1>2, <1>3 DEF Next

LEMMA MasksStep ==
  ASSUME Typed, Bearings, Masks, Starting, Next
  PROVE  Masks'
<1>1. CASE Stall
  BY <1>1 DEF Stall, coreVars, fwVars, Masks, counted
<1>2. CASE Enter
  <2>1. CASE IrqTrigger
    BY <2>1 DEF IrqTrigger, Masks, fwVars, counted
  <2>2. CASE IrqVector
    BY <2>2 DEF IrqVector, Bearings, Masks, Starting, mainPc, MainPcs, IsrPcs, Typed
  <2>3. CASE IrqClaim
    BY <2>3 DEF IrqClaim, Masks, fwVars, Bearings, counted
  <2>. QED BY <1>2, <2>1, <2>2, <2>3 DEF Enter
<1>3. CASE Execute
  <2>1. Program
    BY <1>3 DEF Execute
  <2>2. /\ irq_mask' = (IF pc = "reset" THEN {} ELSE IF pc = "irq_vec" THEN Lines
                        ELSE IF pc = "restore" THEN saved_mask ELSE irq_mask)
        /\ saved_mask' = (IF pc = "irq_vec" THEN irq_mask ELSE saved_mask)
        /\ q1' = q1 /\ (pc # "clear" => timer_irq_count' = timer_irq_count)
    BY <2>1 DEF Program, CoreStep
  <2>3. pc \in MainPcs \union IsrPcs /\ (pc = "retirq" => ret \in MainPcs \ {"reset"})
    BY DEF Bearings, Typed, IsrPcs
  <2>4. pc' = "retirq" => pc = "restore"
    BY <2>1, <2>3, ProgramCounter DEF MainPcs, IsrPcs
  <2>5. pc' \in (MainPcs \ {"reset"}) => pc \in MainPcs \union {"retirq"}
    BY <2>1, <2>3, ProgramCounter DEF MainPcs, IsrPcs
  <2>6. pc' # "irq_vec" /\ (pc' \in IsrPcs => pc \in IsrPcs)
    BY <2>1, <2>3, ProgramCounter DEF MainPcs, IsrPcs
  <2>7. pc' \in (MainPcs \ {"reset"}) \union {"irq_vec", "retirq"} => irq_mask' = {}
    BY <2>2, <2>3, <2>4, <2>5, <2>6 DEF Masks, MainPcs, IsrPcs
  <2>8. pc' \in IsrPcs \ {"irq_vec"} => saved_mask' = {}
    BY <2>2, <2>3, <2>6 DEF Masks, IsrPcs
  <2>9. /\ pc' \in {"clear", "kick", "stop"} => "timer" \in q1'
        /\ pc' = "stop" => pc = "kick" /\ counted
        /\ pc' = "warn" => "wdt" \in q1'
    BY <2>1, <2>2, <2>3, ProgramCounter DEF Masks, MainPcs, IsrPcs
  <2>. QED BY <2>2, <2>7, <2>8, <2>9 DEF Masks, counted
<1>. QED BY <1>1, <1>2, <1>3 DEF Next

LEMMA UnwrittenDevices ==
  ASSUME Typed, Devices(NoWrite, NoWrite)
  PROVE  /\ (ctrl_en' <=> ctrl_en) /\ reload_reg' = reload_reg
         /\ (irq_pulse' <=> ctrl_en /\ count = 0)
         /\ count' = (IF ctrl_en THEN IF count = 0 THEN reload_reg ELSE count - 1 ELSE count)
         /\ (wdt_en' <=> wdt_en) /\ timeout_reg' = timeout_reg
         /\ (status_warning' <=> warns \/ status_warning) /\ (wdt_irq_pulse' <=> warns)
         /\ wdt_count' = (IF wdt_en /\ wdt_count # 0 THEN wdt_count - 1 ELSE wdt_count)
<1>1. NoWrite.reg = "none"
  BY DEF NoWrite
<1>2. ~write_ctrl_en(NoWrite) /\ ~clears(NoWrite) /\ ~restart(NoWrite)
  BY <1>1 DEF write_ctrl_en, clears, restart
<1>3. warns \in BOOLEAN
  BY DEF warns
<1>4. status_warning \in BOOLEAN
  BY DEF Typed, WatchdogTypeOK
<1>5. /\ (ctrl_en' <=> ctrl_en) /\ reload_reg' = reload_reg
      /\ (irq_pulse' <=> ctrl_en /\ count = 0)
      /\ count' = (IF ctrl_en THEN IF count = 0 THEN reload_reg ELSE count - 1 ELSE count)
  BY <1>1, <1>2 DEF Devices, TimerEdge, irq, expires, next_count
<1>6. /\ (wdt_en' <=> wdt_en) /\ timeout_reg' = timeout_reg /\ (wdt_irq_pulse' <=> warns)
      /\ wdt_count' = (IF wdt_en /\ wdt_count # 0 THEN wdt_count - 1 ELSE wdt_count)
  BY <1>1, <1>2, <1>3 DEF Devices, WatchdogEdge, next_wdt_count, warned
<1>7. (status_warning' <=> warns \/ status_warning)
  BY <1>1, <1>2, <1>3, <1>4 DEF Devices, WatchdogEdge, next_warning
<1>. QED BY <1>5, <1>6, <1>7

LEMMA WrittenDevices ==
  ASSUME Typed, Devices(timer_write, wdt_write)
  PROVE  /\ (ctrl_en' <=> pc = "enable" \/ (ctrl_en /\ pc # "stop"))
         /\ reload_reg' = (IF pc = "reload" THEN TIMER_PERIOD ELSE reload_reg)
         /\ (irq_pulse' <=> ctrl_en /\ count = 0 /\ pc # "enable")
         /\ count' = (IF pc = "enable" \/ (ctrl_en /\ count = 0) THEN reload_reg
                      ELSE IF ctrl_en THEN count - 1 ELSE count)
         /\ (wdt_en' <=> wdt_en \/ pc = "watch")
         /\ timeout_reg' = (IF pc = "timeout" THEN WDT_TIMEOUT_CYCLES ELSE timeout_reg)
         /\ (status_warning' <=> pc \notin {"kick", "watch"} /\ (warns \/ status_warning))
         /\ (wdt_irq_pulse' <=> pc \notin {"kick", "watch"} /\ warns)
         /\ wdt_count' = (IF pc \in {"kick", "watch"} THEN timeout_reg
                          ELSE IF wdt_en /\ wdt_count # 0 THEN wdt_count - 1 ELSE wdt_count)
<1>1. write_ctrl_en(timer_write) <=> pc = "enable"
  BY TimerIsWritten DEF write_ctrl_en
<1>2. restart(wdt_write) <=> pc \in {"kick", "watch"}
  BY WatchdogIsWritten DEF restart
<1>3. wdt_write.reg # "STATUS"
  BY WatchdogIsWritten DEF wdt_write, NoWrite
<1>4. warns \in BOOLEAN
  BY DEF warns
<1>5. status_warning \in BOOLEAN
  BY DEF Typed, WatchdogTypeOK
<1>6. /\ (ctrl_en' <=> pc = "enable" \/ (ctrl_en /\ pc # "stop"))
      /\ reload_reg' = (IF pc = "reload" THEN TIMER_PERIOD ELSE reload_reg)
  BY TimerIsWritten DEF Devices, TimerEdge
<1>7. /\ (irq_pulse' <=> ctrl_en /\ count = 0 /\ pc # "enable")
      /\ count' = (IF pc = "enable" \/ (ctrl_en /\ count = 0) THEN reload_reg
                   ELSE IF ctrl_en THEN count - 1 ELSE count)
  BY <1>1 DEF Devices, TimerEdge, irq, expires, next_count
<1>8. /\ (wdt_en' <=> wdt_en \/ pc = "watch")
      /\ timeout_reg' = (IF pc = "timeout" THEN WDT_TIMEOUT_CYCLES ELSE timeout_reg)
  BY WatchdogIsWritten DEF Devices, WatchdogEdge
<1>9. /\ (wdt_irq_pulse' <=> pc \notin {"kick", "watch"} /\ warns)
      /\ wdt_count' = (IF pc \in {"kick", "watch"} THEN timeout_reg
                       ELSE IF wdt_en /\ wdt_count # 0 THEN wdt_count - 1 ELSE wdt_count)
  BY <1>2 DEF Devices, WatchdogEdge, next_wdt_count, warned
<1>10. (status_warning' <=> pc \notin {"kick", "watch"} /\ (warns \/ status_warning))
  BY <1>2, <1>3, <1>4, <1>5 DEF Devices, WatchdogEdge, next_warning
<1>. QED BY <1>6, <1>7, <1>8, <1>9, <1>10

LEMMA MainMoves ==
  ASSUME Typed, Bearings, Next
  PROVE  /\ Stall \/ Enter \/ irq_active => mainPc' = mainPc
         /\ Execute /\ ~irq_active =>
              ~irq_active' /\ pc \in MainPcs /\ mainPc = pc /\ mainPc' = pc'
<1>1. ASSUME Stall PROVE mainPc' = mainPc
  BY <1>1 DEF Stall, coreVars, fwVars, mainPc
<1>2. ASSUME Enter PROVE mainPc' = mainPc
  <2>1. CASE IrqTrigger
    BY <2>1 DEF IrqTrigger, fwVars, mainPc
  <2>2. CASE IrqVector
    BY <2>2 DEF IrqVector, Bearings, mainPc
  <2>3. CASE IrqClaim
    BY <2>3 DEF IrqClaim, fwVars, mainPc
  <2>. QED BY <1>2, <2>1, <2>2, <2>3 DEF Enter
<1>3. ASSUME Execute PROVE /\ irq_active => mainPc' = mainPc
                           /\ ~irq_active => ~irq_active' /\ pc \in MainPcs /\ mainPc = pc
                                             /\ mainPc' = pc'
  <2>1. Program
    BY <1>3 DEF Execute
  <2>2. irq_active' = (irq_active /\ pc # "retirq") /\ ret' = ret
    BY <2>1 DEF Program, CoreStep
  <2>3. CASE irq_active /\ pc # "retirq"
    BY <2>2, <2>3 DEF mainPc
  <2>4. CASE irq_active /\ pc = "retirq"
    BY <2>1, <2>2, <2>4, ProgramCounter DEF mainPc
  <2>5. CASE ~irq_active
    BY <2>2, <2>5 DEF mainPc, Bearings, Typed
  <2>. QED BY <2>3, <2>4, <2>5 DEF Typed
<1>. QED BY <1>1, <1>2, <1>3 DEF Next

LEMMA Latches ==
  ASSUME Typed, Bearings, Masks, Next
  PROVE  /\ "timer" \in irq_pending' <=> irq_pulse \/ ("timer" \in irq_pending /\ irq_state # 2)
         /\ "wdt" \in irq_pending' <=> wdt_irq_pulse \/ ("wdt" \in irq_pending /\ irq_state # 2)
<1>1. irq_pending' = next_irq_pending
  BY DEF Next, Stall, Enter, Execute, Devices
<1>2. irq_state = 2 => irq_mask = {}
  BY DEF Bearings, Masks
<1>3. "timer" \in irq_lines <=> irq_pulse
  BY DEF irq_lines, Lines
<1>4. "wdt" \in irq_lines <=> wdt_irq_pulse
  BY DEF irq_lines, Lines
<1>. QED BY <1>1, <1>2, <1>3, <1>4 DEF next_irq_pending

LEMMA StartingStep ==
  ASSUME Typed, Bearings, Masks, Starting, Next
  PROVE  Starting'
<1>. DEFINE Early == {"reset", "hello", "reload", "enable"}
<1>1. mainPc \in MainPcs
  BY DEF Bearings, Typed, mainPc
<1>2. mainPc' \in Early =>
        /\ ~irq_active' /\ irq_state' = 0 /\ irq_pending' = {}
        /\ ~ctrl_en' /\ ~irq_pulse' /\ timer_irq_count' = 0 /\ pulses' = 0
  <2>. SUFFICES ASSUME mainPc' \in Early PROVE
        /\ ~irq_active' /\ irq_state' = 0 /\ irq_pending' = {}
        /\ ~ctrl_en' /\ ~irq_pulse' /\ timer_irq_count' = 0 /\ pulses' = 0
    OBVIOUS
  <2>1. mainPc \in Early /\ (Execute => pc \in Early \ {"enable"})
    <3>1. ASSUME Execute, ~irq_active PROVE pc \in Early \ {"enable"} /\ mainPc = pc
      BY <3>1, MainMoves, ProgramCounter DEF Execute, MainPcs
    <3>2. mainPc \in Early
      BY <3>1, MainMoves DEF Next
    <3>3. ~irq_active
      BY <3>2 DEF Starting
    <3>. QED BY <3>1, <3>2, <3>3
  <2>2. /\ ~irq_active /\ irq_state = 0 /\ irq_pending = {}
        /\ ~ctrl_en /\ ~irq_pulse /\ timer_irq_count = 0 /\ pulses = 0
        /\ ~wdt_en /\ ~wdt_irq_pulse
    BY <2>1 DEF Starting
  <2>3. ~Enter
    BY <2>2 DEF Enter, IrqTrigger, takes_irq, unmasked, IrqVector, IrqClaim
  <2>4. irq_pending' = {}
    <3>1. irq_lines = {}
      BY <2>2 DEF irq_lines, Lines
    <3>. QED BY <2>2, <3>1 DEF Next, Stall, Enter, Execute, Devices, next_irq_pending
  <2>5. CASE Stall
    <3>1. ~ctrl_en' /\ ~irq_pulse'
      BY <2>2, <2>5, UnwrittenDevices DEF Stall
    <3>. QED BY <2>2, <2>4, <2>5, <3>1 DEF Stall, coreVars, fwVars, Devices
  <2>6. CASE Execute
    <3>1. ~ctrl_en' /\ ~irq_pulse'
      BY <2>1, <2>2, <2>6, WrittenDevices DEF Execute
    <3>2. ~irq_active' /\ irq_state' = 0
      BY <2>2, <2>6 DEF Execute, Program, CoreStep
    <3>3. timer_irq_count' = 0
      BY <2>1, <2>2, <2>6 DEF Execute, Program
    <3>4. pulses' = 0
      BY <2>2, <2>6, <3>1 DEF Execute, Devices
    <3>. QED BY <2>4, <3>1, <3>2, <3>3, <3>4
  <2>. QED BY <2>3, <2>5, <2>6 DEF Next
<1>3. mainPc' \in Early \union {"timeout", "watch"} =>
        ~wdt_en' /\ ~wdt_irq_pulse' /\ ~status_warning' /\ "wdt" \notin irq_pending'
  <2>. SUFFICES ASSUME mainPc' \in Early \union {"timeout", "watch"} PROVE
        ~wdt_en' /\ ~wdt_irq_pulse' /\ ~status_warning' /\ "wdt" \notin irq_pending'
    OBVIOUS
  <2>1. mainPc \in Early \union {"timeout", "watch"} /\ (Execute => pc # "watch")
    <3>1. ASSUME Execute, ~irq_active
          PROVE  pc \in Early \union {"timeout"} /\ mainPc = pc
      BY <3>1, MainMoves, ProgramCounter DEF Execute, MainPcs
    <3>2. mainPc \in Early \union {"timeout", "watch"}
      BY <3>1, MainMoves DEF Next
    <3>3. irq_active => pc # "watch"
      BY DEF Bearings, IsrPcs
    <3>. QED BY <3>1, <3>2, <3>3
  <2>2. ~wdt_en /\ ~wdt_irq_pulse /\ ~status_warning /\ "wdt" \notin irq_pending
    BY <2>1 DEF Starting
  <2>3. ~warns
    BY <2>2 DEF warns
  <2>4. CASE Stall \/ Enter
    BY <2>2, <2>3, <2>4, UnwrittenDevices, Latches DEF Stall, Enter
  <2>5. CASE Execute
    BY <2>1, <2>2, <2>3, <2>5, WrittenDevices, Latches DEF Execute
  <2>. QED BY <2>4, <2>5 DEF Next
<1>4. mainPc' \notin {"reset", "hello", "reload"} => reload_reg' = TIMER_PERIOD'
  <2>0. TIMER_PERIOD' = TIMER_PERIOD
    BY DEF Next
  <2>1. CASE Stall \/ Enter
    BY <2>0, <2>1, MainMoves, UnwrittenDevices DEF Stall, Enter, Starting
  <2>2. CASE Execute /\ irq_active
    BY <2>0, <2>2, MainMoves, WrittenDevices DEF Execute, Starting, Bearings, IsrPcs
  <2>3. CASE Execute /\ ~irq_active
    <3>1. pc \in {"reset", "hello"} => pc' \in {"reset", "hello", "reload"}
      BY <2>3, MainMoves, ProgramCounter DEF Execute
    <3>. QED BY <2>0, <2>3, <3>1, MainMoves, WrittenDevices DEF Execute, Starting
  <2>. QED BY <2>1, <2>2, <2>3 DEF Next
<1>5. mainPc' \notin Early \union {"timeout"} => timeout_reg' = WDT_TIMEOUT_CYCLES
  <2>1. CASE Stall \/ Enter
    BY <2>1, MainMoves, UnwrittenDevices DEF Stall, Enter, Starting
  <2>2. CASE Execute /\ irq_active
    BY <2>2, MainMoves, WrittenDevices DEF Execute, Starting, Bearings, IsrPcs
  <2>3. CASE Execute /\ ~irq_active
    <3>1. pc \in Early => pc' \in Early \union {"timeout"}
      BY <2>3, MainMoves, ProgramCounter DEF Execute
    <3>. QED BY <2>3, <3>1, MainMoves, WrittenDevices DEF Execute, Starting
  <2>. QED BY <2>1, <2>2, <2>3 DEF Next
<1>. QED BY <1>2, <1>3, <1>4, <1>5 DEF Starting

-----------------------------------------------------------------------------
(* How many interrupts are counted.                                        *)

LEMMA StepsDiffer ==
  ASSUME Typed, Stall \/ Enter
  PROVE  ~Execute
<1>1. CASE Stall
  <2>1. stall' # 0
    BY <1>1, SocAssumption DEF Stall, Typed
  <2>. QED BY <2>1 DEF Execute
<1>2. CASE Enter
  <2>1. irq_state' # 0 \/ irq_state # 0
    BY <1>2 DEF Enter, IrqTrigger, IrqVector, IrqClaim
  <2>. QED BY <2>1 DEF Execute, Program
<1>. QED BY <1>1, <1>2

LEMMA CountMoves ==
  ASSUME Typed, Next
  PROVE  /\ timer_irq_count' = (IF Execute /\ pc = "clear" THEN timer_irq_count + 1
                                ELSE timer_irq_count)
         /\ pc' # "kick" => timer_irq_count' = timer_irq_count
<1>1. ASSUME Stall \/ Enter PROVE timer_irq_count' = timer_irq_count /\ ~Execute
  BY <1>1, StepsDiffer DEF Stall, Enter, IrqTrigger, IrqVector, IrqClaim, fwVars
<1>2. ASSUME Execute
      PROVE  /\ pc # "clear" => timer_irq_count' = timer_irq_count
             /\ pc = "clear" => timer_irq_count' = timer_irq_count + 1 /\ pc' = "kick"
  BY <1>2, ProgramCounter DEF Execute, Program
<1>. QED BY <1>1, <1>2 DEF Next

LEMMA TimerStopped ==
  ASSUME Typed, Bearings, Starting, Next
  PROVE  /\ ctrl_en' => ctrl_en \/ (Execute /\ pc = "enable" /\ timer_irq_count = 0)
         /\ ctrl_en /\ ~ctrl_en' => Execute /\ pc = "stop"
         /\ ctrl_en' => ~(Execute /\ pc = "stop")
         /\ irq_pulse' => ctrl_en
<1>1. CASE Stall \/ Enter
  <2>1. ~Execute
    BY <1>1, StepsDiffer
  <2>. QED BY <1>1, <2>1, UnwrittenDevices DEF Stall, Enter
<1>2. CASE Execute
  <2>1. mainPc = "enable" => timer_irq_count = 0
    BY DEF Starting
  <2>2. pc = "enable" => mainPc = "enable"
    BY DEF Bearings, IsrPcs, mainPc
  <2>. QED BY <1>2, <2>1, <2>2, WrittenDevices DEF Execute
<1>. QED BY <1>1, <1>2 DEF Next

LEMMA CountsStep ==
  ASSUME Typed, Bearings, Masks, Starting, Counts, Next
  PROVE  Counts'
<1>. USE SocAssumption
<1>0. timer_irq_count \in Nat
  BY DEF Typed
<1>1. irq_pulse' /\ ~ctrl_en' => pc' \in {"warn", "restore"}
  <2>. SUFFICES ASSUME irq_pulse', ~ctrl_en' PROVE pc' \in {"warn", "restore"}
    OBVIOUS
  <2>1. Execute /\ pc = "stop"
    BY TimerStopped
  <2>. QED BY <2>1, ProgramCounter DEF Execute
<1>2. ctrl_en' => timer_irq_count' <= TARGET_TIMER_IRQS
  BY <1>0, TimerStopped, CountMoves DEF Counts, counted
<1>3. ctrl_en' /\ counted' => pc' \in {"kick", "stop"}
  <2>. SUFFICES ASSUME ctrl_en', counted' PROVE pc' \in {"kick", "stop"}
    OBVIOUS
  <2>1. CASE pc' # "kick"
    <3>1. counted
      BY <2>1, CountMoves DEF counted
    <3>2. pc \in {"kick", "stop"}
      BY <1>0, <3>1, TimerStopped DEF Counts, counted
    <3>3. CASE Stall
      BY <3>2, <3>3 DEF Stall, fwVars
    <3>4. CASE Enter
      BY <3>2, <3>4 DEF Enter, IrqTrigger, IrqVector, IrqClaim, Bearings, fwVars, IsrPcs
    <3>5. CASE Execute
      BY <3>1, <3>2, <3>5, ProgramCounter, TimerStopped DEF Execute
    <3>. QED BY <3>3, <3>4, <3>5 DEF Next
  <2>. QED BY <2>1
<1>4. claimed' => claimed \/ (irq_state = 2 /\ "timer" \in irq_pending)
  <2>. SUFFICES ASSUME claimed' PROVE claimed \/ (irq_state = 2 /\ "timer" \in irq_pending)
    OBVIOUS
  <2>1. CASE Stall
    BY <2>1 DEF Stall, coreVars, fwVars, claimed
  <2>2. CASE Enter
    BY <2>2 DEF Enter, IrqTrigger, IrqVector, IrqClaim, claimed, unmasked, fwVars
  <2>3. CASE Execute
    <3>1. q1' = q1 /\ irq_state = 0
      BY <2>3 DEF Execute, Program
    <3>2. pc' \in {"irq_vec", "handler", "clear"} => pc \in {"irq_vec", "handler"} \/ pc = "retirq"
      BY <2>3, ProgramCounter DEF Execute, Typed, MainPcs, IsrPcs
    <3>3. pc = "retirq" => pc' \in MainPcs
      BY <2>3, ProgramCounter DEF Execute, Bearings, IsrPcs
    <3>. QED BY <3>1, <3>2, <3>3 DEF claimed, MainPcs
  <2>. QED BY <2>1, <2>2, <2>3 DEF Next
<1>5. ~ctrl_en' /\ claimed' => ~irq_pulse' /\ "timer" \notin irq_pending'
  <2>. SUFFICES ASSUME ~ctrl_en', claimed' PROVE ~irq_pulse' /\ "timer" \notin irq_pending'
    OBVIOUS
  <2>1. ~ctrl_en
    <3>. SUFFICES ASSUME ctrl_en PROVE FALSE
      OBVIOUS
    <3>1. pc' \in {"warn", "restore"}
      BY TimerStopped, ProgramCounter DEF Execute
    <3>. QED BY <3>1 DEF claimed
  <2>2. ~irq_pulse'
    BY <2>1, TimerStopped
  <2>3. "timer" \notin irq_pending'
    BY <1>4, <2>1, Latches DEF Counts, Bearings
  <2>. QED BY <2>2, <2>3
<1>6. ~ctrl_en' => timer_irq_count' <= TARGET_TIMER_IRQS + (IF due' THEN 0 ELSE 1)
  <2>. SUFFICES ASSUME ~ctrl_en'
                PROVE  timer_irq_count' <= TARGET_TIMER_IRQS + (IF due' THEN 0 ELSE 1)
    OBVIOUS
  <2>1. CASE ctrl_en
    BY <1>0, <2>1, TimerStopped, CountMoves DEF Counts
  <2>2. CASE ~ctrl_en
    <3>1. due' => due
      BY <1>4, <2>2, Latches, TimerStopped DEF due
    <3>2. CASE Execute /\ pc = "clear"
      <4>1. claimed
        BY <3>2 DEF claimed, Masks, Execute, Program
      <4>2. ~due'
        <5>1. pc' = "kick"
          BY <3>2, ProgramCounter DEF Execute
        <5>2. ~claimed'
          BY <5>1 DEF claimed
        <5>3. ~irq_pulse' /\ "timer" \notin irq_pending'
          BY <2>2, <4>1, Latches, TimerStopped DEF Counts
        <5>. QED BY <5>2, <5>3 DEF due
      <4>3. timer_irq_count <= TARGET_TIMER_IRQS
        BY <1>0, <2>2, <4>1 DEF Counts, due
      <4>. QED BY <1>0, <3>2, <4>2, <4>3, CountMoves
    <3>3. CASE ~(Execute /\ pc = "clear")
      <4>1. timer_irq_count' = timer_irq_count
        BY <3>3, CountMoves
      <4>2. timer_irq_count <= TARGET_TIMER_IRQS + (IF due THEN 0 ELSE 1)
        BY <2>2 DEF Counts
      <4>. QED BY <1>0, <3>1, <4>1, <4>2
    <3>. QED BY <3>2, <3>3
  <2>. QED BY <2>1, <2>2
<1>7. ctrl_en' \/ counted' \/ mainPc' \in {"reset", "hello", "reload", "enable"}
  <2>. SUFFICES ASSUME ~ctrl_en', ~counted'
                PROVE  mainPc' \in {"reset", "hello", "reload", "enable"}
    OBVIOUS
  <2>1. ~counted
    BY <1>0, CountMoves DEF counted
  <2>2. ~ctrl_en
    BY <2>1, TimerStopped DEF Masks
  <2>3. mainPc \in {"reset", "hello", "reload", "enable"}
    BY <2>1, <2>2 DEF Counts
  <2>4. CASE mainPc' = mainPc
    BY <2>3, <2>4
  <2>5. CASE Execute /\ mainPc' # mainPc
    <3>1. ~irq_active
      BY <2>5, MainMoves
    <3>2. mainPc = pc /\ mainPc' = pc' /\ pc # "enable"
      BY <2>5, <3>1, MainMoves, WrittenDevices DEF Execute
    <3>. QED BY <2>3, <2>5, <3>2, ProgramCounter DEF Execute
  <2>. QED BY <2>4, <2>5, MainMoves DEF Next
<1>. QED BY <1>1, <1>2, <1>3, <1>5, <1>6, <1>7 DEF Counts

-----------------------------------------------------------------------------
(* Every interrupt is claimed in time.                                     *)

(* The times above as a table: a step of the program is a step through it. *)
ClaimTable ==
  /\ irq_state = 1 => ClaimIn = 2
  /\ irq_state = 2 => ClaimIn = 1
  /\ irq_state = 0 => ClaimIn = TimeToTrigger - stall
  /\ pc = "irq_vec" /\ "timer" \in q1 => TimeToTrigger = 9 * Patience + 2
  /\ pc = "irq_vec" /\ "timer" \notin q1 => TimeToTrigger = 7 * Patience + 2
  /\ pc = "handler" /\ "timer" \in q1 => TimeToTrigger = 8 * Patience + 2
  /\ pc = "handler" /\ "timer" \notin q1 => TimeToTrigger = 6 * Patience + 2
  /\ pc = "clear" => TimeToTrigger = 7 * Patience + 2
  /\ pc = "kick" /\ ~counted => TimeToTrigger = 6 * Patience + 2
  /\ pc = "kick" /\ counted => TimeToTrigger = 2 * Patience
  /\ pc = "stop" => TimeToTrigger = Patience
  /\ pc = "warn" => TimeToTrigger = 5 * Patience + 2
  /\ pc = "restore" => TimeToTrigger = 4 * Patience + 2
  /\ pc = "retirq" => TimeToTrigger = 3 * Patience + 2
  /\ pc \in MainPcs /\ irq_delay => TimeToTrigger = 2 * Patience + 2
  /\ pc \in MainPcs /\ ~irq_delay => TimeToTrigger = Patience + 2

LEMMA ClaimTimes == ClaimTable /\ ClaimTable'
<1>1. ClaimTable
  <2>1. irq_state = 1 => ClaimIn = 2
    BY DEF ClaimIn
  <2>2. irq_state = 2 => ClaimIn = 1
    BY DEF ClaimIn
  <2>3. irq_state = 0 => ClaimIn = TimeToTrigger - stall
    BY DEF ClaimIn
  <2>4. pc = "irq_vec" /\ "timer" \in q1 => TimeToTrigger = 9 * Patience + 2
    BY DEF TimeToTrigger, MainPcs
  <2>5. pc = "irq_vec" /\ "timer" \notin q1 => TimeToTrigger = 7 * Patience + 2
    BY DEF TimeToTrigger, MainPcs
  <2>6. pc = "handler" /\ "timer" \in q1 => TimeToTrigger = 8 * Patience + 2
    BY DEF TimeToTrigger, MainPcs
  <2>7. pc = "handler" /\ "timer" \notin q1 => TimeToTrigger = 6 * Patience + 2
    BY DEF TimeToTrigger, MainPcs
  <2>8. pc = "clear" => TimeToTrigger = 7 * Patience + 2
    BY DEF TimeToTrigger, MainPcs
  <2>9. pc = "kick" /\ ~counted => TimeToTrigger = 6 * Patience + 2
    BY DEF TimeToTrigger, MainPcs
  <2>10. pc = "kick" /\ counted => TimeToTrigger = 2 * Patience
    BY DEF TimeToTrigger, MainPcs
  <2>11. pc = "stop" => TimeToTrigger = Patience
    BY DEF TimeToTrigger, MainPcs
  <2>12. pc = "warn" => TimeToTrigger = 5 * Patience + 2
    BY DEF TimeToTrigger, MainPcs
  <2>13. pc = "restore" => TimeToTrigger = 4 * Patience + 2
    BY DEF TimeToTrigger, MainPcs
  <2>14. pc = "retirq" => TimeToTrigger = 3 * Patience + 2
    BY DEF TimeToTrigger, MainPcs
  <2>15. pc \in MainPcs /\ irq_delay => TimeToTrigger = 2 * Patience + 2
    BY DEF TimeToTrigger, MainPcs
  <2>16. pc \in MainPcs /\ ~irq_delay => TimeToTrigger = Patience + 2
    BY DEF TimeToTrigger, MainPcs
  <2>. QED
    BY <2>1, <2>2, <2>3, <2>4, <2>5, <2>6, <2>7, <2>8, <2>9,
        <2>10, <2>11, <2>12, <2>13, <2>14, <2>15, <2>16
    DEF ClaimTable
<1>2. ClaimTable'
  <2>1. irq_state' = 1 => ClaimIn' = 2
    BY DEF ClaimIn
  <2>2. irq_state' = 2 => ClaimIn' = 1
    BY DEF ClaimIn
  <2>3. irq_state' = 0 => ClaimIn' = TimeToTrigger' - stall'
    BY DEF ClaimIn
  <2>4. pc' = "irq_vec" /\ "timer" \in q1' => TimeToTrigger' = 9 * Patience + 2
    BY DEF TimeToTrigger, MainPcs, Patience
  <2>5. pc' = "irq_vec" /\ "timer" \notin q1' => TimeToTrigger' = 7 * Patience + 2
    BY DEF TimeToTrigger, MainPcs, Patience
  <2>6. pc' = "handler" /\ "timer" \in q1' => TimeToTrigger' = 8 * Patience + 2
    BY DEF TimeToTrigger, MainPcs, Patience
  <2>7. pc' = "handler" /\ "timer" \notin q1' => TimeToTrigger' = 6 * Patience + 2
    BY DEF TimeToTrigger, MainPcs, Patience
  <2>8. pc' = "clear" => TimeToTrigger' = 7 * Patience + 2
    BY DEF TimeToTrigger, MainPcs, Patience
  <2>9. pc' = "kick" /\ ~counted' => TimeToTrigger' = 6 * Patience + 2
    BY DEF TimeToTrigger, MainPcs, Patience
  <2>10. pc' = "kick" /\ counted' => TimeToTrigger' = 2 * Patience
    BY DEF TimeToTrigger, MainPcs, Patience
  <2>11. pc' = "stop" => TimeToTrigger' = Patience
    BY DEF TimeToTrigger, MainPcs, Patience
  <2>12. pc' = "warn" => TimeToTrigger' = 5 * Patience + 2
    BY DEF TimeToTrigger, MainPcs, Patience
  <2>13. pc' = "restore" => TimeToTrigger' = 4 * Patience + 2
    BY DEF TimeToTrigger, MainPcs, Patience
  <2>14. pc' = "retirq" => TimeToTrigger' = 3 * Patience + 2
    BY DEF TimeToTrigger, MainPcs, Patience
  <2>15. pc' \in MainPcs /\ irq_delay' => TimeToTrigger' = 2 * Patience + 2
    BY DEF TimeToTrigger, MainPcs, Patience
  <2>16. pc' \in MainPcs /\ ~irq_delay' => TimeToTrigger' = Patience + 2
    BY DEF TimeToTrigger, MainPcs, Patience
  <2>. QED
    BY <2>1, <2>2, <2>3, <2>4, <2>5, <2>6, <2>7, <2>8, <2>9,
        <2>10, <2>11, <2>12, <2>13, <2>14, <2>15, <2>16
    DEF ClaimTable, Patience
<1>. QED BY <1>1, <1>2

LEMMA ClaimStep ==
  ASSUME Typed, Bearings, Masks, Starting, Next
  PROVE  \/ ClaimIn' <= ClaimIn - 1
         \/ /\ irq_state = 0 /\ ~irq_active /\ ~irq_delay /\ "timer" \notin irq_pending
            /\ ClaimIn' <= Patience + 2
         \/ /\ irq_state = 2 /\ "timer" \in irq_pending
            /\ ClaimIn' = 9 * Patience + 2
         \/ /\ irq_state = 2 /\ "timer" \notin irq_pending
            /\ ClaimIn' = 7 * Patience + 2
         \/ Execute /\ pc = "stop"
<1>. USE SocAssumption
<1>1. stall \in 0 .. MaxStall
  BY DEF Typed
<1>2. Patience \in Nat /\ Patience = MaxStall + 1 /\ Patience' = Patience
  BY DEF Patience
<1>3. ClaimTable /\ ClaimTable'
  BY ClaimTimes
<1>4. CASE Stall
  <2>1. /\ pc' = pc /\ irq_state' = 0 /\ irq_state = 0 /\ irq_delay' = irq_delay /\ q1' = q1
        /\ stall' = stall + 1 /\ (counted' <=> counted)
    BY <1>4 DEF Stall, coreVars, fwVars, counted
  <2>2. pc \in MainPcs \/ pc \in IsrPcs
    BY DEF Typed
  <2>. QED BY <1>1, <1>2, <1>3, <2>1, <2>2 DEF ClaimTable, IsrPcs
<1>5. CASE Enter
  <2>1. CASE IrqTrigger
    <3>1. pc \in MainPcs /\ ~irq_delay /\ irq_state = 0 /\ irq_state' = 1
      BY <2>1 DEF IrqTrigger, takes_irq, Bearings, Typed
    <3>. QED BY <1>1, <1>2, <1>3, <3>1 DEF ClaimTable
  <2>2. CASE IrqVector
    BY <1>1, <1>2, <1>3, <2>2 DEF IrqVector, ClaimTable
  <2>3. CASE IrqClaim
    <3>1. irq_state = 2 /\ irq_state' = 0 /\ pc = "irq_vec" /\ pc' = "irq_vec" /\ stall' = 0
      BY <1>5, <2>3 DEF Enter, IrqClaim, Bearings, fwVars
    <3>2. "timer" \in q1' <=> "timer" \in irq_pending
      BY <2>3, <3>1 DEF IrqClaim, Masks, unmasked
    <3>. QED BY <1>1, <1>2, <1>3, <3>1, <3>2 DEF ClaimTable
  <2>. QED BY <1>5, <2>1, <2>2, <2>3 DEF Enter
<1>6. CASE Execute
  <2>1. Program /\ stall' = 0
    BY <1>6 DEF Execute
  <2>2. irq_state = 0 /\ irq_state' = 0 /\ q1' = q1 /\ ret' = ret /\ irq_delay' = irq_active
    BY <2>1 DEF Program
  <2>3. pc # "clear" => timer_irq_count' = timer_irq_count
    BY <2>1 DEF Program
  <2>4. CASE pc \in MainPcs
    <3>1. pc' \in MainPcs /\ ~irq_active
      BY <2>1, <2>4, ProgramCounter DEF Bearings, MainPcs, IsrPcs
    <3>2. CASE irq_delay
      BY <1>1, <1>2, <1>3, <2>1, <2>2, <2>4, <3>1, <3>2 DEF ClaimTable
    <3>3. CASE ~irq_delay
      <4>1. unmasked = {}
        BY <2>1, <2>2, <3>1, <3>3 DEF Program, takes_irq
      <4>2. "timer" \notin irq_pending
        BY <2>4, <3>1, <4>1 DEF unmasked, Masks, Starting, mainPc
      <4>3. ClaimIn' <= Patience + 2
        BY <1>1, <1>2, <1>3, <2>1, <2>2, <3>1 DEF ClaimTable
      <4>. QED BY <2>2, <3>1, <3>3, <4>2, <4>3
    <3>. QED BY <3>2, <3>3
  <2>5. CASE pc \in IsrPcs
    <3>1. CASE pc = "irq_vec"
      BY <1>1, <1>2, <1>3, <2>1, <2>2, <3>1, ProgramCounter DEF ClaimTable
    <3>2. CASE pc = "handler"
      BY <1>1, <1>2, <1>3, <2>1, <2>2, <3>2, ProgramCounter DEF ClaimTable
    <3>3. CASE pc = "clear"
      BY <1>1, <1>2, <1>3, <2>1, <2>2, <3>3, ProgramCounter DEF ClaimTable
    <3>4. CASE pc = "kick" /\ counted
      BY <1>1, <1>2, <1>3, <2>1, <2>2, <3>4, ProgramCounter DEF ClaimTable
    <3>5. CASE pc = "kick" /\ ~counted
      BY <1>1, <1>2, <1>3, <2>1, <2>2, <3>5, ProgramCounter DEF ClaimTable
    <3>6. CASE pc = "stop"
      BY <1>6, <3>6
    <3>7. CASE pc = "warn" \/ pc = "restore"
      BY <1>1, <1>2, <1>3, <2>1, <2>2, <3>7, ProgramCounter DEF ClaimTable
    <3>8. CASE pc = "retirq"
      <4>1. pc' \in MainPcs /\ irq_delay'
        BY <2>1, <2>2, <2>5, <3>8, ProgramCounter DEF Bearings
      <4>. QED BY <1>1, <1>2, <1>3, <2>1, <2>2, <3>8, <4>1 DEF ClaimTable
    <3>. QED BY <2>5, <3>1, <3>2, <3>3, <3>4, <3>5, <3>6, <3>7, <3>8 DEF IsrPcs
  <2>. QED BY <2>4, <2>5 DEF Typed
<1>. QED BY <1>4, <1>5, <1>6 DEF Next

LEMMA ClaimBounds ==
  /\ Typed => ClaimIn \in Nat \ {0} /\ ClaimIn <= 9 * Patience + 2
  /\ Typed' => ClaimIn' \in Nat \ {0} /\ ClaimIn' <= 9 * Patience + 2
<1>. USE SocAssumption
<1>1. Patience \in Nat /\ Patience = MaxStall + 1 /\ Patience' = Patience
  BY DEF Patience
<1>2. ClaimTable /\ ClaimTable'
  BY ClaimTimes
<1>3. ASSUME Typed PROVE ClaimIn \in Nat \ {0} /\ ClaimIn <= 9 * Patience + 2
  <2>1. /\ stall \in 0 .. MaxStall /\ irq_state \in {0, 1, 2}
        /\ pc \in MainPcs \/ pc \in IsrPcs
    BY <1>3 DEF Typed
  <2>. QED BY <1>1, <1>2, <2>1 DEF ClaimTable, IsrPcs
<1>4. ASSUME Typed' PROVE ClaimIn' \in Nat \ {0} /\ ClaimIn' <= 9 * Patience + 2
  <2>1. /\ stall' \in 0 .. MaxStall /\ irq_state' \in {0, 1, 2}
        /\ pc' \in MainPcs \/ pc' \in IsrPcs
    BY <1>4 DEF Typed
  <2>. QED BY <1>1, <1>2, <2>1 DEF ClaimTable, IsrPcs
<1>. QED BY <1>3, <1>4

LEMMA TimerRuns ==
  ASSUME Typed, Bearings, Starting, Next, ctrl_en, ctrl_en'
  PROVE  \/ count = 0 /\ irq_pulse' /\ count' = TIMER_PERIOD
         \/ count > 0 /\ ~irq_pulse' /\ count' = count - 1
<1>1. reload_reg = TIMER_PERIOD /\ mainPc # "enable"
  BY DEF Starting
<1>2. count \in Nat
  BY TimerAssumption DEF Typed, TimerTypeOK, Count
<1>3. pc # "enable"
  BY <1>1 DEF Bearings, mainPc, IsrPcs
<1>4. CASE Stall \/ Enter
  BY <1>1, <1>2, <1>4, UnwrittenDevices DEF Stall, Enter
<1>5. CASE Execute
  BY <1>1, <1>2, <1>3, <1>5, WrittenDevices DEF Execute
<1>. QED BY <1>4, <1>5 DEF Next

LEMMA TimerStarts ==
  ASSUME Typed, Bearings, Starting, Next, ~ctrl_en, ctrl_en'
  PROVE  /\ count' = TIMER_PERIOD /\ ~irq_pulse' /\ "timer" \notin irq_pending'
         /\ Execute /\ pc = "enable" /\ mainPc = "enable" /\ irq_state = 0
         /\ ~irq_active /\ irq_pending = {}
<1>1. Execute /\ pc = "enable"
  BY TimerStopped
<1>2. mainPc = "enable"
  BY <1>1 DEF Bearings, IsrPcs, mainPc
<1>3. count' = TIMER_PERIOD /\ ~irq_pulse'
  BY <1>1, <1>2, WrittenDevices DEF Execute, Starting
<1>4. irq_pending = {} /\ ~irq_pulse /\ irq_state = 0 /\ ~irq_active
  BY <1>2 DEF Starting
<1>5. "timer" \notin irq_pending'
  <2>1. "timer" \notin irq_lines
    BY <1>4 DEF irq_lines
  <2>. QED BY <1>1, <1>4, <2>1 DEF Execute, Devices, next_irq_pending
<1>. QED BY <1>1, <1>2, <1>3, <1>4, <1>5

LEMMA ServedStep ==
  ASSUME Typed, Typed', Bearings, Masks, Starting, Served, Next
  PROVE  Served'
<1>. USE SocAssumption
<1>1. /\ Patience \in Nat /\ Patience >= 1 /\ Patience = MaxStall + 1
      /\ TIMER_PERIOD' = TIMER_PERIOD /\ TIMER_PERIOD \in Nat /\ count \in Nat /\ count' \in Nat
  BY TimerAssumption DEF Patience, Next, Typed, TimerTypeOK, Count
<1>2. CASE ~Unhurried'
  BY <1>2 DEF Served
<1>3. CASE Unhurried'
  <2>1. TIMER_PERIOD > 10 * Patience
    BY <1>1, <1>3 DEF Unhurried
  <2>2. Unhurried
    BY <1>1, <2>1 DEF Unhurried
  <2>3. /\ ClaimIn \in Nat \ {0} /\ ClaimIn' \in Nat \ {0}
        /\ ClaimIn <= 9 * Patience + 2 /\ ClaimIn' <= 9 * Patience + 2
    BY ClaimBounds
  <2>4. ~(irq_pulse' /\ "timer" \in irq_pending')
    <3>1. irq_pulse' => ctrl_en /\ count = 0
      BY UnwrittenDevices, WrittenDevices DEF Next, Stall, Enter, Execute
    <3>2. irq_pulse' => ~irq_pulse /\ "timer" \notin irq_pending
      BY <1>1, <2>1, <2>2, <2>3, <3>1 DEF Served
    <3>. QED BY <3>2, Latches
  <2>5. ASSUME ctrl_en' PROVE
          /\ count' <= TIMER_PERIOD
          /\ irq_pulse' => count' = TIMER_PERIOD /\ ClaimIn' < count'
          /\ "timer" \in irq_pending' => ClaimIn' <= count'
    <3>1. CASE ~ctrl_en
      BY <1>1, <2>3, <2>5, <3>1, TimerStarts
    <3>2. CASE ctrl_en
      <4>1. /\ count <= TIMER_PERIOD
            /\ irq_pulse => count = TIMER_PERIOD /\ ClaimIn < count
            /\ "timer" \in irq_pending => ClaimIn <= count
            /\ ~(irq_pulse /\ "timer" \in irq_pending)
        BY <2>2, <3>2 DEF Served
      <4>2. ~(Execute /\ pc = "stop")
        BY <2>5, TimerStopped
      <4>3. CASE count = 0 /\ irq_pulse' /\ count' = TIMER_PERIOD
        <5>1. "timer" \notin irq_pending
          BY <2>3, <4>1, <4>3
        <5>2. "timer" \notin irq_pending'
          BY <2>4, <4>3
        <5>3. ClaimIn' < count'
          <6>1. CASE ClaimIn' <= ClaimIn - 1
            BY <1>1, <2>1, <2>3, <4>1, <4>3, <6>1
          <6>2. CASE ClaimIn' <= Patience + 2
            BY <1>1, <2>1, <2>3, <4>3, <6>2
          <6>3. CASE ClaimIn' = 7 * Patience + 2
            BY <1>1, <2>1, <2>3, <4>3, <6>3
          <6>. QED BY <4>2, <5>1, <6>1, <6>2, <6>3, ClaimStep
        <5>. QED BY <1>1, <2>3, <4>3, <5>2, <5>3
      <4>4. CASE count > 0 /\ ~irq_pulse' /\ count' = count - 1
        <5>1. "timer" \in irq_pending' => ClaimIn' <= count'
          <6>. SUFFICES ASSUME "timer" \in irq_pending' PROVE ClaimIn' <= count'
            OBVIOUS
          <6>1. irq_pulse \/ ("timer" \in irq_pending /\ irq_state # 2)
            BY Latches
          <6>2. CASE irq_pulse
            <7>1. "timer" \notin irq_pending
              BY <4>1, <6>2
            <7>2. ClaimIn' <= ClaimIn - 1 \/ ClaimIn' <= Patience + 2 \/ ClaimIn' = 7 * Patience + 2
              BY <4>2, <7>1, ClaimStep
            <7>. QED BY <1>1, <2>1, <2>3, <4>1, <4>4, <6>2, <7>2
          <6>3. CASE "timer" \in irq_pending /\ irq_state # 2
            <7>1. ClaimIn' <= ClaimIn - 1
              BY <4>2, <6>3, ClaimStep
            <7>. QED BY <1>1, <2>3, <4>1, <4>4, <6>3, <7>1
          <6>. QED BY <6>1, <6>2, <6>3
        <5>. QED BY <1>1, <4>1, <4>4, <5>1
      <4>. QED BY <2>5, <3>2, <4>3, <4>4, TimerRuns
    <3>. QED BY <3>1, <3>2
  <2>. QED BY <1>1, <2>4, <2>5 DEF Served
<1>. QED BY <1>2, <1>3

-----------------------------------------------------------------------------
(* Every interrupt is counted once.                                        *)

LEMMA BitsCounted ==
  Cardinality({w \in {"line", "pending", "claimed"} :
                 \/ w = "line" /\ irq_pulse
                 \/ w = "pending" /\ "timer" \in irq_pending
                 \/ w = "claimed" /\ claimed})
  = Unserved
<1>. DEFINE A == IF irq_pulse THEN {"line"} ELSE {}
            B == IF "timer" \in irq_pending THEN A \union {"pending"} ELSE A
            C == IF claimed THEN B \union {"claimed"} ELSE B
<1>1. IsFiniteSet({}) /\ Cardinality({}) = 0
  BY FS_EmptySet
<1>2. IsFiniteSet(A) /\ Cardinality(A) = Bit(irq_pulse)
  <2>1. IsFiniteSet({} \union {"line"}) /\ Cardinality({} \union {"line"}) = 1
    BY <1>1, FS_AddElement
  <2>2. {} \union {"line"} = {"line"}
    OBVIOUS
  <2>. QED BY <1>1, <2>1, <2>2 DEF Bit
<1>3. IsFiniteSet(B) /\ Cardinality(B) = Bit(irq_pulse) + Bit("timer" \in irq_pending)
  <2>1. "pending" \notin A /\ Bit(irq_pulse) \in Nat
    BY DEF Bit
  <2>2. IsFiniteSet(A \union {"pending"}) /\ Cardinality(A \union {"pending"}) = Bit(irq_pulse) + 1
    BY <1>2, <2>1, FS_AddElement
  <2>. QED BY <1>2, <2>1, <2>2 DEF Bit
<1>4. Cardinality(C) = Bit(irq_pulse) + Bit("timer" \in irq_pending) + Bit(claimed)
  <2>1. "claimed" \notin B /\ Bit(irq_pulse) \in Nat /\ Bit("timer" \in irq_pending) \in Nat
    BY DEF Bit
  <2>2. Cardinality(B \union {"claimed"}) = Cardinality(B) + 1
    <3>. HIDE DEF B
    <3>. QED BY <1>3, <2>1, FS_AddElement
  <2>. QED BY <1>3, <2>1, <2>2 DEF Bit
<1>5. {w \in {"line", "pending", "claimed"} :
                 \/ w = "line" /\ irq_pulse
                 \/ w = "pending" /\ "timer" \in irq_pending
                 \/ w = "claimed" /\ claimed} = C
  OBVIOUS
<1>. QED BY <1>4, <1>5 DEF Unserved

LEMMA ClaimedMoves ==
  ASSUME Typed, Bearings, Masks, Next
  PROVE  /\ irq_state = 2 => ~claimed /\ (claimed' <=> "timer" \in irq_pending)
         /\ Execute /\ pc = "clear" => claimed /\ ~claimed' /\ irq_state # 2
         /\ irq_state # 2 /\ ~(Execute /\ pc = "clear") => (claimed' <=> claimed)
<1>1. CASE Stall
  BY <1>1, StepsDiffer DEF Stall, coreVars, fwVars, claimed
<1>2. CASE Enter
  <2>1. CASE IrqTrigger
    BY <1>2, <2>1, StepsDiffer
    DEF IrqTrigger, fwVars, claimed, takes_irq, Bearings, IsrPcs
  <2>2. CASE IrqVector
    BY <1>2, <2>2, StepsDiffer DEF IrqVector, claimed
  <2>3. CASE IrqClaim
    BY <1>2, <2>3, StepsDiffer DEF IrqClaim, claimed, unmasked, fwVars, Bearings, Masks
  <2>. QED BY <1>2, <2>1, <2>2, <2>3 DEF Enter
<1>3. CASE Execute
  <2>1. /\ irq_state = 0 /\ irq_state' = 0 /\ q1' = q1
        /\ pc \in MainPcs \/ pc \in IsrPcs
    BY <1>3 DEF Execute, Program, Typed
  <2>2. pc = "clear" => claimed
    BY <2>1 DEF claimed, Masks
  <2>3. pc = "clear" => ~claimed'
    <3>1. pc = "clear" => pc' = "kick"
      BY <1>3, ProgramCounter DEF Execute
    <3>. QED BY <3>1 DEF claimed
  <2>4. CASE pc \in MainPcs
    <3>1. pc' \in MainPcs
      BY <1>3, <2>4, ProgramCounter DEF Execute, MainPcs
    <3>. QED BY <2>1, <2>4, <3>1 DEF claimed, MainPcs
  <2>5. CASE pc \in {"irq_vec", "handler"}
    BY <1>3, <2>1, <2>5, ProgramCounter DEF Execute, claimed
  <2>6. CASE pc \in {"kick", "stop", "warn", "restore"}
    <3>1. pc' \in {"stop", "warn", "restore", "retirq"}
      BY <1>3, <2>6, ProgramCounter DEF Execute
    <3>. QED BY <2>1, <2>6, <3>1 DEF claimed
  <2>7. CASE pc = "retirq"
    <3>1. pc' \in MainPcs
      BY <1>3, <2>7, ProgramCounter DEF Execute, Bearings, IsrPcs
    <3>. QED BY <2>1, <2>7, <3>1 DEF claimed, MainPcs
  <2>. QED BY <1>3, <2>1, <2>2, <2>3, <2>4, <2>5, <2>6, <2>7 DEF IsrPcs
<1>. QED BY <1>1, <1>2, <1>3 DEF Next

LEMMA OnceEachStep ==
  ASSUME Typed, Typed', Bearings, Masks, Starting, Counts, Served, OnceEach, Next
  PROVE  OnceEach'
<1>. USE SocAssumption
<1>. SUFFICES ASSUME Unhurried' PROVE pulses' = timer_irq_count' + Unserved'
  BY DEF OnceEach
<1>1. Unhurried
  BY DEF Next, Unhurried
<1>2. pulses = timer_irq_count + Unserved /\ ~(irq_pulse /\ "timer" \in irq_pending)
  BY <1>1 DEF OnceEach, Served
<1>3. timer_irq_count \in Nat /\ pulses \in Nat
  BY DEF Typed
<1>4. irq_pulse' => ctrl_en /\ ~irq_pulse /\ "timer" \notin irq_pending
  <2>1. irq_pulse' => ctrl_en /\ count = 0
    BY UnwrittenDevices, WrittenDevices DEF Next, Stall, Enter, Execute
  <2>2. TIMER_PERIOD # 0
    BY <1>1 DEF Unhurried
  <2>. QED BY <1>1, <2>1, <2>2, ClaimBounds DEF Served
<1>5. irq_pulse' => pulses < MaxPulses
  <2>. SUFFICES ASSUME irq_pulse' PROVE pulses < MaxPulses
    OBVIOUS
  <2>1. Unserved <= 1
    BY <1>4 DEF Unserved, Bit
  <2>2. timer_irq_count <= TARGET_TIMER_IRQS
    BY <1>4 DEF Counts
  <2>3. Unserved \in Nat
    BY DEF Unserved, Bit
  <2>. QED BY <1>2, <1>3, <2>1, <2>2, <2>3 DEF MaxPulses
<1>6. pulses' = pulses + Bit(irq_pulse')
  BY <1>3, <1>5 DEF Next, Stall, Enter, Execute, Devices, Bit
<1>7. timer_irq_count' = (IF Execute /\ pc = "clear" THEN timer_irq_count + 1 ELSE timer_irq_count)
  BY CountMoves
<1>8. "timer" \in irq_pending' <=> irq_pulse \/ ("timer" \in irq_pending /\ irq_state # 2)
  BY Latches
<1>9. CASE irq_state = 2
  <2>1. ~(Execute /\ pc = "clear")
    BY <1>9 DEF Execute, Program
  <2>. QED BY <1>2, <1>3, <1>6, <1>7, <1>8, <1>9, <2>1, ClaimedMoves DEF Unserved, Bit
<1>10. CASE Execute /\ pc = "clear"
  BY <1>2, <1>3, <1>6, <1>7, <1>8, <1>10, ClaimedMoves DEF Unserved, Bit
<1>11. CASE irq_state # 2 /\ ~(Execute /\ pc = "clear")
  BY <1>2, <1>3, <1>6, <1>7, <1>8, <1>11, ClaimedMoves DEF Unserved, Bit
<1>. QED BY <1>9, <1>10, <1>11

-----------------------------------------------------------------------------
(* The watchdog is fed in time.                                            *)

KickTable ==
  /\ serving => KickIn = TimeToKick - stall
  /\ pc = "irq_vec" => TimeToKick = 4 * Patience
  /\ pc = "handler" => TimeToKick = 3 * Patience
  /\ pc = "clear" => TimeToKick = 2 * Patience
  /\ pc = "kick" => TimeToKick = Patience
  /\ ~serving /\ "timer" \in irq_pending => KickIn = ClaimIn + 4 * Patience
  /\ ~serving /\ "timer" \notin irq_pending /\ irq_pulse => KickIn = 5 * Patience + 3
  /\ ~serving /\ "timer" \notin irq_pending /\ ~irq_pulse => KickIn = count + 5 * Patience + 4

LEMMA KickTimes == KickTable /\ KickTable'
<1>1. KickTable
  <2>1. serving => KickIn = TimeToKick - stall
    BY DEF KickIn
  <2>2. pc = "irq_vec" => TimeToKick = 4 * Patience
    BY DEF TimeToKick
  <2>3. pc = "handler" => TimeToKick = 3 * Patience
    BY DEF TimeToKick
  <2>4. pc = "clear" => TimeToKick = 2 * Patience
    BY DEF TimeToKick
  <2>5. pc = "kick" => TimeToKick = Patience
    BY DEF TimeToKick
  <2>6. ~serving /\ "timer" \in irq_pending => KickIn = ClaimIn + 4 * Patience
    BY DEF KickIn
  <2>7. ~serving /\ "timer" \notin irq_pending /\ irq_pulse => KickIn = 5 * Patience + 3
    BY DEF KickIn
  <2>8. ~serving /\ "timer" \notin irq_pending /\ ~irq_pulse => KickIn = count + 5 * Patience + 4
    BY DEF KickIn
  <2>. QED
    BY <2>1, <2>2, <2>3, <2>4, <2>5, <2>6, <2>7, <2>8
    DEF KickTable
<1>2. KickTable'
  <2>1. serving' => KickIn' = TimeToKick' - stall'
    BY DEF KickIn
  <2>2. pc' = "irq_vec" => TimeToKick' = 4 * Patience
    BY DEF TimeToKick, Patience
  <2>3. pc' = "handler" => TimeToKick' = 3 * Patience
    BY DEF TimeToKick, Patience
  <2>4. pc' = "clear" => TimeToKick' = 2 * Patience
    BY DEF TimeToKick, Patience
  <2>5. pc' = "kick" => TimeToKick' = Patience
    BY DEF TimeToKick, Patience
  <2>6. ~serving' /\ "timer" \in irq_pending' => KickIn' = ClaimIn' + 4 * Patience
    BY DEF KickIn, Patience
  <2>7. ~serving' /\ "timer" \notin irq_pending' /\ irq_pulse' => KickIn' = 5 * Patience + 3
    BY DEF KickIn, Patience
  <2>8. ~serving' /\ "timer" \notin irq_pending' /\ ~irq_pulse' =>
         KickIn' = count' + 5 * Patience + 4
    BY DEF KickIn, Patience
  <2>. QED
    BY <2>1, <2>2, <2>3, <2>4, <2>5, <2>6, <2>7, <2>8
    DEF KickTable, Patience
<1>. QED BY <1>1, <1>2

LEMMA KickBounds ==
  /\ Typed => KickIn \in Nat \ {0}
  /\ Typed' => KickIn' \in Nat \ {0}
  /\ Typed' /\ count' <= TIMER_PERIOD' /\ TIMER_PERIOD' > 10 * Patience
       => KickIn' <= 2 * TIMER_PERIOD'
<1>. USE SocAssumption
<1>1. Patience \in Nat /\ Patience >= 1 /\ Patience = MaxStall + 1 /\ Patience' = Patience
  BY DEF Patience
<1>2. KickTable /\ KickTable'
  BY KickTimes
<1>3. ASSUME Typed PROVE KickIn \in Nat \ {0}
  <2>1. stall \in 0 .. MaxStall /\ count \in Nat
    BY <1>3, TimerAssumption DEF Typed, TimerTypeOK, Count
  <2>2. ClaimIn \in Nat \ {0}
    BY <1>3, ClaimBounds
  <2>3. serving => pc \in {"irq_vec", "handler", "clear", "kick"}
    BY DEF serving
  <2>. QED BY <1>1, <1>2, <2>1, <2>2, <2>3 DEF KickTable
<1>4. ASSUME Typed' PROVE /\ KickIn' \in Nat \ {0}
                          /\ count' <= TIMER_PERIOD' /\ TIMER_PERIOD' > 10 * Patience
                               => KickIn' <= 2 * TIMER_PERIOD'
  <2>1. stall' \in 0 .. MaxStall /\ count' \in Nat /\ TIMER_PERIOD' \in Nat
    BY <1>4, TimerAssumption DEF Typed, TimerTypeOK, Count
  <2>2. ClaimIn' \in Nat \ {0} /\ ClaimIn' <= 9 * Patience + 2
    BY <1>4, ClaimBounds
  <2>3. serving' => pc' \in {"irq_vec", "handler", "clear", "kick"}
    BY DEF serving
  <2>. QED BY <1>1, <1>2, <2>1, <2>2, <2>3 DEF KickTable
<1>. QED BY <1>3, <1>4

LEMMA ServingMoves ==
  ASSUME Typed, Bearings, Masks, Fed, Next, ~counted
  PROVE  /\ irq_state = 2 /\ "timer" \in irq_pending =>
              pc' = "irq_vec" /\ stall' = 0 /\ ~serving /\ serving'
         /\ serving /\ ~(Execute /\ pc = "kick") => serving'
         /\ ~serving /\ irq_state # 2 => ~serving'
<1>1. ASSUME irq_state = 2, "timer" \in irq_pending
      PROVE  pc' = "irq_vec" /\ stall' = 0 /\ ~serving /\ serving'
  <2>1. Enter /\ IrqClaim
    BY <1>1 DEF Next, Stall, Execute, Program, Enter, IrqTrigger, takes_irq, IrqVector
  <2>2. pc' = "irq_vec" /\ irq_state' = 0 /\ q1' = irq_pending /\ stall' = 0
    BY <1>1, <2>1 DEF Enter, IrqClaim, fwVars, Bearings, Masks, unmasked
  <2>. QED BY <1>1, <2>2 DEF serving
<1>2. ASSUME serving, ~(Execute /\ pc = "kick") PROVE serving'
  <2>1. irq_state = 0 /\ "timer" \in q1 /\ irq_active
    BY <1>2 DEF serving, Bearings, IsrPcs
  <2>2. CASE Stall
    BY <1>2, <2>2 DEF Stall, coreVars, fwVars, serving
  <2>3. CASE Enter
    BY <2>1, <2>3 DEF Enter, IrqTrigger, takes_irq, IrqVector, IrqClaim
  <2>4. CASE Execute
    <3>1. pc' \in {"handler", "clear", "kick"}
      BY <1>2, <2>4, ProgramCounter DEF Execute, serving
    <3>. QED BY <2>1, <2>4, <3>1 DEF Execute, Program, serving
  <2>. QED BY <2>2, <2>3, <2>4 DEF Next
<1>3. ASSUME ~serving, irq_state # 2 PROVE ~serving'
  <2>1. CASE Stall
    BY <1>3, <2>1 DEF Stall, coreVars, fwVars, serving
  <2>2. CASE Enter
    BY <1>3, <2>2 DEF Enter, IrqTrigger, IrqVector, IrqClaim, serving
  <2>3. CASE Execute
    <3>1. irq_state = 0 /\ q1' = q1
      BY <2>3 DEF Execute, Program
    <3>2. pc \notin {"irq_vec", "handler", "clear", "kick"} \/ "timer" \notin q1
      BY <1>3, <3>1 DEF serving
    <3>3. CASE "timer" \notin q1
      BY <3>1, <3>3 DEF serving
    <3>4. CASE pc \in {"stop", "warn", "restore"}
      <4>1. pc' \in {"warn", "restore", "retirq"}
        BY <2>3, <3>4, ProgramCounter DEF Execute
      <4>. QED BY <4>1 DEF serving
    <3>5. CASE pc = "retirq"
      <4>1. pc' \in MainPcs
        BY <2>3, <3>5, ProgramCounter DEF Execute, Bearings, IsrPcs
      <4>. QED BY <4>1 DEF serving, MainPcs
    <3>6. CASE pc \in MainPcs
      <4>1. pc' \in MainPcs
        BY <2>3, <3>6, ProgramCounter DEF Execute, MainPcs
      <4>. QED BY <4>1 DEF serving, MainPcs
    <3>. QED BY <3>2, <3>3, <3>4, <3>5, <3>6 DEF Typed, IsrPcs
  <2>. QED BY <2>1, <2>2, <2>3 DEF Next
<1>. QED BY <1>1, <1>2, <1>3

LEMMA KickStep ==
  ASSUME Typed, Typed', Bearings, Masks, Starting, Served, Fed, WellFed, Next, ~counted, ctrl_en,
         ctrl_en', ~(Execute /\ pc = "kick")
  PROVE  KickIn' <= KickIn - 1
<1>. USE SocAssumption
<1>1. /\ Patience \in Nat /\ Patience >= 1 /\ Patience = MaxStall + 1 /\ Patience' = Patience
      /\ stall \in 0 .. MaxStall /\ count \in Nat /\ count' \in Nat
  BY TimerAssumption DEF Patience, Typed, TimerTypeOK, Count
<1>2. KickTable /\ KickTable'
  BY KickTimes
<1>3. ClaimIn \in Nat \ {0} /\ ClaimIn' \in Nat \ {0}
  BY ClaimBounds
<1>4. ~(irq_pulse /\ "timer" \in irq_pending)
  BY DEF WellFed, Served
<1>5. irq_state # 0 => "timer" \in irq_pending
  BY DEF Fed
<1>6. ~(Execute /\ pc = "stop")
  BY TimerStopped
<1>7. CASE serving
  <2>1. serving'
    BY <1>7, ServingMoves
  <2>2. irq_state = 0
    BY <1>7 DEF serving
  <2>3. CASE Stall
    <3>1. pc' = pc /\ stall' = stall + 1
      BY <2>3 DEF Stall, fwVars
    <3>2. pc \in {"irq_vec", "handler", "clear", "kick"}
      BY <1>7 DEF serving
    <3>. QED BY <1>1, <1>2, <1>7, <2>1, <3>1, <3>2 DEF KickTable
  <2>4. CASE Enter
    BY <1>7, <2>4 DEF Enter, IrqTrigger, takes_irq, IrqVector, IrqClaim, serving, Bearings, IsrPcs
  <2>5. CASE Execute
    <3>1. stall' = 0 /\ pc \in {"irq_vec", "handler", "clear"} /\ "timer" \in q1
      BY <1>7, <2>5 DEF serving, Execute
    <3>2. /\ pc = "irq_vec" => pc' = "handler"
          /\ pc = "handler" => pc' = "clear"
          /\ pc = "clear" => pc' = "kick"
      BY <2>5, <3>1, ProgramCounter DEF Execute
    <3>. QED BY <1>1, <1>2, <1>7, <2>1, <3>1, <3>2 DEF KickTable
  <2>. QED BY <2>3, <2>4, <2>5 DEF Next
<1>8. CASE ~serving /\ irq_state = 2
  <2>1. pc' = "irq_vec" /\ stall' = 0 /\ serving'
    BY <1>5, <1>8, ServingMoves
  <2>2. KickIn' = 4 * Patience
    BY <1>1, <1>2, <2>1 DEF KickTable
  <2>3. KickIn = ClaimIn + 4 * Patience
    BY <1>2, <1>5, <1>8 DEF KickTable
  <2>. QED BY <1>1, <1>3, <2>2, <2>3
<1>9. CASE ~serving /\ irq_state # 2
  <2>1. ~serving'
    BY <1>9, ServingMoves
  <2>2. CASE "timer" \in irq_pending
    <3>1. ClaimIn' <= ClaimIn - 1
      BY <1>6, <1>9, <2>2, ClaimStep
    <3>2. "timer" \in irq_pending'
      BY <1>9, <2>2, Latches
    <3>3. ClaimIn + 4 * Patience = KickIn
      BY <1>2, <1>9, <2>2 DEF KickTable
    <3>4. ClaimIn' + 4 * Patience = KickIn'
      BY <1>1, <1>2, <2>1, <3>2 DEF KickTable
    <3>5. Patience \in Nat
      BY <1>1
    <3>. QED BY <1>3, <3>1, <3>3, <3>4, <3>5
  <2>3. CASE irq_pulse
    <3>1. "timer" \in irq_pending' /\ "timer" \notin irq_pending /\ irq_state # 2
      BY <1>4, <1>5, <2>3, Latches
    <3>2. ClaimIn' <= Patience + 2
      <4>1. ClaimIn <= Patience + 2
        BY <2>3 DEF Fed
      <4>. QED BY <1>1, <1>3, <1>6, <3>1, <4>1, ClaimStep
    <3>3. 5 * Patience + 3 = KickIn
      BY <1>2, <1>9, <2>3, <3>1 DEF KickTable
    <3>4. ClaimIn' + 4 * Patience = KickIn'
      BY <1>1, <1>2, <2>1, <3>1 DEF KickTable
    <3>5. Patience \in Nat
      BY <1>1
    <3>. QED BY <1>3, <3>2, <3>3, <3>4, <3>5
  <2>4. CASE "timer" \notin irq_pending /\ ~irq_pulse
    <3>1. "timer" \notin irq_pending'
      BY <2>4, Latches
    <3>2. CASE count = 0 /\ irq_pulse' /\ count' = TIMER_PERIOD
      BY <1>1, <1>2, <1>9, <2>1, <2>4, <3>1, <3>2 DEF KickTable
    <3>3. CASE count > 0 /\ ~irq_pulse' /\ count' = count - 1
      BY <1>1, <1>2, <1>9, <2>1, <2>4, <3>1, <3>3 DEF KickTable
    <3>. QED BY <3>2, <3>3, TimerRuns
  <2>. QED BY <2>2, <2>3, <2>4
<1>. QED BY <1>7, <1>8, <1>9

LEMMA Rates ==
  ASSUME Typed, WellFed
  PROVE  /\ Unhurried /\ TIMER_PERIOD \in Nat /\ TIMER_PERIOD > 10 * Patience
         /\ Patience \in Nat /\ Patience >= 1 /\ Patience = MaxStall + 1
         /\ count \in Nat /\ stall \in 0 .. MaxStall
         /\ WDT_TIMEOUT_CYCLES \in Nat /\ WARN_MARGIN \in Nat
         /\ WDT_TIMEOUT_CYCLES > 2 * TIMER_PERIOD + WARN_MARGIN
BY SocAssumption, TimerAssumption, WatchdogAssumption
DEF Typed, WellFed, Unhurried, Patience, Count, WdtCount, TimerTypeOK

LEMMA InTime ==
  ASSUME NEW k \in Nat, NEW p \in Nat, NEW m \in Nat, NEW t \in Nat, k <= 2 * p, t > 2 * p + m
  PROVE  k + m <= t
OBVIOUS

LEMMA CountedForGood ==
  ASSUME Typed, Next
  PROVE  counted => counted'
<1>1. timer_irq_count \in Nat /\ TARGET_TIMER_IRQS \in Nat
  BY SocAssumption DEF Typed
<1>2. timer_irq_count' \in Nat /\ timer_irq_count' >= timer_irq_count
  <2>1. timer_irq_count = timer_irq_count' \/ timer_irq_count + 1 = timer_irq_count'
    BY CountMoves
  <2>. QED BY <1>1, <2>1
<1>. QED BY <1>1, <1>2 DEF counted

LEMMA Unwarned ==
  ASSUME Typed, Bearings, Masks, Starting, Fed, Next, ~counted
  PROVE  /\ ~warns
         /\ wdt_warning_count' = 0 /\ ~status_warning' /\ ~wdt_irq_pulse'
          /\ "wdt" \notin irq_pending'
         /\ irq_active' /\ irq_state' = 0 => q1' = {"timer"}
         /\ irq_state' # 0 => "timer" \in irq_pending'
<1>1. /\ wdt_warning_count = 0 /\ ~status_warning /\ ~wdt_irq_pulse /\ "wdt" \notin irq_pending
      /\ irq_active /\ irq_state = 0 => q1 = {"timer"}
      /\ irq_state # 0 => "timer" \in irq_pending
  BY DEF Fed
<1>2. ~warns
  <2>1. wdt_en => KickIn + WARN_MARGIN <= wdt_count
    BY DEF Fed
  <2>2. KickIn \in Nat \ {0} /\ WARN_MARGIN \in Nat /\ wdt_count \in Nat
    BY KickBounds, WatchdogAssumption DEF Typed, WatchdogTypeOK, WdtCount
  <2>. QED BY <2>1, <2>2 DEF warns
<1>3. ~status_warning' /\ ~wdt_irq_pulse'
  BY <1>1, <1>2, UnwrittenDevices, WrittenDevices DEF Next, Stall, Enter, Execute
<1>4. "wdt" \notin irq_pending'
  BY <1>1, Latches
<1>5. wdt_warning_count' = 0
  <2>1. CASE Stall \/ Enter
    BY <1>1, <2>1 DEF Stall, Enter, IrqTrigger, IrqVector, IrqClaim, fwVars
  <2>2. CASE Execute
    <3>1. pc # "warn"
      BY <1>1, <2>2 DEF Execute, Program, Masks, Bearings, IsrPcs
    <3>. QED BY <1>1, <2>2, <3>1 DEF Execute, Program
  <2>. QED BY <2>1, <2>2 DEF Next
<1>6. irq_active' /\ irq_state' = 0 => q1' = {"timer"}
  <2>1. CASE Stall
    BY <1>1, <2>1 DEF Stall, coreVars
  <2>2. CASE Enter
    <3>1. CASE IrqTrigger \/ IrqVector
      BY <3>1 DEF IrqTrigger, IrqVector
    <3>2. CASE IrqClaim
      <4>1. irq_state = 2 /\ q1' = irq_pending \ irq_mask
        BY <3>2 DEF IrqClaim, unmasked
      <4>2. irq_mask = {}
        BY <4>1 DEF Bearings, Masks
      <4>3. "timer" \in irq_pending /\ "wdt" \notin irq_pending
        BY <1>1, <4>1
      <4>4. irq_pending \subseteq {"timer", "wdt"}
        BY DEF Typed, Lines
      <4>. QED BY <4>1, <4>2, <4>3, <4>4
    <3>. QED BY <2>2, <3>1, <3>2 DEF Enter
  <2>3. CASE Execute
    BY <1>1, <2>3 DEF Execute, Program, CoreStep
  <2>. QED BY <2>1, <2>2, <2>3 DEF Next
<1>7. irq_state' # 0 => "timer" \in irq_pending'
  <2>. SUFFICES ASSUME irq_state' # 0 PROVE "timer" \in irq_pending'
    OBVIOUS
  <2>1. Enter /\ (IrqTrigger \/ IrqVector)
    BY DEF Next, Stall, coreVars, Execute, Program, Enter, IrqClaim
  <2>2. "timer" \in irq_pending /\ irq_state # 2
    <3>1. CASE IrqTrigger
      <4>1. irq_state = 0 /\ irq_pending # {}
        BY <3>1 DEF IrqTrigger, takes_irq, unmasked
      <4>2. irq_pending \subseteq {"timer", "wdt"}
        BY DEF Typed, Lines
      <4>3. PICK l \in irq_pending : TRUE
        BY <4>1
      <4>4. "wdt" \notin irq_pending
        BY <1>1
      <4>. QED BY <4>1, <4>2, <4>3, <4>4
    <3>2. CASE IrqVector
      BY <1>1, <3>2 DEF IrqVector
    <3>. QED BY <2>1, <3>1, <3>2
  <2>. QED BY <2>2, Latches
<1>. QED BY <1>1, <1>2, <1>3, <1>4, <1>5, <1>6, <1>7

LEMMA FedStep ==
  ASSUME Typed, Typed', Bearings, Masks, Starting, Counts, Served, Served', Fed, WellFed, Next
  PROVE  Fed'
<1>. SUFFICES ASSUME ~counted' PROVE Fed'
  BY DEF Fed
<1>0. ~counted
  BY CountedForGood
<1>1. /\ TIMER_PERIOD \in Nat /\ TIMER_PERIOD > 10 * Patience /\ TIMER_PERIOD' = TIMER_PERIOD
      /\ Patience \in Nat /\ Patience >= 1 /\ Patience = MaxStall + 1 /\ Patience' = Patience
      /\ count \in Nat /\ count' \in Nat
  BY Rates, TimerAssumption DEF Next, Patience, Typed, TimerTypeOK, Count
<1>2. ClaimIn \in Nat \ {0} /\ ClaimIn' \in Nat \ {0}
  BY ClaimBounds
<1>3. ~(Execute /\ pc = "stop")
  BY <1>0 DEF Masks
<1>4. irq_state # 0 => "timer" \in irq_pending
  BY <1>0 DEF Fed
<1>5. ASSUME ctrl_en'
      PROVE  /\ irq_pulse' => ClaimIn' <= Patience + 2
             /\ "timer" \in irq_pending' => ClaimIn' + TIMER_PERIOD <= count' + Patience + 3
             /\ ClaimIn' <= count' + Patience + 3
  <2>1. CASE ~ctrl_en
    <3>1. /\ Execute /\ pc = "enable" /\ ~irq_pulse' /\ "timer" \notin irq_pending'
          /\ irq_state = 0 /\ ~irq_active
      BY <1>5, <2>1, TimerStarts
    <3>2. pc' = "timeout" /\ ~irq_delay' /\ irq_state' = 0 /\ stall' = 0
      BY <3>1, ProgramCounter DEF Execute, Program
    <3>3. ClaimIn' = Patience + 2
      <4>1. ClaimTable' /\ pc' \in MainPcs
        BY <3>2, ClaimTimes DEF MainPcs
      <4>. QED BY <1>1, <3>2, <4>1 DEF ClaimTable
    <3>. QED BY <1>1, <3>1, <3>3
  <2>2. CASE ctrl_en
    <3>1. /\ irq_pulse => ClaimIn <= Patience + 2
          /\ "timer" \in irq_pending => ClaimIn + TIMER_PERIOD <= count + Patience + 3
          /\ ClaimIn <= count + Patience + 3
      BY <1>0, <2>2 DEF Fed
    <3>2. /\ ~(irq_pulse /\ "timer" \in irq_pending) /\ count <= TIMER_PERIOD
          /\ irq_pulse => count = TIMER_PERIOD
          /\ "timer" \in irq_pending => ClaimIn <= count
      BY <2>2 DEF WellFed, Served
    <3>3. CASE count = 0 /\ irq_pulse' /\ count' = TIMER_PERIOD
      <4>1. "timer" \notin irq_pending /\ ~irq_pulse /\ irq_state # 2
        BY <1>1, <1>2, <1>4, <3>2, <3>3
      <4>2. "timer" \notin irq_pending'
        BY <4>1, Latches
      <4>3. ClaimIn' <= Patience + 2
        BY <1>1, <1>2, <1>3, <3>1, <3>3, <4>1, ClaimStep
      <4>. QED BY <1>1, <1>2, <3>3, <4>2, <4>3
    <3>4. CASE count > 0 /\ ~irq_pulse' /\ count' = count - 1
      <4>1. CASE irq_pulse
        <5>1. irq_state # 2 /\ "timer" \notin irq_pending
          BY <1>4, <3>2, <4>1
        <5>2. ClaimIn' <= Patience + 2
          BY <1>1, <1>2, <1>3, <3>1, <4>1, <5>1, ClaimStep
        <5>. QED BY <1>1, <1>2, <3>2, <3>4, <4>1, <5>2
      <4>2. CASE "timer" \in irq_pending /\ irq_state # 2
        <5>1. ClaimIn' <= ClaimIn - 1
          BY <1>3, <4>2, ClaimStep
        <5>. QED BY <1>1, <1>2, <3>1, <3>4, <4>2, <5>1
      <4>3. CASE "timer" \in irq_pending /\ irq_state = 2
        <5>1. "timer" \notin irq_pending'
          BY <3>2, <4>3, Latches
        <5>2. ClaimIn = 1
          BY <4>3, ClaimTimes DEF ClaimTable
        <5>3. ClaimIn' <= 9 * Patience + 2
          BY ClaimBounds
        <5>. QED BY <1>1, <1>2, <3>1, <3>4, <4>3, <5>1, <5>2, <5>3
      <4>4. CASE "timer" \notin irq_pending /\ ~irq_pulse
        <5>1. "timer" \notin irq_pending' /\ irq_state # 2
          BY <1>4, <4>4, Latches
        <5>2. ClaimIn' <= ClaimIn - 1 \/ ClaimIn' <= Patience + 2
          BY <1>3, <4>4, <5>1, ClaimStep
        <5>. QED BY <1>1, <1>2, <3>1, <3>4, <5>1, <5>2
      <4>. QED BY <4>1, <4>2, <4>3, <4>4
    <3>. QED BY <1>5, <2>2, <3>3, <3>4, TimerRuns
  <2>. QED BY <2>1, <2>2
<1>6. ASSUME wdt_en' PROVE KickIn' + WARN_MARGIN <= wdt_count'
  <2>1. /\ WDT_TIMEOUT_CYCLES \in Nat /\ WARN_MARGIN \in Nat
        /\ WDT_TIMEOUT_CYCLES > 2 * TIMER_PERIOD + WARN_MARGIN
    BY Rates
  <2>2. KickIn' \in Nat \ {0} /\ KickIn \in Nat \ {0}
    BY KickBounds
  <2>3. mainPc' \notin {"reset", "hello", "reload", "enable", "timeout", "watch"}
    BY <1>6, StartingStep DEF Starting
  <2>4. ctrl_en'
    BY <2>3, CountsStep DEF Counts
  <2>5. Unhurried'
    BY DEF WellFed, Unhurried, Next
  <2>6. KickIn' <= 2 * TIMER_PERIOD
    <3>1. count' <= TIMER_PERIOD'
      BY <2>4, <2>5 DEF Served
    <3>. QED BY <1>1, <3>1, KickBounds
  <2>7. CASE Execute /\ pc \in {"kick", "watch"}
    <3>1. wdt_count' = timeout_reg
      BY <2>7, WrittenDevices DEF Execute
    <3>2. timeout_reg = WDT_TIMEOUT_CYCLES
      <4>1. pc = "watch" => mainPc = "watch"
        BY DEF Bearings, IsrPcs, mainPc
      <4>2. pc = "kick" => mainPc = mainPc'
        BY MainMoves DEF Bearings, IsrPcs
      <4>. QED BY <2>3, <2>7, <4>1, <4>2 DEF Starting
    <3>3. wdt_count' \in Nat /\ wdt_count' > 2 * TIMER_PERIOD + WARN_MARGIN
      BY <2>1, <3>1, <3>2
    <3>4. TIMER_PERIOD \in Nat
      BY <1>1
    <3>5. KickIn' \in Nat
      BY <2>2
    <3>. QED BY <2>1, <2>6, <3>3, <3>4, <3>5, InTime
  <2>8. CASE ~(Execute /\ pc \in {"kick", "watch"})
    <3>1. wdt_en
      BY <1>6, <2>8, UnwrittenDevices, WrittenDevices DEF Next, Stall, Enter, Execute
    <3>2. KickIn + WARN_MARGIN <= wdt_count
      BY <1>0, <3>1 DEF Fed
    <3>3. ctrl_en
      BY <1>0, <3>1 DEF Starting, Counts
    <3>4. KickIn' <= KickIn - 1
      BY <1>0, <2>4, <2>8, <3>3, KickStep
    <3>5. wdt_count \in Nat
      BY WatchdogAssumption DEF Typed, WatchdogTypeOK, WdtCount
    <3>6. wdt_count - 1 = wdt_count'
      <4>1. wdt_count # 0
        BY <2>1, <2>2, <3>2, <3>5
      <4>. QED BY <2>8, <3>1, <4>1, UnwrittenDevices, WrittenDevices
               DEF Next, Stall, Enter, Execute
    <3>. QED BY <2>1, <2>2, <3>2, <3>4, <3>5, <3>6
  <2>. QED BY <2>7, <2>8
<1>. QED BY <1>0, <1>1, <1>5, <1>6, Unwarned DEF Fed

LEMMA OverStep ==
  ASSUME Typed, Typed', Bearings, Masks, Starting, Counts, Served, Fed, Over, WellFed, Next
  PROVE  Over'
<1>. SUFFICES ASSUME counted' PROVE Over'
  BY DEF Over
<1>1. /\ TIMER_PERIOD \in Nat /\ TIMER_PERIOD > 10 * Patience
      /\ Patience \in Nat /\ Patience >= 1 /\ Patience = MaxStall + 1
      /\ count \in Nat /\ stall \in 0 .. MaxStall
  BY Rates
<1>2. ClaimIn \in Nat \ {0} /\ ClaimIn' \in Nat \ {0}
  BY ClaimBounds
<1>3. irq_pulse' => ctrl_en /\ count = 0
  BY UnwrittenDevices, WrittenDevices DEF Next, Stall, Enter, Execute
<1>4. timer_irq_count \in Nat /\ TARGET_TIMER_IRQS \in Nat \ {0}
  BY SocAssumption DEF Typed
<1>5. CASE counted
  <2>1. /\ timer_irq_count = TARGET_TIMER_IRQS
        /\ ~irq_pulse /\ "timer" \notin irq_pending /\ ~claimed
        /\ ctrl_en => ClaimIn <= count
        /\ ~ctrl_en => pc \notin {"clear", "kick", "stop"}
    BY <1>5 DEF Over
  <2>2. ~(Execute /\ pc = "clear")
    BY <2>1, ClaimedMoves
  <2>3. timer_irq_count' = TARGET_TIMER_IRQS
    BY <2>1, <2>2, CountMoves
  <2>4. ~irq_pulse' /\ "timer" \notin irq_pending' /\ ~claimed'
    BY <1>1, <1>2, <1>3, <2>1, <2>2, Latches, ClaimedMoves
  <2>5. ASSUME ctrl_en' PROVE ClaimIn' <= count'
    <3>1. ctrl_en
      BY <1>4, <1>5, <2>5, TimerStopped DEF counted
    <3>2. pc \in {"kick", "stop"} /\ ~(Execute /\ pc = "stop")
      BY <1>5, <2>5, <3>1, TimerStopped DEF Counts
    <3>3. irq_active /\ irq_state # 2
      BY <3>2 DEF Bearings, IsrPcs
    <3>4. ClaimIn' <= ClaimIn - 1
      BY <3>2, <3>3, ClaimStep
    <3>5. count' = count - 1
      BY <1>1, <1>2, <2>1, <2>5, <3>1, TimerRuns
    <3>. QED BY <1>1, <1>2, <2>1, <3>1, <3>4, <3>5
  <2>6. ASSUME ~ctrl_en' PROVE pc' \notin {"clear", "kick", "stop"}
    <3>1. CASE ctrl_en
      BY <2>6, <3>1, TimerStopped, ProgramCounter DEF Execute
    <3>2. CASE ~ctrl_en
      <4>1. CASE Stall
        BY <2>1, <3>2, <4>1 DEF Stall, fwVars
      <4>2. CASE Enter
        BY <2>1, <3>2, <4>2 DEF Enter, IrqTrigger, IrqVector, IrqClaim, fwVars
      <4>3. CASE Execute
        <5>1. pc = "handler" => "timer" \notin q1
          BY <2>1, <4>3 DEF Execute, Program, claimed
        <5>2. pc \notin {"clear", "kick", "stop"}
          BY <2>1, <3>2
        <5>3. pc = "retirq" => pc' \in MainPcs
          BY <4>3, ProgramCounter DEF Execute, Bearings, IsrPcs
        <5>. QED BY <4>3, <5>1, <5>2, <5>3, ProgramCounter DEF Execute, Typed, MainPcs, IsrPcs
      <4>. QED BY <4>1, <4>2, <4>3 DEF Next
    <3>. QED BY <3>1, <3>2
  <2>. QED BY <2>3, <2>4, <2>5, <2>6 DEF Over
<1>6. CASE ~counted
  <2>1. Execute /\ pc = "clear"
    BY <1>6, CountMoves DEF counted
  <2>2. timer_irq_count' = TARGET_TIMER_IRQS
    <3>1. timer_irq_count + 1 = timer_irq_count'
      BY <2>1, CountMoves
    <3>2. timer_irq_count + 1 >= TARGET_TIMER_IRQS /\ timer_irq_count < TARGET_TIMER_IRQS
      BY <1>4, <1>6, <3>1 DEF counted
    <3>. QED BY <1>4, <3>1, <3>2
  <2>3. irq_state = 0 /\ irq_active /\ irq_state' = 0 /\ pc' = "kick" /\ stall' = 0
    BY <2>1, ProgramCounter DEF Execute, Program, Bearings, IsrPcs
  <2>4. ctrl_en
    <3>1. mainPc \notin {"reset", "hello", "reload", "enable"}
      BY <2>3 DEF Starting
    <3>. QED BY <1>6, <3>1 DEF Counts
  <2>5. ctrl_en'
    BY <2>1, <2>4, TimerStopped
  <2>6. ClaimIn >= 6 * Patience + 3
    <3>1. 7 * Patience + 2 = TimeToTrigger /\ ClaimIn = TimeToTrigger - stall
      BY <2>1, <2>3, ClaimTimes DEF ClaimTable
    <3>2. Patience \in Nat /\ stall \in Nat /\ stall < Patience
      BY <1>1, SocAssumption
    <3>. QED BY <3>1, <3>2
  <2>7. /\ irq_pulse => ClaimIn <= Patience + 2
        /\ "timer" \in irq_pending => ClaimIn + TIMER_PERIOD <= count + Patience + 3
        /\ ClaimIn <= count + Patience + 3
    BY <1>6, <2>4 DEF Fed
  <2>8. count <= TIMER_PERIOD
    BY <2>4 DEF Served, WellFed
  <2>9. ~irq_pulse /\ "timer" \notin irq_pending /\ count > 2 * Patience
    <3>1. ~irq_pulse
      BY <1>1, <1>2, <2>6, <2>7
    <3>2. "timer" \notin irq_pending
      BY <1>1, <1>2, <2>6, <2>7, <2>8
    <3>3. count > 2 * Patience
      BY <1>1, <1>2, <2>6, <2>7
    <3>. QED BY <3>1, <3>2, <3>3
  <2>10. ~irq_pulse' /\ "timer" \notin irq_pending' /\ ~claimed'
    BY <1>1, <1>3, <2>1, <2>9, Latches, ClaimedMoves
  <2>11. ClaimIn' = 2 * Patience
    <3>1. ClaimTable' /\ Patience' = Patience
      BY ClaimTimes DEF Patience
    <3>. QED BY <1>1, <2>3, <3>1 DEF ClaimTable
  <2>12. count' = count - 1
    BY <1>1, <2>4, <2>5, <2>9, TimerRuns
  <2>. QED BY <1>1, <2>2, <2>5, <2>9, <2>10, <2>11, <2>12 DEF Over
<1>. QED BY <1>5, <1>6

LEMMA ReportedStep ==
  ASSUME Typed, Bearings, Over, Reported, Next
  PROVE  Reported'
<1>1. counted => counted'
  BY CountedForGood
<1>2. CASE Stall \/ Enter \/ irq_active
  <2>1. mainPc' = mainPc
    BY <1>2, MainMoves
  <2>2. reported' = reported
    <3>1. CASE Stall \/ Enter
      BY <3>1 DEF Stall, Enter, IrqTrigger, IrqVector, IrqClaim, fwVars
    <3>2. CASE Execute /\ irq_active
      BY <3>2 DEF Execute, Program, Bearings, IsrPcs
    <3>. QED BY <1>2, <3>1, <3>2 DEF Next
  <2>. QED BY <1>1, <2>1, <2>2 DEF Reported
<1>3. CASE Execute /\ ~irq_active
  <2>1. pc \in MainPcs /\ mainPc = pc /\ mainPc' = pc'
    BY <1>3, MainMoves
  <2>2. /\ pc' = "report" => counted
        /\ pc' = "done" => pc \in {"report", "done"}
    BY <1>3, <2>1, ProgramCounter DEF Execute, MainPcs
  <2>3. reported' = (IF pc = "report" THEN timer_irq_count ELSE reported)
    BY <1>3 DEF Execute, Program
  <2>4. pc \in {"report", "done"} => counted
    BY <2>1 DEF Reported
  <2>. QED BY <1>1, <2>1, <2>2, <2>3, <2>4 DEF Reported, Over
<1>. QED BY <1>2, <1>3 DEF Next

-----------------------------------------------------------------------------
(* The invariant.                                                          *)

LEMMA IrqInitInv == Init => IrqIInv
<1>. SUFFICES ASSUME Init PROVE IrqIInv
  OBVIOUS
<1>1. TimerTypeOK /\ WatchdogTypeOK
  <2>1. MaxCount \in Nat /\ MaxWdtCount \in Nat
    BY TimerAssumption, WatchdogAssumption
  <2>2. MaxCount \in Count /\ MaxWdtCount \in WdtCount
    BY <2>1 DEF Count, WdtCount
  <2>3. TimerTypeOK
    BY <2>2 DEF Init, TimerInit, TimerTypeOK
  <2>4. WatchdogTypeOK
    BY <2>2 DEF Init, WatchdogInit, WatchdogTypeOK
  <2>. QED BY <2>3, <2>4
<1>2. Typed
  <2>1. /\ irq_pending \in SUBSET Lines /\ irq_mask \in SUBSET Lines
        /\ saved_mask \in SUBSET Lines /\ q1 \in SUBSET Lines
        /\ irq_active \in BOOLEAN /\ irq_delay \in BOOLEAN /\ TIMER_PERIOD \in TIMER_PERIODS
    BY DEF Init
  <2>2. pc \in MainPcs \union IsrPcs /\ ret \in MainPcs \union IsrPcs
    BY DEF Init, MainPcs
  <2>3. 0 \in 0 .. MaxPulses /\ 0 \in 0 .. MaxStall
    BY SocAssumption DEF MaxPulses
  <2>4. /\ irq_state \in 0 .. 2 /\ timer_irq_count \in Nat /\ wdt_warning_count \in Nat
        /\ reported \in 0 .. MaxPulses /\ stall \in 0 .. MaxStall
        /\ pulses \in 0 .. MaxPulses
    BY <2>3 DEF Init
  <2>. QED BY <1>1, <2>1, <2>2, <2>4 DEF Typed
<1>3. pc = "reset" /\ ~irq_active /\ mainPc = "reset" /\ ~counted /\ irq_state = 0
  BY SocAssumption DEF Init, mainPc, counted
<1>4. ~irq_pulse /\ irq_pending = {} /\ ~claimed /\ ~due /\ ~ctrl_en /\ ~wdt_en
  BY DEF Init, TimerInit, WatchdogInit, claimed, due
<1>5. Bearings
  BY <1>3 DEF Bearings, IsrPcs
<1>6. Masks
  BY <1>3 DEF Masks, MainPcs, IsrPcs
<1>7. Starting
  BY <1>3, <1>4 DEF Init, TimerInit, WatchdogInit, Starting
<1>8. Counts
  BY <1>3, <1>4, SocAssumption DEF Init, Counts
<1>9. Served
  BY <1>4 DEF Served
<1>10. OnceEach
  BY <1>4 DEF Init, OnceEach, Unserved, Bit
<1>11. Fed /\ Over /\ Reported
  BY <1>3, <1>4 DEF Init, WatchdogInit, Fed, Over, Reported
<1>. QED BY <1>2, <1>5, <1>6, <1>7, <1>8, <1>9, <1>10, <1>11 DEF IrqIInv

LEMMA IrqStep == ASSUME IrqIInv, Next PROVE IrqIInv'
<1>1. Typed /\ Bearings /\ Masks /\ Starting /\ Counts /\ Served /\ OnceEach
  BY DEF IrqIInv
<1>2. Typed'
  BY <1>1, TypedStep
<1>3. Bearings' /\ Masks' /\ Starting' /\ Counts'
  BY <1>1, BearingsStep, MasksStep, StartingStep, CountsStep
<1>4. Served' /\ OnceEach'
  BY <1>1, <1>2, ServedStep, OnceEachStep
<1>5. WellFed' => Fed' /\ Over' /\ Reported'
  <2>. SUFFICES ASSUME WellFed' PROVE Fed' /\ Over' /\ Reported'
    OBVIOUS
  <2>1. WellFed
    BY DEF Next, WellFed, Unhurried
  <2>2. Fed /\ Over /\ Reported
    BY <2>1 DEF IrqIInv
  <2>. QED BY <1>1, <1>2, <1>4, <2>1, <2>2, FedStep, OverStep, ReportedStep
<1>. QED BY <1>2, <1>3, <1>4, <1>5 DEF IrqIInv

LEMMA IrqInductive == Spec => []IrqIInv
<1>1. IrqIInv /\ UNCHANGED vars => IrqIInv'
  <2>. SUFFICES ASSUME IrqIInv, UNCHANGED vars PROVE IrqIInv'
    OBVIOUS
  <2>. USE DEF vars, timerVars, watchdogVars, coreVars, fwVars
  <2>1. Typed' /\ Bearings' /\ Masks' /\ Starting' /\ Counts'
    BY DEF IrqIInv, Typed, TimerTypeOK, WatchdogTypeOK, Bearings, Masks, Starting, Counts, mainPc,
           counted, due, claimed
  <2>2. ClaimIn' = ClaimIn /\ (serving' <=> serving) /\ KickIn' = KickIn
    BY DEF ClaimIn, TimeToTrigger, KickIn, TimeToKick, serving, counted, Patience
  <2>3. Served' /\ OnceEach'
    BY <2>2 DEF IrqIInv, Served, OnceEach, Unserved, claimed, Unhurried
  <2>4. WellFed' => Fed' /\ Over' /\ Reported'
    BY <2>2 DEF IrqIInv, WellFed, Unhurried, Fed, Over, Reported, counted, claimed, mainPc, Patience
  <2>. QED BY <2>1, <2>3, <2>4 DEF IrqIInv
<1>. QED BY <1>1, IrqInitInv, IrqStep, PTL DEF Spec

-----------------------------------------------------------------------------
(* The program keeps its bearings: every register and counter stays in its *)
(* range, however short the period; the handler returns to main, never to  *)
(* itself; and with a period longer than the handler and a timeout of more *)
(* than two periods, the watchdog is fed until main has what it waits for, *)
(* and main reports exactly that (main.c:48-80, start.S:48-62).            *)
THEOREM FirmwareInvariant == Spec => []FirmwareInv
<1>1. IrqIInv => FirmwareInv
  <2>. SUFFICES ASSUME IrqIInv PROVE FirmwareInv
    OBVIOUS
  <2>1. Typed /\ Bearings /\ Counts
    BY DEF IrqIInv
  <2>2. timer_irq_count <= MaxPulses
    <3>1. timer_irq_count \in Nat /\ TARGET_TIMER_IRQS \in Nat
      BY <2>1, SocAssumption DEF Typed
    <3>. QED BY <2>1, <3>1 DEF Counts, Typed, TimerTypeOK, MaxPulses
  <2>3. TypeOK
    BY <2>1, <2>2, SocAssumption DEF Typed, TypeOK, MaxPulses
  <2>4. ReturnsToMain
    BY <2>1 DEF ReturnsToMain, Bearings
  <2>5. ReportIsTarget
    BY <2>1 DEF IrqIInv, ReportIsTarget, Reported, mainPc, Bearings, IsrPcs
  <2>6. FedWhileCounting
    BY DEF IrqIInv, FedWhileCounting, Fed
  <2>. QED BY <2>3, <2>4, <2>5, <2>6 DEF FirmwareInv
<1>. QED BY <1>1, IrqInductive, PTL

(* Every timer interrupt is served once: none is lost in the cycle that    *)
(* clears the pending bits, none is counted twice, while the watchdog's    *)
(* interrupts come as they may (timer.v:14-24, picorv32.v:1511-1514).      *)
THEOREM NoPulseLostOrDoubled == Spec => []EachPulseCountsOnce
<1>1. IrqIInv => EachPulseCountsOnce
  <2>. SUFFICES ASSUME IrqIInv, Unhurried
                PROVE  pulses = timer_irq_count + Cardinality(
                         {w \in {"line", "pending", "claimed"} :
                            \/ w = "line" /\ irq_pulse
                            \/ w = "pending" /\ "timer" \in irq_pending
                            \/ w = "claimed" /\ claimed})
    BY DEF EachPulseCountsOnce, claimed
  <2>1. pulses = timer_irq_count + Unserved
    BY DEF IrqIInv, OnceEach
  <2>. QED BY <2>1, BitsCounted
<1>. QED BY <1>1, IrqInductive, PTL

=============================================================================
