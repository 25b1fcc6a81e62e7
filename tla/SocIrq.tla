--------------------------------- MODULE SocIrq ---------------------------------
(***************************************************************************)
(* Interrupts end to end: the timer and the watchdog pulse their lines,    *)
(* PicoRV32 latches them (picorv32.v), start.S and main.c serve them and   *)
(* write the two devices back.  A step is one rising edge of clk.  An      *)
(* instruction, or a few that act on nothing but the core, is one program  *)
(* step, which takes one to MaxStall + 1 edges.                            *)
(***************************************************************************)
EXTENDS Timer, Watchdog, FiniteSets

CONSTANTS TIMER_PERIODS, WDT_TIMEOUT_CYCLES, TARGET_TIMER_IRQS, MaxStall

ASSUME SocAssumption ==
  /\ TIMER_PERIODS \subseteq Count /\ WDT_TIMEOUT_CYCLES \in WdtCount
  /\ TARGET_TIMER_IRQS \in Nat \ {0} /\ MaxStall \in Nat

VARIABLES
  irq_pending, irq_mask, irq_active, irq_delay, irq_state, q1,     \* PicoRV32
  pc, ret, saved_mask, timer_irq_count, wdt_warning_count,         \* firmware
  reported,        \* the count it prints
  TIMER_PERIOD,    \* the firmware's constant, one of TIMER_PERIODS for a whole behaviour
  stall,           \* edges the current program step has taken
  pulses           \* history: timer interrupts so far, up to the bound of TypeOK

coreVars == <<irq_mask, irq_active, irq_delay, irq_state, q1>>
fwVars == <<pc, ret, saved_mask, timer_irq_count, wdt_warning_count, reported>>
vars ==
  <<timerVars, watchdogVars, irq_pending, coreVars, fwVars, TIMER_PERIOD, stall, pulses>>

Lines == {"timer", "wdt"}
MainPcs == {"reset", "hello", "reload", "enable", "timeout", "watch", "wait", "report", "done"}
IsrPcs == {"irq_vec", "handler", "clear", "kick", "stop", "warn", "restore", "retirq"}
MaxPulses == TARGET_TIMER_IRQS + 2

Init ==
  /\ TimerInit /\ WatchdogInit
  /\ irq_pending = {} /\ irq_mask = Lines /\ irq_active = FALSE /\ irq_delay = FALSE
  /\ irq_state = 0 /\ q1 = {}
  /\ pc = "reset" /\ ret = "reset" /\ saved_mask = {} /\ timer_irq_count = 0
  /\ wdt_warning_count = 0 /\ reported = 0 /\ stall = 0 /\ pulses = 0
  /\ TIMER_PERIOD \in TIMER_PERIODS

-----------------------------------------------------------------------------
(* The core. *)

irq_lines == {l \in Lines : IF l = "timer" THEN irq_pulse ELSE wdt_irq_pulse}
unmasked == irq_pending \ irq_mask

(* The operators named Bad... are faulty variants, never part of the model: *)
(* each is a plausible slip that one of the properties must catch.          *)
BadTakesIrq == irq_state = 0 /\ ~irq_delay /\ unmasked # {}    \* also inside the handler
takes_irq == irq_state = 0 /\ ~irq_active /\ ~irq_delay /\ unmasked # {}

next_irq_pending ==
  (IF irq_state = 2 THEN irq_pending \intersect irq_mask ELSE irq_pending) \union irq_lines

IrqTrigger ==
  /\ takes_irq /\ irq_state' = 1
  /\ UNCHANGED <<irq_mask, irq_active, irq_delay, q1, fwVars>>

IrqVector ==
  /\ irq_state = 1 /\ irq_state' = 2 /\ irq_active' = TRUE
  /\ ret' = pc /\ pc' = "irq_vec"
  /\ UNCHANGED <<irq_mask, irq_delay, q1, saved_mask, timer_irq_count, wdt_warning_count,
                 reported>>

IrqClaim ==
  /\ irq_state = 2 /\ irq_state' = 0 /\ q1' = unmasked
  /\ UNCHANGED <<irq_mask, irq_active, irq_delay, fwVars>>

-----------------------------------------------------------------------------
(* The firmware.  Program: one step of main or of the handler; its bus     *)
(* write, if any, reaches the device on the same edge.                     *)

counted == timer_irq_count >= TARGET_TIMER_IRQS

afterTimer == IF "wdt" \in q1 THEN "warn" ELSE "restore"

next_pc ==
  CASE pc = "reset"   -> "hello"     [] pc = "hello"   -> "reload"
    [] pc = "reload"  -> "enable"    [] pc = "enable"  -> "timeout"
    [] pc = "timeout" -> "watch"     [] pc = "watch"   -> "wait"
    [] pc = "wait"    -> (IF counted THEN "report" ELSE "wait")
    [] pc \in {"report", "done"} -> "done"
    [] pc = "irq_vec" -> "handler"
    [] pc = "handler" -> (IF "timer" \in q1 THEN "clear" ELSE afterTimer)
    [] pc = "clear"   -> "kick"
    [] pc = "kick"    -> (IF counted THEN "stop" ELSE afterTimer)
    [] pc = "stop"    -> afterTimer
    [] pc = "warn"    -> "restore"
    [] pc = "restore" -> "retirq"
    [] pc = "retirq"  -> ret

timer_write ==
  CASE pc = "reload" -> [reg |-> "RELOAD", value |-> TIMER_PERIOD]
    [] pc = "enable" -> [reg |-> "CTRL", value |-> TRUE]
    [] pc = "clear"  -> [reg |-> "STATUS", value |-> TRUE]
    [] pc = "stop"   -> [reg |-> "CTRL", value |-> FALSE]
    [] OTHER         -> NoWrite

wdt_write ==
  CASE pc = "timeout" -> [reg |-> "TIMEOUT", value |-> WDT_TIMEOUT_CYCLES]
    [] pc = "watch"   -> [reg |-> "CTRL", value |-> TRUE]
    [] pc = "kick"    -> [reg |-> "KICK"]
    [] OTHER          -> NoWrite

BadCoreStep ==                       \* retirq forgets that the handler is over
  /\ irq_mask' = (IF pc = "reset" THEN {} ELSE IF pc = "irq_vec" THEN Lines
                  ELSE IF pc = "restore" THEN saved_mask ELSE irq_mask)
  /\ saved_mask' = (IF pc = "irq_vec" THEN irq_mask ELSE saved_mask)
  /\ irq_active' = irq_active
CoreStep ==
  /\ irq_mask' = (IF pc = "reset" THEN {} ELSE IF pc = "irq_vec" THEN Lines
                  ELSE IF pc = "restore" THEN saved_mask ELSE irq_mask)
  /\ saved_mask' = (IF pc = "irq_vec" THEN irq_mask ELSE saved_mask)
  /\ irq_active' = (irq_active /\ pc # "retirq")

Program ==
  /\ irq_state = 0 /\ ~takes_irq
  /\ pc' = next_pc /\ irq_delay' = irq_active /\ CoreStep
  /\ timer_irq_count' = (IF pc = "clear" THEN timer_irq_count + 1 ELSE timer_irq_count)
  /\ wdt_warning_count' = (IF pc = "warn" THEN wdt_warning_count + 1 ELSE wdt_warning_count)
  /\ reported' = (IF pc = "report" THEN timer_irq_count ELSE reported)
  /\ UNCHANGED <<irq_state, q1, ret>>

-----------------------------------------------------------------------------
(* One edge of clk. *)

Devices(tw, ww) ==
  /\ TimerEdge(tw) /\ WatchdogEdge(ww)
  /\ irq_pending' = next_irq_pending
  /\ pulses' = (IF irq_pulse' /\ pulses < MaxPulses THEN pulses + 1 ELSE pulses)

Stall ==
  /\ irq_state = 0 /\ stall < MaxStall /\ stall' = stall + 1
  /\ UNCHANGED <<coreVars, fwVars>> /\ Devices(NoWrite, NoWrite)

Enter ==
  /\ IrqTrigger \/ IrqVector \/ IrqClaim
  /\ stall' = 0 /\ Devices(NoWrite, NoWrite)

Execute == Program /\ stall' = 0 /\ Devices(timer_write, wdt_write)

Next == (Stall \/ Enter \/ Execute) /\ UNCHANGED TIMER_PERIOD

Spec == Init /\ [][Next]_vars
FairSpec == Spec /\ WF_vars(Next)

TypeOK ==
  /\ TimerTypeOK /\ WatchdogTypeOK
  /\ {irq_pending, irq_mask, saved_mask, q1} \subseteq SUBSET Lines
  /\ irq_active \in BOOLEAN /\ irq_delay \in BOOLEAN /\ irq_state \in 0 .. 2
  /\ pc \in MainPcs \union IsrPcs /\ ret \in MainPcs \union IsrPcs
  /\ timer_irq_count \in 0 .. MaxPulses /\ wdt_warning_count \in Nat
  /\ TIMER_PERIOD \in TIMER_PERIODS
  /\ reported \in 0 .. MaxPulses /\ stall \in 0 .. MaxStall /\ pulses \in 0 .. MaxPulses

-----------------------------------------------------------------------------
(* The handler is never interrupted, mask restored or not: it always       *)
(* returns to main, through the one q0 it saved.                           *)
ReturnsToMain == irq_active => ret \in MainPcs

(* The period leaves room for the core to notice a pulse and for the       *)
(* handler to run, at most MaxStall + 1 edges a step.                      *)
Unhurried == TIMER_PERIOD > 10 * (MaxStall + 1)

(* The watchdog's timeout has a margin over the period, of which main.c:14 *)
(* asks five.                                                              *)
WellFed == Unhurried /\ WDT_TIMEOUT_CYCLES > 2 * TIMER_PERIOD + WARN_MARGIN

(* Every timer interrupt is served once: what has not been counted is      *)
(* still on the line, pending, or claimed by the running handler; nothing  *)
(* is lost in the cycle that clears the pending bits and nothing is served *)
(* twice, whenever the handler is done before the next one (timer.v:14-24). *)
EachPulseCountsOnce ==
  LET claimed == "timer" \in q1 /\ irq_state = 0 /\ pc \in {"irq_vec", "handler", "clear"}
      waiting == {w \in {"line", "pending", "claimed"} :
                    \/ w = "line" /\ irq_pulse
                    \/ w = "pending" /\ "timer" \in irq_pending
                    \/ w = "claimed" /\ claimed} IN
  Unhurried => pulses = timer_irq_count + Cardinality(waiting)

(* A timer interrupt that comes while the handler runs, or in the very     *)
(* cycle its predecessor is claimed, has the handler run once more.        *)
LatePulseRunsAgain ==
  irq_pulse /\ irq_active ~> irq_state = 1 /\ "timer" \in unmasked

(* main reports exactly the interrupts it waited for (main.c:54-60).       *)
ReportIsTarget == WellFed /\ pc = "done" => reported = TARGET_TIMER_IRQS

(* Until the report the watchdog is fed in time (main.c:13-14, 65-70).     *)
FedWhileCounting == WellFed /\ ~counted => wdt_warning_count = 0 /\ ~status_warning

(* The program keeps its bearings and does its job.                        *)
FirmwareInv == TypeOK /\ ReturnsToMain /\ ReportIsTarget /\ FedWhileCounting

(* main gets to its report, and the handler ends.                          *)
ReportIsReached == <>(pc = "done")
HandlerEnds == irq_active ~> ~irq_active

(* However fast the interrupts come, everything gets its turn.             *)
EverythingGoesOn == ReportIsReached /\ HandlerEnds /\ LatePulseRunsAgain

(* "Keep kicking forever via the timer ISR so the watchdog never fires"    *)
(* (main.c:91-92).                                                         *)
WatchdogNeverFires == ~status_reset_req
=============================================================================
