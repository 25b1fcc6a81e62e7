SPECIFICATION FairSpec
CONSTANTS
  Width = 6
  WdtWidth = 7
  WARN_MARGIN = 4
  TIMER_PERIODS = {20}
  WDT_TIMEOUT_CYCLES = 100
  TARGET_TIMER_IRQS = 2
  MaxStall = 1
INVARIANT WatchdogNeverFires
