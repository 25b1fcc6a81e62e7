SPECIFICATION FairSpec
CONSTANTS
  Width = 6
  WdtWidth = 7
  WARN_MARGIN = 4
  TIMER_PERIODS = {6, 51}
  WDT_TIMEOUT_CYCLES = 110
  TARGET_TIMER_IRQS = 2
  MaxStall = 4
INVARIANT FirmwareInv
INVARIANT EachPulseCountsOnce
PROPERTY EverythingGoesOn
