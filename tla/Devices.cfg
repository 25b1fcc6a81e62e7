SPECIFICATION MCSpec
CONSTANTS
  Width = 2
  Reloads = {0, 1, 2}
  WdtWidth = 2
  WARN_MARGIN = 2
  Timeouts = {0, 1, 2}
  DataBits = 3
  CLKS_PER_BIT = 3
  CntWidth = 2
  None = None
  MinGap = 1
  Payloads <- Byte
  SpiBits = 2
  I2cBits = 2
  DivWidth = 3
  SpiPayloads <- MCSpiPayloads
  I2cPayloads <- MCI2cPayloads
  SpiDividers = {2, 3}
  I2cDividers = {2, 3}
INVARIANT DevicesInv
INVARIANT ResetIffStarved
INVARIANT BytesCross
PROPERTY OnTime
PROPERTY TimerModelAgrees
INVARIANT WatchdogModelAgrees
PROPERTY LinesKeepProtocol
PROPERTY EverythingEnds
