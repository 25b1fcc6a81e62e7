SPECIFICATION FairSpec
CONSTANTS
  d1 = d1
  d2 = d2
  None = None
  Addr <- SomeAddr
  Data <- TwoData
  FastSlaves <- RamIsSlow
INVARIANT WriteInv
PROPERTY PulsePerMiss
PROPERTY ImplementsBus
PROPERTY EveryWriteAnswered
