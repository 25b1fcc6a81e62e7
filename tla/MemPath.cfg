SPECIFICATION MCSpec
CONSTANTS
  Request = {q1, q2, q3, q4}
  NoBeat = NoBeat
  d1 = d1
  d2 = d2
  None = None
  Addr <- OneWord
  Data <- TwoData
  FastSlaves <- AllFast
  BenchAddr <- MCAddr
  BenchWordAddr <- MCWordAddr
  BenchByte = {0, 1}
  BenchLanes = {"low", "high"}
  BenchTimeout = 200
  BenchCalls = 3
INVARIANT TransferInv
PROPERTY ValidHolds
PROPERTY EveryTransferEnds
INVARIANT MemoryInv
INVARIANT BenchInv
