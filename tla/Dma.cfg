SPECIFICATION MCSpec
CONSTANTS
  Block <- MCBlock
  Key <- MCKey
  Cipher <- MCCipher
  Xor <- MCXor
  Inc <- MCInc
  None = None
  SizeWords = 4
  Word <- MCWord
  ZeroWord = 0
  Beats = 2
  LenBits = 1
  ZeroKey = "k0"
  SrcAddrs = {}
  DstAddrs = {1}
  Lens = {1}
  Ivs <- MCIvs0
  Contents <- MCSmallContents
  MaxStarts = 2
  MaxDisturbances = 1
  SpinLimit = 3
  MaxCalls = 3
  RunSrc = {0}
  RunDst = {0, 2}
  RunLens = {1, 2}
INVARIANT AgreeInv
INVARIANT BenchInv
PROPERTY ImplementsCopyInSoc
PROPERTY EveryStartInterrupts
