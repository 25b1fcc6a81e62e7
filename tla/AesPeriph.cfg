SPECIFICATION FairSpec
CONSTANTS
  Block <- MCBlock
  Key <- MCKey
  Cipher <- MCCipher
  Xor <- MCXor
  Inc <- MCInc
  None = None
  ZeroKey = "k0"
  ZeroBlock = 0
  DataIn = {1, 2}
  Ivs = {2}
INVARIANT PeriphInv
INVARIANT ResultIsTheBlock
PROPERTY EveryBlockInterrupts
