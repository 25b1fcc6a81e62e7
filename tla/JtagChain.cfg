SPECIFICATION MCSpec
CONSTANTS
  DrBits = 32
  IdCode <- MCIdCode
  Words <- MCWords
  Transactions <- MCTransactions
  FakeAddrs <- MCFakeAddrs
  SocAddrs <- MCSocAddrs
  Poked <- MCPoked
  WalkBits = 2
  WalkIdCode <- MCWalkIdCode
 
INVARIANT DebuggerServed
PROPERTY MeetsTheBridge
PROPERTY EveryTransactionEnds
