SPECIFICATION FairSpec
CONSTANTS
  None = None
  Addr <- AllKinds
  MissAddr <- OneMiss
  FastSlaves <- RomFast
INVARIANT ReadInv
INVARIANT DataIsForOwnRead
PROPERTY EveryReadAnswered
