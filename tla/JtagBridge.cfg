SPECIFICATION FairSpec
CONSTANTS
  Addr = {0, 1}
  Data = {0, 1}
  NoAddr = 0
  NoData = 0
  Mix <- WholeWord
INVARIANT HandshakeInv
INVARIANT PayloadsArrive
PROPERTY EveryStartEnds
