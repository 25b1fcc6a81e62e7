SPECIFICATION MCSpec
CONSTANTS
  Keys <- MCKeys
  Data <- MCData
  NoBlock = NoBlock
INVARIANT MatchesFips197
INVARIANT CoreInv
PROPERTY ImplementsBlock
