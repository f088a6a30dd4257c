SPECIFICATION PseudocodeSpec
CONSTANTS
  Graphs <- MCGraphs
  NoTarget = NoTarget
  NoBlock = NoBlock
  MaxBlocksRun = 7
INVARIANT
  GoesOn
CHECK_DEADLOCK FALSE
