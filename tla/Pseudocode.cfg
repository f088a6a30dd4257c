SPECIFICATION PseudocodeSpec
CONSTANTS
  Graphs <- MCGraphs
  NoTarget = NoTarget
  NoBlock = NoBlock
  MaxBlocksRun = 7
INVARIANTS
  PrintedPathsReal
  EveryBlockPrintedOnce
CHECK_DEADLOCK FALSE
