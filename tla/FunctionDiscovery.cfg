SPECIFICATION Spec
CONSTANTS
  MaxAddress = 11
  NoAddress = NoAddress
  MaximumFunctionCount = 3
  Alignment = 4
  Binaries <- MCBinaries
INVARIANTS
  RangesExact
  KnownStartsKept
  CallsOfIntactFunctionsFollowed
  SymbolsDecide
  HeuristicStartsExact
CHECK_DEADLOCK FALSE
