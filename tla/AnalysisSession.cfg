SPECIFICATION Spec
CONSTANTS
  NoBinary = NoBinary
  Binaries <- MCBinaries
INVARIANTS
  NoStaleEntries
  AllOrNothing
  PrototypesComplete
  FunctionAtFinds
