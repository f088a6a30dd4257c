SPECIFICATION Spec
CONSTANTS
  MaxAddress = 5
  NoAddress = NoAddress
  Inputs <- MCInputs
INVARIANTS
  TypeOK
  ReachabilityExact
  OrdersListReachable
  DominatorsExact
  LoopsExact
  BlockContainingFinds
PROPERTIES
  DominatorsOnlyShrink
  BuildTerminates
