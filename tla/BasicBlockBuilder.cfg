SPECIFICATION ListingSpec
CONSTANTS
  MaxAddress = 5
  NoAddress = NoAddress
  MaximumFlowLanes = 2
  Streams <- MCStreams
INVARIANTS
  BlocksPartitionPrefix
  BlocksAreBasic
  LanesDisjoint
CHECK_DEADLOCK FALSE
