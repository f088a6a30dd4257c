SPECIFICATION LayoutSpec
CONSTANTS
  NoTarget = NoTarget
  Mains = {20}
  Programs <- MCPrograms
INVARIANTS
  GraphExact
  ComponentsExact
  LayersExact
  NothingOverlaps
