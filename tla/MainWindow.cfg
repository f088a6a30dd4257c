SPECIFICATION PanelSpec
CONSTANTS
  NoFunction = NoFunction
  MaxHistory = 6
  Sessions <- MCSessions
  Queries <- MCQueries
  Subgraphs <- MCSubgraphs
INVARIANTS
  HistoryFollowsSelection
  PanesAgree
  SelectionVisible
  ViewsOfSession
PROPERTIES
  ListingStays
  ImplementsBrowserHistory
  PanelFollows
