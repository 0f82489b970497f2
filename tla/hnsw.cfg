SPECIFICATION MCSpec
CONSTANTS
  Ids = {1, 2, 3, 4, 5, 6}
  Vectors = {0, 1}
  Payloads = {Nothing, red}
  NoFilter = NoFilter
  Nothing = Nothing
  Filters = {NoFilter, red}
  Metric = "l2"
  Dim = 1
  Unserialisable = {}
  Dist <- MCDist
  Matches <- MCMatches
  M = 2
  EfConstruction = 2
  Levels = {0, 1}
  MaxNodes = 6
  ChurnNodes = 3
INVARIANTS TypeOK EdgesStayInLayer EntryIsHighest LiveNodesAgree SearchIsSound SmallIndexIsExact
  TraceTellsTheSearch FiltersWidenTheSearch
  HnswSurvivesReload DamagedHnswIsRefused
PROPERTY ImplementsMap
CHECK_DEADLOCK FALSE
