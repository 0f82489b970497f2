SPECIFICATION GrowSpec
CONSTANTS
  Ids = {1, 2, 3, 4, 5, 6, 7, 8}
  Vectors = {0, 1, 9}
  Payloads = {Nothing}
  NoFilter = NoFilter
  Nothing = Nothing
  Filters = {NoFilter}
  Metric = "l2"
  Dim = 1
  Unserialisable = {}
  Dist <- MCDist
  Matches <- MCMatches
  M = 2
  EfConstruction = 8
  Levels = {0}
  MaxNodes = 8
  ChurnNodes = 0
INVARIANT LargeKYieldsAll
CHECK_DEADLOCK FALSE
