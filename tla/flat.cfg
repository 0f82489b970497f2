SPECIFICATION MCSpec
CONSTANTS
  Ids = {1, 2, 3, 4}
  Vectors = {0, 1, 2}
  Payloads <- MCPayloads
  Filters <- MCFilters
  Query = 0
  Queries <- MCQueries
  Nesting <- MCNesting
  Combined <- MCCombined
  Keys <- MCKeys
  Numbers = {3, 4}
  Values <- MCValues
  Metric = "l2"
  Dim = 1
  Unserialisable <- MCUnserialisable
  Components <- MCComponents
  Dist <- MCDist
  Matches <- MCMatches
INVARIANTS TypeOK PositionsAgree SearchIsExact FiltersFindSets BareVectorsNeedVacuousFilters
  FlatSurvivesReload DamagedFlatIsRefused KernelsAgree
PROPERTY ImplementsMap
