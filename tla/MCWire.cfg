SPECIFICATION Spec
CONSTANTS
  MaxOddities = 1
  MaxDepth <- Deep
  Sendable <- MCSendable
  Queries <- MCQueries
INVARIANTS
  RoundTrip
  MarkerQueriesSearch
CHECK_DEADLOCK FALSE
