SPECIFICATION FairSpec
CONSTANTS
  first = first
  second = second
  Workers <- MCWorkers
  MaxKeys = 2
  MaxReqs = 4
INVARIANTS
  ReportAddsUp
  FewAreLate
  AuthorizedOnce
PROPERTIES
  RunEnds
CHECK_DEADLOCK FALSE
