SPECIFICATION FairSpec
CONSTANTS
  before = before
  after = after
  user = user
  none = none
  Tasks <- MCTasks
  Loops <- MCLoops
  NoTask <- none
  MaxServer = 2
  MaxId = 1
INVARIANTS
  NothingMissed
  RepeatsExplained
  OneLoop
PROPERTIES
  EventuallyShown
CHECK_DEADLOCK FALSE
