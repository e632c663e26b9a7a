SPECIFICATION FairSpec
CONSTANTS
  boot = boot
  other = other
  Tasks <- MCTasks
  Boot = boot
  MaxServer = 1
  MaxId = 2
  MaxEdits = 1
  MaxTyped = 2
INVARIANTS
  ResultsExplained
PROPERTIES
  ImplementsPolls
  Recovers
  EventuallyShown
  RosterSettles
