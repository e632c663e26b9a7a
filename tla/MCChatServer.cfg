\* A post beside any three adds and removals between two people, one of whom may
\* have no name.
SPECIFICATION EditSpec
CONSTANTS
  Keys = {k1, k2}
  Names = {"ann", "bob"}
  Lower <- OneSpelling
  Requests = {h1, h2, h3}
  Posts = {p1}
  NoKey = NoKey
  NoName = NoName
SYMMETRY AnyOrder
INVARIANTS
  AddedAreReached
  RemovedAreNotReached
CHECK_DEADLOCK FALSE
