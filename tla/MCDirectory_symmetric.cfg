\* One spelling to a name, two users who have one: the removal one sends runs between
\* the two INSERTs of the other's add, and no request fails.
SPECIFICATION ApartSpec
CONSTANTS
  Keys = {k1, k2}
  Names = {"ann", "bob"}
  Lower <- OneSpelling
  Requests = {h1, h2, h3}
  NoKey = NoKey
  NoName = NoName
SYMMETRY AnyOrder
INVARIANTS
  SymmetricWhenQuiet
CHECK_DEADLOCK FALSE
