\* Three pairs: one replaces another, and a third repairs what was cut in half.
SPECIFICATION StoreSpec
CONSTANTS
  Calls = {c1, c2}
  MaxKeys = 3
SYMMETRY CallOrder
INVARIANTS
  PairExplained
  SignedExplained
