\* Three requests of any kind over two keys: claims of one name in two spellings,
\* an add, its mirror image and a removal interleave; the names they carry exist,
\* or not, or change owner meanwhile.
SPECIFICATION LowSpec
CONSTANTS
  Keys = {k1, k2}
  Names = {"Ann", "ann", "bob"}
  Lower <- TwoSpellings
  Requests = {h1, h2, h3}
  NoKey = NoKey
  NoName = NoName
SYMMETRY AnyOrder
INVARIANTS
  NamesDistinct
  OneSidedExplained
  AddIsListed
  UnnamedExplained
PROPERTY
  ImplementsRegistry
CHECK_DEADLOCK FALSE
