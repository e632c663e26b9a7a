\* One key, with nobody pressing Check again.
SPECIFICATION FairSpec
CONSTANTS
  Slots = {s1, s2}
  MaxKey = 1
  MaxId = 0
PROPERTIES
  LetIn
