\* Two calls in flight, a message, and two keys, one replacing the other, with
\* somebody pressing Check again.
SPECIFICATION AskingSpec
CONSTANTS
  Slots = {s1, s2}
  MaxKey = 2
  MaxId = 1
INVARIANTS
  TranscriptIsExact
PROPERTIES
  PollsEnd
  LetIn
