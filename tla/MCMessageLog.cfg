\* Two sends between two keys that both poll, one message a poll: a backlog of two
\* batches.
SPECIFICATION LiveSpec
CONSTANTS
  Keys = {alice, bob}
  Requests = {r1, r2}
  MaxMessageBatch = 1
  NoOne = NoOne
INVARIANTS
  CursorComplete
  NothingTwice
  DeliveryWhole
  AnswersMatchLog
PROPERTIES
  ImplementsTimeline
  SendsSettle
  EventuallyShown
