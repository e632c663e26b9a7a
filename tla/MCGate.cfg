\* Three deliveries of two requests at one replica beside the -authorize command:
\* the entry that is swept, the timestamp ahead of the clock and the clock read too
\* early all fit in three readings of the clock.
SPECIFICATION Spec
CONSTANTS
  Keys = {alice}
  Replicas = {p}
  Requests = {q1, q2}
  Deliveries = {d1, d2, d3}
  MaxSkew = 1
  SweepInterval = 1
  MaxTime = 2
SYMMETRY DeliveryOrder
INVARIANTS
  AcceptedOnce
  TurnedAwayIsKnown
  PendingExplained
