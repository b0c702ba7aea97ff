SPECIFICATION DeliveriesSpec
CONSTANTS
  Subs = {1, 2}
  Urls = {u1, u2}
  Deliveries = {d1, d2}
  MaxAttempts = 2
  TripAfter = 2
  BatchSize = 2
  MaxSubs = 1
  MaxRollbacks = 1
  Messages = {m1, m2}
  Linked = {m1}
  Expiring = {m1}
  MaxSends = 2
  MaxLosses = 1
INVARIANTS WebhookInv OutboxInv
PROPERTIES DeliveriesEnd OverIsOver
\* All deliveries settled and all messages finished: nothing is left to do.
CHECK_DEADLOCK FALSE
