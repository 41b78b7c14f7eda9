CONSTANTS
  NoEvent = NoEvent
  e1 = e1
  e2 = e2
  e3 = e3
  p1 = p1
  r1 = r1
  Events <- MCEvents
  Requests <- MCRequests
  Batch <- MCBatch
  KafkaSkip = {e3}
  Poison = {p1}
  BatchSize = 2
  MAX_ATTEMPTS = 2
  MaxCrashes = 1
SPECIFICATION FairSpec
CHECK_DEADLOCK FALSE
INVARIANTS
  ProcessedIsDelivered
  NoSilentLoss
  BatchInOrder
PROPERTIES
  DeliversDurably
  DeliversEventually
