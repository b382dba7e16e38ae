\* One order and one recipient, two overlapping runs, a pin that follows its
\* message, lost answers, crashes and a manual retry.
CONSTANTS
  w1 = w1
  w2 = w2
  NoQueue = NoQueue
  order1 = order1
  Workers <- MCWorkers
  Queues <- OneQueue
  MaxRows = 2
  LeaseDuration = 1
  RetryDelays <- OneDelay
  RetryAfters = {0}
  MaxLag = 1
  MaxManualRetries = 1
SPECIFICATION FairSpec
INVARIANTS
  FirstCopiesInOrder
  SentUnderLatestLease
PROPERTIES
  DrainsOrStops
  ImplementsInOrderDelivery
CHECK_DEADLOCK FALSE
