SPECIFICATION ListingSpec
CONSTANTS
  j1 = j1
  q1 = q1
  q2 = q2
  Jobs = {j1}
  Queues = {q1, q2}
  QueueOf <- MCQueueOf
  MaxAttempts <- MCMaxAttempts
  NoRecord = NoRecord
  NoJob = NoJob
  TicksPerSecond = 1
  Consumers = {c1, c2}
  Schedulers = {s1}
  Admins = {}
  EnqueueDelays = {0, 1}
  RetryDelays = {1}
  MaxTime = 1
  WatchedBusy = 1
  MaxResends = 2
  WatchedResends = 1
  Limits = {1, 2}
SYMMETRY Symmetry
VIEW WithoutTimes
INVARIANTS NoJobLost StatsBracketed ListingFaithful
