SPECIFICATION DeleteSpec
CONSTANTS
  j1 = j1
  j2 = j2
  q1 = q1
  Jobs = {j1, j2}
  Queues = {q1}
  QueueOf <- MCQueueOf
  MaxAttempts <- MCMaxAttempts
  NoRecord = NoRecord
  NoJob = NoJob
  TicksPerSecond = 1
  Consumers = {c1, c2}
  Schedulers = {s1}
  Admins = {a1}
  EnqueueDelays = {0, 1}
  RetryDelays = {1}
  MaxTime = 1
  MaxResends = 0
INVARIANTS DeletedIsGone
