SPECIFICATION Spec
CONSTANTS
  j1 = j1
  j2 = j2
  q1 = q1
  Jobs = {j1}
  Queues = {q1}
  QueueOf <- MCQueueOf
  MaxAttempts <- MCDefaultAttempts
  NoRecord = NoRecord
  NoJob = NoJob
  TicksPerSecond = 2
  Consumers = {c1}
  Schedulers = {s1}
  Admins = {a1}
  EnqueueDelays = {0, 1, 3}
  RetryDelays = {2, 3}
  MaxTime = 8
  MaxResends = 0
INVARIANTS NeverASecondEarly
