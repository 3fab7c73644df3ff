SPECIFICATION Spec
CONSTANTS
  j1 = j1
  j2 = j2
  q1 = q1
  Jobs = {j1}
  Queues = {q1}
  QueueOf <- MCQueueOf
  MaxAttempts <- MCDefaultAttempts
  NoRecord = NoRecord
  NoJob = NoJob
  TicksPerSecond = 1
  Consumers = {c1, c2}
  Schedulers = {s1, s2}
  Admins = {a1, a2}
  EnqueueDelays = {0, 1}
  RetryDelays = {1}
  MaxTime = 2
  MaxResends = 0
SYMMETRY Symmetry
INVARIANTS TypeOK NoJobLost SinglePlace OneOwner NoDanglingID AcknowledgedStaysGone RunsWithinBudget DeadStatusIsDeadLetter
PROPERTIES AttemptsNeverGoBack ImplementsBroker
