SPECIFICATION Spec
CONSTANTS
  j1 = j1
  j2 = j2
  q1 = q1
  k1 = k1
  Jobs = {j1, j2}
  Queues = {q1}
  QueueOf <- MCQueueOf
  Keys = {k1}
  KeysOf <- MCKeysOf
  MaxAttempts <- MCMaxAttempts
  Consumers = {c1, c2}
  NoRow = NoRow
  NoJob = NoJob
  NoKey = NoKey
  EnqueueDelay <- MCEnqueueDelay
  RetryDelays = {1}
  MaxUpsets = 3
INVARIANTS TypeOK ClaimedOnce NeverEarly CompletedForGood OneLivePerKey AttemptsWithinBudget NoRowForgotten
PROPERTIES NoResurrection ImplementsContract KeyIsFreedAgain
CHECK_DEADLOCK FALSE
