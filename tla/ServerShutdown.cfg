SPECIFICATION Spec
CONSTANTS
  j1 = j1
  j2 = j2
  q1 = q1
  q2 = q2
  q3 = q3
  Jobs = {j1, j2}
  Queues = {q1, q2, q3}
  QueueOf <- MCQueueOf
  MaxAttempts <- MCMaxAttempts
  Weight <- MCWeight
  Workers = {w1, w2}
  BufferSize = 1
  Registered = {j1, j2}
  NoJob = NoJob
  MaxErrors = 0
CHECK_DEADLOCK FALSE
INVARIANT ShutdownDrains
