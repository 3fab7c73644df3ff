SPECIFICATION Spec
CONSTANTS
  MaxAttempts = 5
  Jitters = {0, 15, 29}
  MaxUsed = 3
INVARIANTS TypeOK OutcomeIsVerdict LogsPaired MetricsMatchOutcome TimersReleased
PROPERTIES BackoffGrows EveryJobEnds
CHECK_DEADLOCK FALSE
