--------------------------- MODULE MCRedisBroker ---------------------------
(* Instances of RedisBroker for TLC: one or two jobs of one queue.         *)
EXTENDS RedisBroker, TLC

CONSTANTS j1, j2, q1

MCQueueOf == [j \in Jobs |-> q1]
MCMaxAttempts == [j \in Jobs |-> IF j = j1 THEN 2 ELSE 1]
MCDefaultAttempts == [j \in Jobs |-> 3]

\* RedisDelete reads neither dueAt nor runs, and no action depends on them.
WithoutTimes == <<store, now, consumerVars, schedulerVars, adminVars,
                  born, succeeded, deleteBegun, deleteDone>>

Symmetry == Permutations(Consumers) \cup Permutations(Schedulers) \cup Permutations(Admins)
=============================================================================
