-------------------------- MODULE MCRedisListings --------------------------
(* Instances of RedisListings for TLC: one job, which resends can put into *)
(* several places, and a second queue for SCAN to pass.                    *)
EXTENDS RedisListings

CONSTANTS j1, q1, q2

MCQueueOf == [j \in Jobs |-> q1]
MCMaxAttempts == [j \in Jobs |-> 2]

\* No property of these runs reads dueAt and runs, and no action depends on
\* them.
WithoutTimes == <<store, now, consumerVars, schedulerVars, adminVars,
                  born, succeeded, resends, readerVars, always, ever>>

Symmetry == Permutations(Consumers)
=============================================================================
