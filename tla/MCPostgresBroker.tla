-------------------------- MODULE MCPostgresBroker --------------------------
(* An instance of PostgresBroker for TLC: two jobs in one queue, with the  *)
(* same unique key or, so that both can be live at a time, without.        *)
EXTENDS PostgresBroker

CONSTANTS j1, j2, q1, k1

MCQueueOf == [j \in Jobs |-> q1]
MCKeysOf == [j \in Jobs |-> IF j = j1 THEN {k1} ELSE {k1, NoKey}]
MCMaxAttempts == [j \in Jobs |-> IF j = j1 THEN 2 ELSE 1]
MCEnqueueDelay == [j \in Jobs |-> IF j = j1 THEN 0 ELSE 1]
=============================================================================
