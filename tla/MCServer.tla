------------------------------ MODULE MCServer ------------------------------
(* Two queues of different weight and one of weight 0, two workers, a      *)
(* channel of one.                                                         *)
EXTENDS Server

CONSTANTS j1, j2, q1, q2, q3

MCQueueOf == [j \in Jobs |-> IF j = j1 THEN q1 ELSE q2]
MCMaxAttempts == [j \in Jobs |-> IF j = j1 THEN 2 ELSE 1]
MCWeight == [q \in Queues |-> CASE q = q1 -> 2 [] q = q2 -> 1 [] q = q3 -> 0]
=============================================================================
