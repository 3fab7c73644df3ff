------------------------------- MODULE Broker -------------------------------
(***************************************************************************)
(* What the Broker interface (internal/broker/broker.go) promises of one   *)
(* job, whatever stores it: each method moves the job from one phase of    *)
(* its life to the next in a single step, and only from the phase it is    *)
(* meant for.                                                              *)
(*                                                                         *)
(*   unborn -> later | ready      Enqueue                                  *)
(*   later  -> ready              PromoteDueJobs                           *)
(*   ready  -> active             Dequeue                                  *)
(*   active -> done               Acknowledge                              *)
(*   active -> later              Requeue                                  *)
(*   active -> dead               MoveToDeadLetter                         *)
(*   dead   -> ready              RetryDeadJob                             *)
(*                                                                         *)
(* A job whose consumer disappears stays active: there is no reaper.       *)
(***************************************************************************)
EXTENDS Naturals

CONSTANTS
  Jobs,
  MaxAttempts   \* the MaxAttempts field of each job

VARIABLES
  phase,        \* where each job is in its life
  used          \* its Attempts field, 0 while it has no record

brokerVars == <<phase, used>>

Phases == {"unborn", "later", "ready", "active", "dead", "done"}

BrokerTypeOK ==
  /\ phase \in [Jobs -> Phases]
  /\ used \in [Jobs -> Nat]

BrokerInit ==
  /\ phase = [j \in Jobs |-> "unborn"]
  /\ used = [j \in Jobs |-> 0]

Move(j, from, to, attempts) ==
  /\ phase[j] = from
  /\ phase' = [phase EXCEPT ![j] = to]
  /\ used' = [used EXCEPT ![j] = attempts]

Enqueue(j, to) == to \in {"later", "ready"} /\ Move(j, "unborn", to, 0)
PromoteDueJob(j) == Move(j, "later", "ready", used[j])
Dequeue(j) == Move(j, "ready", "active", used[j])
Acknowledge(j) == Move(j, "active", "done", 0)
Requeue(j) == used[j] + 1 < MaxAttempts[j] /\ Move(j, "active", "later", used[j] + 1)
RetryDeadJob(j) == Move(j, "dead", "ready", 0)

\* With the attempt that failed counted, or, for a job that no handler is
\* registered for, with none.
MoveToDeadLetter(j, attempts) ==
  /\ attempts = used[j] \/ (attempts = used[j] + 1 /\ attempts >= MaxAttempts[j])
  /\ Move(j, "active", "dead", attempts)

BrokerNext ==
  \E j \in Jobs :
    \/ \E to \in {"later", "ready"} : Enqueue(j, to)
    \/ PromoteDueJob(j)
    \/ Dequeue(j)
    \/ Acknowledge(j)
    \/ Requeue(j)
    \/ \E attempts \in {used[j], used[j] + 1} : MoveToDeadLetter(j, attempts)
    \/ RetryDeadJob(j)

\* Most steps of an implementation change nothing here; as the first disjunct
\* that is found out cheaply.
BrokerStep == UNCHANGED brokerVars \/ BrokerNext

BrokerSpec == BrokerInit /\ [][BrokerStep]_brokerVars
=============================================================================
