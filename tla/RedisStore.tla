---------------------------- MODULE RedisStore ----------------------------
(***************************************************************************)
(* The Redis keys of mini-sidekiq and the Lua scripts that change them     *)
(* (internal/broker/redis.go).  Redis runs a script, or a single command,  *)
(* as one indivisible step, so each operator below is one atomic change of *)
(* the store.  Callers (RedisBroker) decide when it happens.               *)
(*                                                                         *)
(*   record[j]     sidekiq:job:{j}       the stored Job, or NoRecord       *)
(*   queue[q]      sidekiq:queue:{q}     list, kept in RPOP order: LPUSH   *)
(*                                       appends, RPOP takes the head      *)
(*   scheduled[j]  sidekiq:scheduled     j's score, or Absent              *)
(*   retry[j]      sidekiq:retry:{QueueOf[j]}   j's score, or Absent       *)
(*   dead[j]       sidekiq:dead:{QueueOf[j]}    occurrences of j in it     *)
(*   active        sidekiq:active        its members; the deadline score   *)
(*                                       is read by nobody (no reaper)     *)
(*                                                                         *)
(* Of a Job the fields that no broker operation ever changes are constants *)
(* (queue, max_attempts); payload, type and last_error are left out.       *)
(***************************************************************************)
EXTENDS Integers, Sequences

CONSTANTS
  Jobs,            \* job IDs, drawn client-side by sidekiq.NewJob
  Queues,          \* queue names
  QueueOf,         \* the Queue field of each job
  NoRecord,        \* GET of a missing sidekiq:job:{id}
  TicksPerSecond   \* clock resolution: time.Now() is finer than Unix()

Absent == -1
Status == {"pending", "retry", "dead"}
JobRecord == [status : Status, attempts : Nat, processAt : Nat]

ASSUME StoreAssumption ==
  /\ QueueOf \in [Jobs -> Queues]
  /\ NoRecord \notin JobRecord
  /\ TicksPerSecond \in Nat \ {0}
  /\ "scheduled" \notin Queues

VARIABLES record, queue, scheduled, retry, dead, active, now

store == <<record, queue, scheduled, retry, dead, active>>

\* time.Time.Unix(): whole seconds, the fraction is cut off.
Unix(t) == t \div TicksPerSecond

StoreTypeOK ==
  /\ record \in [Jobs -> JobRecord \cup {NoRecord}]
  /\ queue \in [Queues -> Seq(Jobs)]
  /\ scheduled \in [Jobs -> Nat \cup {Absent}]
  /\ retry \in [Jobs -> Nat \cup {Absent}]
  /\ dead \in [Jobs -> Nat]
  /\ active \in SUBSET Jobs
  /\ now \in Nat

StoreInit ==
  /\ record = [j \in Jobs |-> NoRecord]
  /\ queue = [q \in Queues |-> <<>>]
  /\ scheduled = [j \in Jobs |-> Absent]
  /\ retry = [j \in Jobs |-> Absent]
  /\ dead = [j \in Jobs |-> 0]
  /\ active = {}
  /\ now = 0

-----------------------------------------------------------------------------
(* Where an ID is referenced.                                              *)

InQueue(j) == \E i \in DOMAIN queue[QueueOf[j]] : queue[QueueOf[j]][i] = j

Located(j) ==
  InQueue(j) \/ scheduled[j] # Absent \/ retry[j] # Absent \/ dead[j] > 0 \/ j \in active

-----------------------------------------------------------------------------
(* Scripts and commands.                                                   *)

Set(j, rec) == record' = [record EXCEPT ![j] = rec]

LPush(j) == queue' = [queue EXCEPT ![QueueOf[j]] = Append(@, j)]

\* LREM key 0 j: every occurrence is removed.
LRem(s, j) ==
  LET kept[n \in 0..Len(s)] ==
        IF n = 0 THEN <<>>
        ELSE IF s[n] = j THEN kept[n - 1] ELSE Append(kept[n - 1], s[n])
  IN  kept[Len(s)]

\* setBranchLpushZaddScript: a job already due goes to its queue, a later
\* one to the scheduled set.  Both times reach the script in whole seconds.
SetBranchLpushZadd(j, rec) ==
  /\ Set(j, rec)
  /\ \/ /\ Unix(rec.processAt) <= Unix(now)
        /\ LPush(j)
        /\ UNCHANGED scheduled
     \/ /\ Unix(rec.processAt) > Unix(now)
        /\ scheduled' = [scheduled EXCEPT ![j] = Unix(rec.processAt)]
        /\ UNCHANGED queue
  /\ UNCHANGED <<retry, dead, active>>

\* Mutant: the ID is popped and not recorded as in flight.
RpopOnly(q) ==
  /\ queue[q] # <<>>
  /\ queue' = [queue EXCEPT ![q] = Tail(@)]
  /\ UNCHANGED <<record, scheduled, retry, dead, active>>

\* rpopZaddScript on a non-empty list (on an empty one it changes nothing).
RpopZadd(q) ==
  /\ queue[q] # <<>>
  /\ queue' = [queue EXCEPT ![q] = Tail(@)]
  /\ active' = active \cup {Head(queue[q])}
  /\ UNCHANGED <<record, scheduled, retry, dead>>

\* Mutant: the in-flight entry stays behind.
SetZaddNoZrem(j, rec, at) ==
  /\ Set(j, rec)
  /\ retry' = [retry EXCEPT ![j] = Unix(at)]
  /\ UNCHANGED <<queue, scheduled, dead, active>>

\* setZaddZremScript: Requeue, due at instant `at`.
SetZaddZrem(j, rec, at) ==
  /\ Set(j, rec)
  /\ retry' = [retry EXCEPT ![j] = Unix(at)]
  /\ active' = active \ {j}
  /\ UNCHANGED <<queue, scheduled, dead>>

\* setLpushZremScript: MoveToDeadLetter.
SetLpushZrem(j, rec) ==
  /\ Set(j, rec)
  /\ dead' = [dead EXCEPT ![j] = @ + 1]
  /\ active' = active \ {j}
  /\ UNCHANGED <<queue, scheduled, retry>>

\* The sorted set a scheduler promotes from.
Score(src, j) ==
  IF src = "scheduled" THEN scheduled[j]
  ELSE IF QueueOf[j] = src THEN retry[j] ELSE Absent

ZremFrom(src, j) ==
  /\ scheduled' = IF src = "scheduled" THEN [scheduled EXCEPT ![j] = Absent] ELSE scheduled
  /\ retry' = IF src = "scheduled" THEN retry ELSE [retry EXCEPT ![j] = Absent]

\* Mutant: what ZREM returned is not looked at.
PromoteUnclaimed(src, j) ==
  /\ ZremFrom(src, j)
  /\ \/ record[j] = NoRecord /\ UNCHANGED queue
     \/ record[j] # NoRecord /\ LPush(j)
  /\ UNCHANGED <<record, dead, active>>

\* Mutant: claimed and never pushed.
PromoteNoPush(src, j) ==
  /\ Score(src, j) # Absent => ZremFrom(src, j)
  /\ Score(src, j) = Absent => UNCHANGED <<scheduled, retry>>
  /\ UNCHANGED <<record, queue, dead, active>>

\* promoteJobScript: ZREM is the claim; an ID whose record is gone is
\* dropped, any other is pushed onto the queue its record names.
PromoteJob(src, j) ==
  \/ /\ Score(src, j) = Absent
     /\ UNCHANGED store
  \/ /\ Score(src, j) # Absent
     /\ ZremFrom(src, j)
     /\ \/ record[j] = NoRecord /\ UNCHANGED queue
        \/ record[j] # NoRecord /\ LPush(j)
     /\ UNCHANGED <<record, dead, active>>

\* Mutant: the record is written before the claim is known to succeed.
RetryDeadSetFirst(j, rec) ==
  /\ Set(j, rec)
  /\ \/ dead[j] = 0 /\ UNCHANGED <<queue, dead>>
     \/ dead[j] > 0 /\ dead' = [dead EXCEPT ![j] = @ - 1] /\ LPush(j)
  /\ UNCHANGED <<scheduled, retry, active>>

\* retryDeadJobScript: LREM of one occurrence is the claim.
RetryDeadJob(j, rec) ==
  \/ dead[j] = 0 /\ UNCHANGED store
  \/ /\ dead[j] > 0
     /\ dead' = [dead EXCEPT ![j] = @ - 1]
     /\ Set(j, rec)
     /\ LPush(j)
     /\ UNCHANGED <<scheduled, retry, active>>

\* Mutant: the queue's key is deleted instead of the ID in it.
DeleteWholeQueue(i, j) ==
  /\ queue' = IF i = 1 THEN [queue EXCEPT ![QueueOf[j]] = <<>>] ELSE queue
  /\ retry' = IF i = 2 THEN [retry EXCEPT ![j] = Absent] ELSE retry
  /\ dead' = IF i = 3 THEN [dead EXCEPT ![j] = 0] ELSE dead
  /\ active' = IF i = 4 THEN active \ {j} ELSE active
  /\ scheduled' = IF i = 5 THEN [scheduled EXCEPT ![j] = Absent] ELSE scheduled
  /\ record' = IF i = 6 THEN [record EXCEPT ![j] = NoRecord] ELSE record

\* The i-th command of DeleteJob's pipeline.  A pipeline is not a
\* transaction: other clients' commands run between two of its own.
DeleteCommand(i, j) ==
  \/ /\ i = 1
     /\ queue' = [queue EXCEPT ![QueueOf[j]] = LRem(@, j)]
     /\ UNCHANGED <<record, scheduled, retry, dead, active>>
  \/ /\ i = 2
     /\ retry' = [retry EXCEPT ![j] = Absent]
     /\ UNCHANGED <<record, queue, scheduled, dead, active>>
  \/ /\ i = 3
     /\ dead' = [dead EXCEPT ![j] = 0]
     /\ UNCHANGED <<record, queue, scheduled, retry, active>>
  \/ /\ i = 4
     /\ active' = active \ {j}
     /\ UNCHANGED <<record, queue, scheduled, retry, dead>>
  \/ /\ i = 5
     /\ scheduled' = [scheduled EXCEPT ![j] = Absent]
     /\ UNCHANGED <<record, queue, retry, dead, active>>
  \/ /\ i = 6
     /\ Set(j, NoRecord)
     /\ UNCHANGED <<queue, scheduled, retry, dead, active>>

DeleteCommands == 6
=============================================================================
