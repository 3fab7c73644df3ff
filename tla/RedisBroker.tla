---------------------------- MODULE RedisBroker ----------------------------
(***************************************************************************)
(* The Redis broker under concurrent callers.  Every Broker method of      *)
(* redis.go that makes more than one round trip is split at its round      *)
(* trips, and the steps of all callers interleave:                         *)
(*                                                                         *)
(*   client     Enqueue                                                    *)
(*   consumer   Dequeue (script, then GET), the handler, and then          *)
(*              Acknowledge (ZREM, then DEL), Requeue or MoveToDeadLetter  *)
(*   scheduler  PromoteDueJobs (ZRANGEBYSCORE per source, then one script  *)
(*              per listed ID)                                             *)
(*   admin      RetryDeadJob (GET, then script), DeleteJob (GET, then a    *)
(*              pipeline of six commands)                                  *)
(*                                                                         *)
(* A consumer is the path of one job through a server: the dispatcher's    *)
(* Dequeue, the pool's channel and one worker's process().  Losing it      *)
(* (Drop) stands for everything that makes a server forget a job it took:  *)
(* a crash, a failed call, a context cancelled half-way.                   *)
(***************************************************************************)
EXTENDS RedisStore

CONSTANTS
  Consumers, Schedulers, Admins,
  NoJob,           \* a caller that has no job at hand
  MaxAttempts,     \* the MaxAttempts field of each job
  EnqueueDelays,   \* EnqueueOptions.In, in ticks
  RetryDelays,     \* what retry.NextDelay may return, in ticks
  MaxTime,         \* bound: the clock stops here
  MaxResends       \* bound: re-sent commands, over the whole behaviour

ASSUME BrokerAssumption ==
  /\ NoJob \notin Jobs
  /\ MaxAttempts \in [Jobs -> Nat \ {0}]
  /\ EnqueueDelays \subseteq Nat
  /\ RetryDelays \subseteq Nat
  /\ MaxTime \in Nat
  /\ MaxResends \in Nat

VARIABLES
  pc, holds, copy,              \* per consumer: step, job ID, in-memory Job
  listedAt, todo, source, ids,  \* per scheduler: clock read, sources left,
                                \* source at hand, its IDs still to promote
  call, target, reset, step,    \* per admin: method, ID, Job to write back,
                                \* next pipeline command
  born, dueAt, runs, succeeded, \* history, read by properties only, except
  deleteBegun, deleteDone,      \* born and resends (arguments and bound of
  resends                       \* a re-sent Enqueue)

consumerVars == <<pc, holds, copy>>
schedulerVars == <<listedAt, todo, source, ids>>
adminVars == <<call, target, reset, step>>
history == <<born, dueAt, runs, succeeded, deleteBegun, deleteDone, resends>>
vars == <<store, now, consumerVars, schedulerVars, adminVars, history>>

Sources == {"scheduled"} \cup Queues

TypeOK ==
  /\ StoreTypeOK
  /\ pc \in [Consumers -> {"idle", "popped", "held", "running", "acking", "resend"}]
  /\ holds \in [Consumers -> Jobs \cup {NoJob}]
  /\ copy \in [Consumers -> JobRecord \cup {NoRecord}]
  /\ listedAt \in [Schedulers -> Nat]
  /\ todo \in [Schedulers -> SUBSET Sources]
  /\ source \in [Schedulers -> Sources]
  /\ ids \in [Schedulers -> SUBSET Jobs]
  /\ call \in [Admins -> {"none", "retry", "delete"}]
  /\ target \in [Admins -> Jobs \cup {NoJob}]
  /\ reset \in [Admins -> JobRecord \cup {NoRecord}]
  /\ step \in [Admins -> 1..DeleteCommands]
  /\ born \in [Jobs -> Nat \cup {Absent}]
  /\ dueAt \in [Jobs -> Nat \cup {Absent}]
  /\ runs \in [Jobs -> Nat]
  /\ succeeded \in SUBSET Jobs
  /\ deleteBegun \in SUBSET Jobs
  /\ deleteDone \in SUBSET Jobs
  /\ resends \in Nat

Init ==
  /\ StoreInit
  /\ pc = [c \in Consumers |-> "idle"]
  /\ holds = [c \in Consumers |-> NoJob]
  /\ copy = [c \in Consumers |-> NoRecord]
  /\ listedAt = [s \in Schedulers |-> 0]
  /\ todo = [s \in Schedulers |-> {}]
  /\ source = [s \in Schedulers |-> "scheduled"]
  /\ ids = [s \in Schedulers |-> {}]
  /\ call = [a \in Admins |-> "none"]
  /\ target = [a \in Admins |-> NoJob]
  /\ reset = [a \in Admins |-> NoRecord]
  /\ step = [a \in Admins |-> 1]
  /\ born = [j \in Jobs |-> Absent]
  /\ dueAt = [j \in Jobs |-> Absent]
  /\ runs = [j \in Jobs |-> 0]
  /\ succeeded = {}
  /\ deleteBegun = {}
  /\ deleteDone = {}
  /\ resends = 0

-----------------------------------------------------------------------------
(* Client                                                                  *)

NewJob(processAt) == [status |-> "pending", attempts |-> 0, processAt |-> processAt]

\* Client.Enqueue: a fresh ID, due at once or after opts.In.
Enqueue(j, delay) ==
  /\ born[j] = Absent
  /\ SetBranchLpushZadd(j, NewJob(now + delay))
  /\ born' = [born EXCEPT ![j] = now + delay]
  /\ dueAt' = [dueAt EXCEPT ![j] = now + delay]
  /\ UNCHANGED <<now, consumerVars, schedulerVars, adminVars,
                 runs, succeeded, deleteBegun, deleteDone, resends>>

-----------------------------------------------------------------------------
(* Consumer                                                                *)

Goto(c, p) == pc' = [pc EXCEPT ![c] = p]

Leave(c) ==
  /\ Goto(c, "idle")
  /\ holds' = [holds EXCEPT ![c] = NoJob]
  /\ copy' = [copy EXCEPT ![c] = NoRecord]

\* Dequeue, first round trip: pop an ID and record it as in flight.
DequeuePop(c, q) ==
  /\ pc[c] = "idle"
  /\ RpopZadd(q)
  /\ Goto(c, "popped")
  /\ holds' = [holds EXCEPT ![c] = Head(queue[q])]
  /\ UNCHANGED <<now, copy, schedulerVars, adminVars, history>>

\* Mutant: the in-memory Job is marked active, a status Redis never stores.
DequeueGetMarksActive(c) ==
  /\ pc[c] = "popped"
  /\ record[holds[c]] # NoRecord
  /\ copy' = [copy EXCEPT ![c] = [record[holds[c]] EXCEPT !.status = "active"]]
  /\ Goto(c, "held")
  /\ UNCHANGED <<store, now, holds, schedulerVars, adminVars, history>>

\* Dequeue, second round trip: read the record.  When it is missing,
\* Dequeue returns an error and the caller is left with Drop.
DequeueGet(c) ==
  /\ pc[c] = "popped"
  /\ record[holds[c]] # NoRecord
  /\ copy' = [copy EXCEPT ![c] = record[holds[c]]]
  /\ Goto(c, "held")
  /\ UNCHANGED <<store, now, holds, schedulerVars, adminVars, history>>

\* process(): the registry knows the type, the handler chain starts.
StartHandler(c) ==
  /\ pc[c] = "held"
  /\ Goto(c, "running")
  /\ runs' = [runs EXCEPT ![holds[c]] = @ + 1]
  /\ UNCHANGED <<store, now, holds, copy, schedulerVars, adminVars,
                 born, dueAt, succeeded, deleteBegun, deleteDone, resends>>

\* process(): no handler is registered, so no attempt is counted.
NoHandler(c) ==
  /\ pc[c] = "held"
  /\ SetLpushZrem(holds[c], [copy[c] EXCEPT !.status = "dead"])
  /\ Leave(c)
  /\ UNCHANGED <<now, schedulerVars, adminVars, history>>

\* Mutant: Acknowledge deletes the record first.
AcknowledgeDelFirst(c) ==
  /\ pc[c] = "running"
  /\ Set(holds[c], NoRecord)
  /\ Goto(c, "acking")
  /\ succeeded' = succeeded \cup {holds[c]}
  /\ UNCHANGED <<queue, scheduled, retry, dead, active, now, holds, copy, schedulerVars,
                 adminVars, born, dueAt, runs, deleteBegun, deleteDone, resends>>

\* The handler returned nil; Acknowledge, first round trip.
AcknowledgeZrem(c) ==
  /\ pc[c] = "running"
  /\ active' = active \ {holds[c]}
  /\ Goto(c, "acking")
  /\ succeeded' = succeeded \cup {holds[c]}
  /\ UNCHANGED <<record, queue, scheduled, retry, dead, now, holds, copy, schedulerVars,
                 adminVars, born, dueAt, runs, deleteBegun, deleteDone, resends>>

\* Acknowledge, second round trip.
AcknowledgeDel(c) ==
  /\ pc[c] = "acking"
  /\ Set(holds[c], NoRecord)
  /\ Leave(c)
  /\ UNCHANGED <<queue, scheduled, retry, dead, active, now,
                 schedulerVars, adminVars, history>>

\* Mutant: the failed attempt itself is not counted.
ExhaustedOffByOne(c) == copy[c].attempts >= MaxAttempts[holds[c]]

\* The handler returned an error or panicked: Pool.fail counts the attempt
\* and, while the job has attempts left, requeues it.
Failed(c, status) == [copy[c] EXCEPT !.attempts = @ + 1, !.status = status]
Exhausted(c) == copy[c].attempts + 1 >= MaxAttempts[holds[c]]

FailRequeue(c, delay) ==
  /\ pc[c] = "running"
  /\ ~Exhausted(c)
  /\ SetZaddZrem(holds[c], Failed(c, "retry"), now + delay)
  /\ dueAt' = [dueAt EXCEPT ![holds[c]] = now + delay]
  /\ Leave(c)
  /\ UNCHANGED <<now, schedulerVars, adminVars,
                 born, runs, succeeded, deleteBegun, deleteDone, resends>>

FailDead(c) ==
  /\ pc[c] = "running"
  /\ Exhausted(c)
  /\ SetLpushZrem(holds[c], Failed(c, "dead"))
  /\ Leave(c)
  /\ UNCHANGED <<now, schedulerVars, adminVars, history>>

\* The server forgets the job it has in hand: a crash, a cancelled context
\* (between Dequeue's round trips, in Submit, in the pool's channel), or an
\* error from a broker call, which the pool and the dispatcher only log.
Drop(c) ==
  /\ pc[c] # "idle"
  /\ Leave(c)
  /\ UNCHANGED <<store, now, schedulerVars, adminVars, history>>

-----------------------------------------------------------------------------
(* Scheduler                                                               *)

\* PromoteDueJobs reads the clock once and walks its sources.
PromoteStart(s) ==
  /\ todo[s] = {} /\ ids[s] = {}
  /\ listedAt' = [listedAt EXCEPT ![s] = now]
  /\ todo' = [todo EXCEPT ![s] = Sources]
  /\ UNCHANGED <<store, now, consumerVars, source, ids, adminVars, history>>

\* Mutant: the clock is rounded up to the next second.
PromoteListRoundsUp(s, src) ==
  /\ ids[s] = {}
  /\ src \in todo[s]
  /\ src # "scheduled" => "scheduled" \notin todo[s]
  /\ ids' = [ids EXCEPT ![s] =
       {j \in Jobs : Score(src, j) # Absent /\ Score(src, j) <= Unix(listedAt[s]) + 1}]
  /\ source' = [source EXCEPT ![s] = src]
  /\ todo' = [todo EXCEPT ![s] = @ \ {src}]
  /\ UNCHANGED <<store, now, consumerVars, listedAt, adminVars, history>>

\* ZRANGEBYSCORE src -inf now: the scheduled set first, then the retry sets.
PromoteList(s, src) ==
  /\ ids[s] = {}
  /\ src \in todo[s]
  /\ src # "scheduled" => "scheduled" \notin todo[s]
  /\ ids' = [ids EXCEPT ![s] =
       {j \in Jobs : Score(src, j) # Absent /\ Score(src, j) <= Unix(listedAt[s])}]
  /\ source' = [source EXCEPT ![s] = src]
  /\ todo' = [todo EXCEPT ![s] = @ \ {src}]
  /\ UNCHANGED <<store, now, consumerVars, listedAt, adminVars, history>>

PromoteOne(s, j) ==
  /\ j \in ids[s]
  /\ PromoteJob(source[s], j)
  /\ ids' = [ids EXCEPT ![s] = @ \ {j}]
  /\ UNCHANGED <<now, consumerVars, listedAt, todo, source, adminVars, history>>

\* A failed round trip ends the call; the next tick starts afresh.
PromoteAbort(s) ==
  /\ todo[s] # {} \/ ids[s] # {}
  /\ todo' = [todo EXCEPT ![s] = {}]
  /\ ids' = [ids EXCEPT ![s] = {}]
  /\ UNCHANGED <<store, now, consumerVars, listedAt, source, adminVars, history>>

-----------------------------------------------------------------------------
(* Admin (the dashboard's POST .../retry and DELETE handlers)              *)

EndCall(a) ==
  /\ call' = [call EXCEPT ![a] = "none"]
  /\ target' = [target EXCEPT ![a] = NoJob]
  /\ reset' = [reset EXCEPT ![a] = NoRecord]
  /\ step' = [step EXCEPT ![a] = 1]

\* Mutant: the status is left as it was read.
RetryDeadKeepsStatus(a, j) ==
  /\ call[a] = "none"
  /\ record[j] # NoRecord
  /\ call' = [call EXCEPT ![a] = "retry"]
  /\ target' = [target EXCEPT ![a] = j]
  /\ reset' = [reset EXCEPT ![a] = [record[j] EXCEPT !.attempts = 0, !.processAt = now]]
  /\ UNCHANGED <<store, now, consumerVars, schedulerVars, step, history>>

\* RetryDeadJob: GetJob, then build the Job to write back from what it read.
RetryDeadRead(a, j) ==
  /\ call[a] = "none"
  /\ record[j] # NoRecord
  /\ call' = [call EXCEPT ![a] = "retry"]
  /\ target' = [target EXCEPT ![a] = j]
  /\ reset' = [reset EXCEPT ![a] =
       [record[j] EXCEPT !.status = "pending", !.attempts = 0, !.processAt = now]]
  /\ UNCHANGED <<store, now, consumerVars, schedulerVars, step, history>>

RetryDeadScript(a) ==
  /\ call[a] = "retry"
  /\ RetryDeadJob(target[a], reset[a])
  /\ IF dead[target[a]] > 0
     THEN /\ dueAt' = [dueAt EXCEPT ![target[a]] = now]
          /\ runs' = [runs EXCEPT ![target[a]] = 0]
     ELSE UNCHANGED <<dueAt, runs>>
  /\ EndCall(a)
  /\ UNCHANGED <<now, consumerVars, schedulerVars,
                 born, succeeded, deleteBegun, deleteDone, resends>>

\* DeleteJob: GetJob tells the queue; a missing record ends the call.
DeleteRead(a, j) ==
  /\ call[a] = "none"
  /\ record[j] # NoRecord
  /\ call' = [call EXCEPT ![a] = "delete"]
  /\ target' = [target EXCEPT ![a] = j]
  /\ deleteBegun' = deleteBegun \cup {j}
  /\ UNCHANGED <<store, now, consumerVars, schedulerVars, reset, step,
                 born, dueAt, runs, succeeded, deleteDone, resends>>

DeleteStep(a) ==
  /\ call[a] = "delete"
  /\ DeleteCommand(step[a], target[a])
  /\ \/ /\ step[a] < DeleteCommands
        /\ step' = [step EXCEPT ![a] = @ + 1]
        /\ UNCHANGED <<call, target, reset, deleteDone>>
     \/ /\ step[a] = DeleteCommands
        /\ EndCall(a)
        /\ deleteDone' = deleteDone \cup {target[a]}
  /\ UNCHANGED <<now, consumerVars, schedulerVars,
                 born, dueAt, runs, succeeded, deleteBegun, resends>>

\* The connection breaks: a prefix of the pipeline has run, or, for
\* RetryDeadJob, only the GET.
AdminAbort(a) ==
  /\ call[a] # "none"
  /\ EndCall(a)
  /\ UNCHANGED <<store, now, consumerVars, schedulerVars, history>>

-----------------------------------------------------------------------------
(* A reply is lost and the same command is sent again: go-redis does so on *)
(* its own after a network error or a read timeout, and a caller of        *)
(* Broker.Enqueue may, with the same Job.  (Client.Enqueue called again    *)
(* draws a new ID: another job to the broker.)  Requeue is left out: its   *)
(* delay (at least 16 s) outlasts the 5 s that a re-send may take, so a    *)
(* second run of its script finds what the first one left.                 *)

EnqueueResend(j) ==
  /\ born[j] # Absent
  /\ resends < MaxResends
  /\ SetBranchLpushZadd(j, NewJob(born[j]))
  /\ resends' = resends + 1
  /\ UNCHANGED <<now, consumerVars, schedulerVars, adminVars,
                 born, dueAt, runs, succeeded, deleteBegun, deleteDone>>

\* MoveToDeadLetter is applied, and go-redis still waits for its reply.
Unanswered(c, rec) ==
  /\ resends < MaxResends
  /\ SetLpushZrem(holds[c], rec)
  /\ copy' = [copy EXCEPT ![c] = rec]
  /\ Goto(c, "resend")
  /\ resends' = resends + 1
  /\ UNCHANGED <<now, holds, schedulerVars, adminVars,
                 born, dueAt, runs, succeeded, deleteBegun, deleteDone>>

\* ... called by process() without a handler, or by Pool.fail.
DeadLetterUnanswered(c) ==
  \/ pc[c] = "held" /\ Unanswered(c, [copy[c] EXCEPT !.status = "dead"])
  \/ pc[c] = "running" /\ Exhausted(c) /\ Unanswered(c, Failed(c, "dead"))

DeadLetterResend(c) ==
  /\ pc[c] = "resend"
  /\ SetLpushZrem(holds[c], copy[c])
  /\ Leave(c)
  /\ UNCHANGED <<now, schedulerVars, adminVars, history>>

-----------------------------------------------------------------------------
Tick ==
  /\ now < MaxTime
  /\ now' = now + 1
  /\ UNCHANGED <<store, consumerVars, schedulerVars, adminVars, history>>

ConsumerNext(c) ==
  \/ \E q \in Queues : DequeuePop(c, q)
  \/ DequeueGet(c)
  \/ StartHandler(c)
  \/ NoHandler(c)
  \/ AcknowledgeZrem(c)
  \/ AcknowledgeDel(c)
  \/ \E delay \in RetryDelays : FailRequeue(c, delay)
  \/ FailDead(c)
  \/ Drop(c)

SchedulerNext(s) ==
  \/ PromoteStart(s)
  \/ \E src \in Sources : PromoteList(s, src)
  \/ \E j \in Jobs : PromoteOne(s, j)
  \/ PromoteAbort(s)

AdminNext(a) ==
  \/ \E j \in Jobs : RetryDeadRead(a, j)
  \/ RetryDeadScript(a)
  \/ AdminAbort(a)

\* Reliable commands and no DeleteJob: what the broker does on its own.
Next ==
  \/ \E j \in Jobs, delay \in EnqueueDelays : Enqueue(j, delay)
  \/ \E c \in Consumers : ConsumerNext(c)
  \/ \E s \in Schedulers : SchedulerNext(s)
  \/ \E a \in Admins : AdminNext(a)
  \/ Tick

\* ... with jobs deleted from the dashboard while they move.
DeleteNext ==
  \/ Next
  \/ \E a \in Admins : (\E j \in Jobs : DeleteRead(a, j)) \/ DeleteStep(a)

\* ... with commands that are sent again after a lost reply.
ResendNext ==
  \/ Next
  \/ \E j \in Jobs : EnqueueResend(j)
  \/ \E c \in Consumers : DeadLetterUnanswered(c) \/ DeadLetterResend(c)

Spec == Init /\ [][Next]_vars
DeleteSpec == Init /\ [][DeleteNext]_vars
ResendSpec == Init /\ [][ResendNext]_vars

-----------------------------------------------------------------------------
(* Properties                                                              *)

\* Consumers that took j off its queue and have not yet handed it back.
Owns(c, j) == pc[c] \in {"popped", "held", "running"} /\ holds[c] = j

InPlace(p, j) ==
  \/ p = "queue" /\ InQueue(j)
  \/ p = "scheduled" /\ scheduled[j] # Absent
  \/ p = "retry" /\ retry[j] # Absent
  \/ p = "dead" /\ dead[j] > 0
  \/ p = "active" /\ j \in active

Places == {"queue", "scheduled", "retry", "dead", "active"}

\* At-least-once delivery: a job that was enqueued, whose handler has not
\* succeeded and that nobody asked to delete keeps its record and is
\* referenced from some queue, set or list, whatever calls fail and whichever
\* server crashes (the pop-and-ZADD, claim-and-push and SET-and-ZREM scripts).
NoJobLost ==
  \A j \in Jobs : born[j] # Absent /\ j \notin succeeded /\ j \notin deleteBegun
    => record[j] # NoRecord /\ Located(j)

\* An ID is referenced from at most one structure, and once: promotion, the
\* dead-letter retry and the outcome scripts move it and never copy it.
SinglePlace ==
  \A j \in Jobs :
    /\ \A p1, p2 \in Places : InPlace(p1, j) /\ InPlace(p2, j) => p1 = p2
    /\ \A q \in Queues : \A i, k \in DOMAIN queue[q] :
         queue[q][i] = j /\ queue[q][k] = j => i = k
    /\ dead[j] <= 1

\* No two servers hold the same job between its Dequeue and its outcome, also
\* when several schedulers promote it or several admins retry it at once.
OneOwner ==
  \A c1, c2 \in Consumers, j \in Jobs : Owns(c1, j) /\ Owns(c2, j) => c1 = c2

\* Every referenced ID has a record, so that no Dequeue, promotion or listing
\* meets an ID it can only fail on (Acknowledge drops the reference first and
\* the record second).
NoDanglingID ==
  \A j \in Jobs \ deleteBegun : Located(j) => record[j] # NoRecord

\* A job whose success was acknowledged is never referenced, hence never run,
\* again: a scheduler that listed it or an admin that read it before it was
\* taken finds nothing to claim, also when Acknowledge fails half-way and its
\* record stays behind.
AcknowledgedStaysGone == \A j \in succeeded : ~Located(j)

\* The handler of a job runs at most MaxAttempts times from its Enqueue, or
\* from the last time it was retried from the dead-letter list (Pool.fail).
RunsWithinBudget == \A j \in Jobs : runs[j] <= MaxAttempts[j]

\* A record says "dead" exactly while its ID is in the dead-letter list: the
\* dashboard offers Retry by status and RetryDeadJob claims by list.
DeadStatusIsDeadLetter ==
  \A j \in Jobs \ deleteBegun :
    dead[j] > 0 <=> (record[j] # NoRecord /\ record[j].status = "dead")

\* A job that is ready to be dequeued is due, up to the fraction of a second
\* that Unix() cuts off its due time.
NeverASecondEarly ==
  \A j \in Jobs : InQueue(j) => now + TicksPerSecond > dueAt[j]

AttemptsKept ==
  \A j \in Jobs :
    record[j] # NoRecord /\ record'[j] # NoRecord /\ dead'[j] >= dead[j]
      => record'[j].attempts >= record[j].attempts

\* The attempts that a stored job has used up never decrease, unless the step
\* retries it from the dead-letter list: no caller writes back an old copy.
AttemptsNeverGoBack == [][AttemptsKept]_vars

\* Once DeleteJob has run to its end the job is gone for good: no record and
\* no reference, whatever a consumer that still runs it does later.
DeletedIsGone ==
  \A j \in deleteDone : record[j] = NoRecord /\ ~Located(j)

-----------------------------------------------------------------------------
(* The refinement mapping: a job's phase is where its ID is referenced.    *)

PhaseOf(j) ==
  CASE InQueue(j) -> "ready"
    [] j \in active -> "active"
    [] dead[j] > 0 -> "dead"
    [] scheduled[j] # Absent \/ retry[j] # Absent -> "later"
    [] ~Located(j) /\ j \in succeeded -> "done"
    [] OTHER -> "unborn"

UsedOf(j) == IF j \in succeeded \/ record[j] = NoRecord THEN 0 ELSE record[j].attempts

Contract == INSTANCE Broker WITH phase <- [j \in Jobs |-> PhaseOf(j)],
                                 used <- [j \in Jobs |-> UsedOf(j)]

\* The scripts and round trips of redis.go implement the Broker contract:
\* seen through the mapping, every step of every caller is one legal move of
\* one job or changes nothing, also between Acknowledge's ZREM and DEL, with
\* stale promotion lists and with dead-letter retries that come too late.
ImplementsBroker == Contract!BrokerSpec
=============================================================================
