--------------------------- MODULE PostgresBroker ---------------------------
(***************************************************************************)
(* The Postgres broker (internal/broker/postgres.go) under concurrent      *)
(* callers.  A job is one row; every method is one statement and every     *)
(* statement one transaction at READ COMMITTED, hence one step, except for *)
(* the claim of Dequeue, which other transactions can see under way:       *)
(*                                                                         *)
(*   scan     the inner SELECT has a snapshot: the due rows in the order   *)
(*            of process_at, and NOW()                                     *)
(*   locked   FOR UPDATE SKIP LOCKED has locked the first of them that     *)
(*            nobody else has locked and whose latest version still meets  *)
(*            the WHERE clause                                             *)
(*   held     the outer UPDATE is committed, RETURNING has answered and    *)
(*            the job is in the hands of a worker                          *)
(*                                                                         *)
(* Statements that write a locked row wait for the lock.  Of the columns,  *)
(* those that no statement changes are constants; priority is left out     *)
(* (sidekiq.NewJob gives every job the same), as are type, payload and     *)
(* last_error.  All clocks are one.  UniqueKey is set by callers of the    *)
(* Broker interface (pkg/client leaves it empty).                          *)
(***************************************************************************)
EXTENDS Integers, SequencesExt

CONSTANTS
  Jobs,            \* job IDs, the primary key
  Queues, QueueOf, \* queue names; the queue column
  Keys, KeysOf,    \* unique keys; what a caller may give as UniqueKey
  MaxAttempts,     \* the max_attempts column
  Consumers,
  NoRow, NoJob,
  NoKey,           \* unique_key IS NULL
  EnqueueDelay,    \* EnqueueOptions.In of each job, in ticks
  RetryDelays,     \* what retry.NextDelay may return, in ticks
  MaxUpsets        \* bound: Enqueue calls repeated for the same Job, dead jobs
                   \* retried, jobs deleted and consumers lost, together

Statuses == {"pending", "active", "retry", "dead", "completed"}
Row == [status : Statuses, attempts : Nat, processAt : Nat]
Absent == -1

ASSUME PostgresAssumption ==
  /\ QueueOf \in [Jobs -> Queues]
  /\ KeysOf \in [Jobs -> SUBSET (Keys \cup {NoKey})] /\ NoKey \notin Keys
  /\ MaxAttempts \in [Jobs -> Nat \ {0}]
  /\ NoRow \notin Row /\ NoJob \notin Jobs
  /\ EnqueueDelay \in [Jobs -> Nat]
  /\ RetryDelays \subseteq Nat \ {0}
  /\ MaxUpsets \in Nat

VARIABLES
  row, uniqueKey, now,   \* the table, its unique_key column; the clock
  pc, found, stmtNow,    \* per consumer: step, rows its SELECT has yet to try,
  holds, copy,           \* its NOW(), the row it locked or claimed, and the
                         \* Attempts field of its Job
  born, runs,            \* history: each Job's first process_at, its claims since
  succeeded, deleted,    \* Enqueue or RetryDeadJob, the jobs acknowledged,
  orphaned,              \* deleted, lost by their consumer and not deleted since
  upsets                 \* what MaxUpsets bounds

claimVars == <<pc, found, stmtNow, holds, copy>>
history == <<born, runs, succeeded, deleted, orphaned, upsets>>
vars == <<row, uniqueKey, now, claimVars, history>>

TypeOK ==
  /\ row \in [Jobs -> Row \cup {NoRow}]
  /\ now \in Nat
  /\ pc \in [Consumers -> {"idle", "scan", "locked", "held"}]
  /\ found \in [Consumers -> Seq(Jobs)]
  /\ stmtNow \in [Consumers -> Nat]
  /\ holds \in [Consumers -> Jobs \cup {NoJob}]
  /\ copy \in [Consumers -> Nat]
  /\ born \in [Jobs -> Nat \cup {Absent}]
  /\ runs \in [Jobs -> Nat]
  /\ {succeeded, deleted, orphaned} \subseteq SUBSET Jobs
  /\ upsets \in 0..MaxUpsets
  /\ uniqueKey \in [Jobs -> Keys \cup {NoKey}]

Init ==
  /\ row = [j \in Jobs |-> NoRow]
  /\ uniqueKey \in {key \in [Jobs -> Keys \cup {NoKey}] : \A j \in Jobs : key[j] \in KeysOf[j]}
  /\ now = 0
  /\ pc = [c \in Consumers |-> "idle"]
  /\ found = [c \in Consumers |-> <<>>]
  /\ stmtNow = [c \in Consumers |-> 0]
  /\ holds = [c \in Consumers |-> NoJob]
  /\ copy = [c \in Consumers |-> 0]
  /\ born = [j \in Jobs |-> Absent]
  /\ runs = [j \in Jobs |-> 0]
  /\ succeeded = {} /\ deleted = {} /\ orphaned = {}
  /\ upsets = 0

-----------------------------------------------------------------------------
(* The table                                                               *)

Present(j) == row[j] # NoRow
Locked(j) == \E c \in Consumers : pc[c] = "locked" /\ holds[c] = j

\* Mutant: the index forgets rows that wait for a retry.
IndexedNotRetry(status) == status \notin {"completed", "dead", "retry"}

\* The predicate of idx_jobs_unique_key.
Indexed(status) == status \notin {"completed", "dead"}

\* The row of job j may have this status: no other row is in the index with
\* its key.  A statement that breaks this fails with 23505.
Admits(j, status) ==
  Indexed(status) /\ uniqueKey[j] # NoKey =>
    \A k \in Jobs \ {j} : uniqueKey[k] = uniqueKey[j] /\ Present(k) => ~Indexed(row[k].status)

\* UPDATE jobs SET ... WHERE id = j: waits for the row lock, and changes
\* nothing when there is no such row or the index refuses the new version.
Update(j, rec) ==
  /\ ~Locked(j)
  /\ row' = IF Present(j) /\ Admits(j, rec.status) THEN [row EXCEPT ![j] = rec] ELSE row

-----------------------------------------------------------------------------
(* Client                                                                  *)

\* Mutant: a delayed job gets a status of its own, as it has a set of its own
\* in Redis.
InsertScheduled(j, processAt) ==
  \/ /\ ~Present(j) /\ Admits(j, "pending")
     /\ row' = [row EXCEPT ![j] = [status |-> IF processAt > now THEN "scheduled" ELSE "pending",
                                   attempts |-> 0, processAt |-> processAt]]
  \/ /\ Present(j) \/ ~Admits(j, "pending")
     /\ UNCHANGED row

\* INSERT; a conflict on the primary key or on the unique key (23505) is a
\* silent success.
Insert(j, processAt) ==
  \/ /\ ~Present(j) /\ Admits(j, "pending")
     /\ row' = [row EXCEPT ![j] = [status |-> "pending", attempts |-> 0, processAt |-> processAt]]
  \/ /\ Present(j) \/ ~Admits(j, "pending")
     /\ UNCHANGED row

Enqueue(j) ==
  /\ born[j] = Absent
  /\ Insert(j, now + EnqueueDelay[j])
  /\ born' = [born EXCEPT ![j] = now + EnqueueDelay[j]]
  /\ UNCHANGED <<uniqueKey, now, claimVars, runs, succeeded, deleted, orphaned, upsets>>

\* Broker.Enqueue called again with the same Job, by a caller that saw an error
\* although the statement may have been run.
EnqueueAgain(j) ==
  /\ born[j] # Absent
  /\ upsets < MaxUpsets
  /\ Insert(j, born[j])
  /\ upsets' = upsets + 1
  /\ UNCHANGED <<uniqueKey, now, claimVars, born, runs, succeeded, deleted, orphaned>>

-----------------------------------------------------------------------------
(* Consumer                                                                *)

Leave(c) ==
  /\ pc' = [pc EXCEPT ![c] = "idle"]
  /\ found' = [found EXCEPT ![c] = <<>>]
  /\ stmtNow' = [stmtNow EXCEPT ![c] = 0]
  /\ holds' = [holds EXCEPT ![c] = NoJob]
  /\ copy' = [copy EXCEPT ![c] = 0]

\* Mutant: only pending rows are looked for.
DueNotRetry(j, q, at) ==
  /\ Present(j) /\ QueueOf[j] = q
  /\ row[j].status = "pending"
  /\ row[j].processAt <= at

\* The WHERE clause of Dequeue.
Due(j, q, at) ==
  /\ Present(j) /\ QueueOf[j] = q
  /\ row[j].status \in {"pending", "retry"}
  /\ row[j].processAt <= at

\* ORDER BY process_at; rows due at the same time come in any order.
InDueOrder(s) ==
  \A i, k \in DOMAIN s : i < k => row[s[i]].processAt <= row[s[k]].processAt

\* The claim's statement starts; a poll that sees no due row changes nothing.
ClaimScan(c, q) ==
  /\ pc[c] = "idle"
  /\ \E s \in SetToSeqs({j \in Jobs : Due(j, q, now)}) :
       /\ s # <<>> /\ InDueOrder(s)
       /\ found' = [found EXCEPT ![c] = s]
  /\ stmtNow' = [stmtNow EXCEPT ![c] = now]
  /\ pc' = [pc EXCEPT ![c] = "scan"]
  /\ UNCHANGED <<row, uniqueKey, now, holds, copy, history>>

\* Mutant: the lock is taken on what the snapshot said.
StillDueStale(c, j) == Present(j)

\* Mutant: only the status is looked at again.
StillDueStatusOnly(c, j) == Present(j) /\ row[j].status \in {"pending", "retry"}

\* The WHERE clause on the latest version of the row, with the NOW() of the
\* statement.
StillDue(c, j) == Due(j, QueueOf[j], stmtNow[c])

\* FOR UPDATE SKIP LOCKED LIMIT 1: lock the next row or pass it over.
ClaimLock(c) ==
  /\ pc[c] = "scan" /\ found[c] # <<>>
  /\ LET j == Head(found[c])
     IN  \/ /\ ~Locked(j) /\ StillDue(c, j)
            /\ pc' = [pc EXCEPT ![c] = "locked"]
            /\ holds' = [holds EXCEPT ![c] = j]
            /\ found' = [found EXCEPT ![c] = <<>>]
            /\ stmtNow' = [stmtNow EXCEPT ![c] = 0]
         \/ /\ Locked(j) \/ ~StillDue(c, j)
            /\ found' = [found EXCEPT ![c] = Tail(@)]
            /\ UNCHANGED <<pc, holds, stmtNow>>
  /\ UNCHANGED <<row, uniqueKey, now, copy, history>>

\* The Job a consumer gets from a row: of the fields that statements change,
\* only Attempts is read again.
scanJob(rec) == rec.attempts

\* No row was left to lock: pgx.ErrNoRows, Dequeue returns nil.
ClaimNothing(c) ==
  /\ pc[c] = "scan" /\ found[c] = <<>>
  /\ Leave(c)
  /\ UNCHANGED <<row, uniqueKey, now, history>>

\* Mutant: the claim leaves the status alone.
ClaimNoStatus(c) ==
  /\ pc[c] = "locked"
  /\ copy' = [copy EXCEPT ![c] = scanJob(row[holds[c]])]
  /\ pc' = [pc EXCEPT ![c] = "held"]
  /\ runs' = [runs EXCEPT ![holds[c]] = @ + 1]
  /\ UNCHANGED <<row, uniqueKey, now, found, stmtNow, holds,
                 born, succeeded, deleted, orphaned, upsets>>

\* The outer UPDATE on the row it has locked, RETURNING, commit.  The row is in
\* the unique index already, so that this cannot fail with 23505.
ClaimUpdate(c) ==
  /\ pc[c] = "locked"
  /\ row' = [row EXCEPT ![holds[c]].status = "active"]
  /\ copy' = [copy EXCEPT ![c] = scanJob(row[holds[c]])]
  /\ pc' = [pc EXCEPT ![c] = "held"]
  /\ runs' = [runs EXCEPT ![holds[c]] = @ + 1]
  /\ UNCHANGED <<uniqueKey, now, found, stmtNow, holds,
                 born, succeeded, deleted, orphaned, upsets>>

\* Mutant: process() returns when no handler is registered.
NoHandlerReturns(c) ==
  /\ pc[c] = "held"
  /\ Leave(c)
  /\ UNCHANGED <<row, uniqueKey, now, history>>

\* process(): no handler is registered, MoveToDeadLetter without a count.
NoHandler(c) ==
  /\ pc[c] = "held"
  /\ Update(holds[c], [row[holds[c]] EXCEPT !.status = "dead", !.attempts = copy[c]])
  /\ Leave(c)
  /\ UNCHANGED <<uniqueKey, now, history>>

Acknowledge(c) ==
  /\ pc[c] = "held"
  /\ Update(holds[c], [row[holds[c]] EXCEPT !.status = "completed"])
  /\ succeeded' = succeeded \cup {holds[c]}
  /\ Leave(c)
  /\ UNCHANGED <<uniqueKey, now, born, runs, deleted, orphaned, upsets>>

\* Mutant: the failed attempt itself is not counted.
ExhaustedOffByOne(c) == copy[c] >= MaxAttempts[holds[c]]

\* Pool.fail
Exhausted(c) == copy[c] + 1 >= MaxAttempts[holds[c]]

\* Mutant: Requeue writes the row whether it is still there or not.
RequeueUpsert(c, delay) ==
  /\ pc[c] = "held"
  /\ ~Exhausted(c)
  /\ ~Locked(holds[c])
  /\ row' = [row EXCEPT ![holds[c]] =
              [status |-> "retry", attempts |-> copy[c] + 1, processAt |-> now + delay]]
  /\ Leave(c)
  /\ UNCHANGED <<uniqueKey, now, born, runs, succeeded, deleted, orphaned, upsets>>

Requeue(c, delay) ==
  /\ pc[c] = "held"
  /\ ~Exhausted(c)
  /\ Update(holds[c], [status |-> "retry", attempts |-> copy[c] + 1, processAt |-> now + delay])
  /\ Leave(c)
  /\ UNCHANGED <<uniqueKey, now, born, runs, succeeded, deleted, orphaned, upsets>>

MoveToDeadLetter(c) ==
  /\ pc[c] = "held"
  /\ Exhausted(c)
  /\ Update(holds[c], [row[holds[c]] EXCEPT !.status = "dead", !.attempts = copy[c] + 1])
  /\ Leave(c)
  /\ UNCHANGED <<uniqueKey, now, history>>

\* A crash, a cancelled context or an error: a transaction under way is
\* rolled back and its lock released, a job in hand is forgotten.
Drop(c) ==
  /\ pc[c] # "idle"
  /\ upsets < MaxUpsets
  /\ upsets' = upsets + 1
  /\ orphaned' = IF pc[c] = "held" THEN orphaned \cup {holds[c]} ELSE orphaned
  /\ Leave(c)
  /\ UNCHANGED <<row, uniqueKey, now, born, runs, succeeded, deleted>>

-----------------------------------------------------------------------------
(* Dashboard                                                               *)

\* Mutant: any row is reset, not just a dead one.
RetryAnyJob(j) ==
  /\ upsets < MaxUpsets
  /\ Present(j) /\ Admits(j, "pending")
  /\ Update(j, [status |-> "pending", attempts |-> 0, processAt |-> now])
  /\ runs' = [runs EXCEPT ![j] = 0]
  /\ upsets' = upsets + 1
  /\ UNCHANGED <<uniqueKey, now, claimVars, born, succeeded, deleted, orphaned>>

\* ... WHERE id = j AND status = 'dead'.  No row, another status and a
\* conflict on the unique key are errors to the caller and change nothing.
RetryDeadJob(j) ==
  /\ upsets < MaxUpsets
  /\ Present(j) /\ row[j].status = "dead" /\ Admits(j, "pending")
  /\ Update(j, [status |-> "pending", attempts |-> 0, processAt |-> now])
  /\ runs' = [runs EXCEPT ![j] = 0]
  /\ upsets' = upsets + 1
  /\ UNCHANGED <<uniqueKey, now, claimVars, born, succeeded, deleted, orphaned>>

\* A claim that has the row in its snapshot finds it gone, also when a new
\* row gets the same ID.
DeleteJob(j) ==
  /\ upsets < MaxUpsets
  /\ Present(j) /\ ~Locked(j)
  /\ row' = [row EXCEPT ![j] = NoRow]
  /\ found' = [c \in Consumers |-> RemoveFirst(found[c], j)]
  /\ deleted' = deleted \cup {j}
  /\ orphaned' = orphaned \ {j}
  /\ upsets' = upsets + 1
  /\ UNCHANGED <<uniqueKey, now, pc, stmtNow, holds, copy, born, runs, succeeded>>

-----------------------------------------------------------------------------
(* The clock moves only while a row waits for it: at other times no        *)
(* statement can tell the difference.                                      *)
Tick ==
  /\ \E j \in Jobs : Present(j) /\ row[j].status \in {"pending", "retry"} /\ row[j].processAt > now
  /\ now' = now + 1
  /\ UNCHANGED <<row, uniqueKey, claimVars, history>>

\* What a live consumer does: Dequeue, the handler, the outcome.
ConsumerStep(c) ==
  \/ \E q \in Queues : ClaimScan(c, q)
  \/ ClaimLock(c)
  \/ ClaimNothing(c)
  \/ ClaimUpdate(c)
  \/ NoHandler(c)
  \/ Acknowledge(c)
  \/ \E delay \in RetryDelays : Requeue(c, delay)
  \/ MoveToDeadLetter(c)

Next ==
  \/ \E j \in Jobs : Enqueue(j) \/ EnqueueAgain(j) \/ RetryDeadJob(j) \/ DeleteJob(j)
  \/ \E c \in Consumers : ConsumerStep(c) \/ Drop(c)
  \/ Tick

\* Consumers keep polling, handlers return, time passes.  Nothing is assumed
\* of clients and of the dashboard.
Fairness ==
  /\ \A c \in Consumers : WF_vars(ConsumerStep(c))
  /\ WF_vars(Tick)

Spec == Init /\ [][Next]_vars /\ Fairness

-----------------------------------------------------------------------------
(* Properties                                                              *)

Owns(c, j) == pc[c] \in {"locked", "held"} /\ holds[c] = j

\* Two consumers never have the same row: SKIP LOCKED keeps them apart while
\* a claim is under way, and the second look at the latest version keeps a
\* claim with an old snapshot from taking a row that was claimed meanwhile.
\* Repeating Enqueue does not change this (README, "Idempotent enqueue"); a
\* job that was deleted and then enqueued again is a new row, and left out.
ClaimedOnce ==
  \A c, d \in Consumers, j \in Jobs \ deleted : Owns(c, j) /\ Owns(d, j) => c = d

\* A claim never takes a job before its time, however old its snapshot: a job
\* that failed and was requeued since then is due later.
NeverEarly ==
  \A c \in Consumers : pc[c] = "locked" => row[holds[c]].processAt <= now

\* Once acknowledged, a job stays completed, and the only way out is its
\* deletion: no late claim, outcome or RetryDeadJob brings it back.
CompletedForGood ==
  \A j \in succeeded \ deleted : Present(j) /\ row[j].status = "completed"

\* Only Enqueue makes rows: the outcome of a job that was deleted while it ran
\* changes nothing, in contrast to the Redis broker.
NoResurrection ==
  [][\A j \in Jobs : row[j] = NoRow /\ row'[j] # NoRow =>
       row'[j] = [status |-> "pending", attempts |-> 0, processAt |-> born'[j]]]_vars

\* Among the jobs of one unique key at most one is not yet completed or dead,
\* also when dead jobs are retried and stale outcomes arrive.
OneLivePerKey ==
  \A j, k \in Jobs :
    /\ j # k /\ uniqueKey[j] = uniqueKey[k] /\ uniqueKey[j] # NoKey
    /\ Present(j) /\ row[j].status \in {"pending", "active", "retry"}
    => ~(Present(k) /\ row[k].status \in {"pending", "active", "retry"})

\* From Enqueue or RetryDeadJob on a job is handed out, and its handler run, at
\* most MaxAttempts times, also when consumers are lost on the way.
AttemptsWithinBudget == \A j \in Jobs \ deleted : runs[j] <= MaxAttempts[j]

\* No row is forgotten as active, where no Dequeue finds it: an active row, the
\* second of its ID included, is in a worker's hands, or its consumer was lost
\* with it.  In particular no outcome that a live worker writes is refused by the
\* unique index while the row is active, whatever was enqueued with its key.
NoRowForgotten ==
  \A j \in Jobs : Present(j) /\ row[j].status = "active" =>
    j \in orphaned \/ \E c \in Consumers : pc[c] = "held" /\ holds[c] = j

KeyLive(k) ==
  \E j \in Jobs : uniqueKey[j] = k /\ Present(j) /\ row[j].status \in {"pending", "active", "retry"}

\* A unique key does not stay taken: the job that has it is completed, dead or
\* deleted at some point, unless its consumer was lost.  (There is no reaper:
\* the key of an orphaned row turns every later Enqueue into a no-op.)
KeyIsFreedAgain ==
  \A k \in Keys : KeyLive(k) ~> (~KeyLive(k) \/ \E j \in orphaned : uniqueKey[j] = k)

-----------------------------------------------------------------------------
(* Refinement: a row as the contract sees it.  A waiting job becomes ready *)
(* by the clock alone.                                                     *)

Phase(j) ==
  CASE ~Present(j) -> "unborn"
    [] Present(j) /\ row[j].status \in {"pending", "retry"} ->
         IF row[j].processAt > now THEN "later" ELSE "ready"
    [] Present(j) /\ row[j].status = "active" -> "active"
    [] Present(j) /\ row[j].status = "dead" -> "dead"
    [] Present(j) /\ row[j].status = "completed" -> "done"

Used(j) == IF Phase(j) \in {"unborn", "done"} THEN 0 ELSE row[j].attempts

\* One copy of the contract for each job: the clock makes several due at once.
Contract(j) == INSTANCE Broker WITH
  Jobs <- {j}, phase <- [k \in {j} |-> Phase(k)], used <- [k \in {j} |-> Used(k)]

\* Every step moves every job as one method of the Broker interface says, or
\* not at all.  Deleted jobs are outside the contract.
ImplementsContract == [][\A j \in Jobs \ deleted' : Contract(j)!BrokerStep]_vars
=============================================================================
