# mini-sidekiq in TLA+

Specifications of the job queue in this repository: what its brokers, worker
pool, dispatcher and schedulers do when they run at the same time and when
calls, connections and processes fail. TLC checks small instances of every
module (`*.cfg`); TLAPS proves every safety property that these runs check, and
the refinements, for instances of any size (`*Proofs.tla`). `PROJECT.json` lists
components, runs, mutants, the source lines behind every definition, findings,
hazards and theorems.

## The system

| Component | State it keeps | Operations | Correct when |
|---|---|---|---|
| Job (`job.go`) | status, attempts, queue, process_at | `NewJob` | IDs are drawn client-side, once |
| Broker interface (`internal/broker/broker.go`) | – | Enqueue, Dequeue, Acknowledge, Requeue, MoveToDeadLetter, PromoteDueJobs, RetryDeadJob, DeleteJob, listings | each method moves a job from the phase it is meant for to the next |
| Redis broker (`redis.go`) | records, queue lists, scheduled and retry sorted sets, dead-letter lists, the active set | six Lua scripts, single commands, one pipeline | no ID is lost, copied or left dangling between two round trips |
| Postgres broker (`postgres.go`) | one row per job | single statements, `SKIP LOCKED` claim | two consumers never claim one row; duplicates are rejected |
| Worker pool (`internal/worker`) | buffered channel, worker goroutines, registry | Submit, Start, Stop, process, fail | a taken job gets its outcome recorded; a full channel holds the dispatcher back |
| Dispatcher (`internal/dispatcher`) | poll schedule, position | Run | no queue starves; the job in its hands is not dropped |
| Scheduler (`internal/scheduler`) | ticker | Run | due jobs are promoted once, and not before they are due |
| Server (`pkg/client/server.go`) | the goroutines above under one context | Run | shutdown ends, in order, and drains |
| Client (`pkg/client/client.go`) | – | Enqueue | repeating it is safe |
| Retry (`internal/retry`) | – | NextDelay | delays grow |
| Middleware (`internal/middleware`) | log lines, counters, contexts of one attempt | Chain, logging, recovery, timeout, metrics | the pool acts on the last word of the user's code; logs, counters and timers agree with the outcome, panics included |
| Dashboard API (`internal/dashboard`) | – | queue statistics, listings, retry, delete | an answer is true of some moment of the call |
| Dashboard page, config, commands | – | – | wiring |

Everybody shares the broker's store and nothing else: clients push, dispatchers
pop into the active set, workers record outcomes, the schedulers of all servers
walk the same sorted sets, and the dashboard changes jobs in any state. Inside
a server the dispatcher hands jobs to workers through the channel, and one
context ends them all.

What is hard to test here: methods made of several round trips, between which
any other client acts (Dequeue, Acknowledge, PromoteDueJobs, RetryDeadJob,
DeleteJob); values read in one round trip and used in a later one; a crash or a
cancelled context between two of them; replies that are lost and commands sent
again; claims that work on a snapshot; listings read key by key; a panic that
unwinds past middlewares; the end of a context seen by five goroutines in any
order. The list, by line, is `hazards` in `PROJECT.json`.

## Modules

**`Broker`** – the contract. A job is unborn, later, ready, active, dead or
done, and each method is one move. No fairness, no failure: a job whose
consumer vanished simply stays active (the code has no reaper).

**`RedisStore`** – the Redis keys, and one operator per Lua script, command or
pipelined command, each atomic as Redis runs it. Lists are kept in RPOP order,
sorted sets as a score per ID, the dead-letter list as a number of occurrences
(its order is never used). The score in the active set is left out: nothing
reads it.

**`RedisBroker`** (extends `RedisStore`) – the callers. A *consumer* is the
path of one job through a server: Dequeue's script and GET, the handler, and
then Acknowledge's ZREM and DEL, Requeue, or MoveToDeadLetter. `Drop` ends it
anywhere and stands for a crash, a failed call (which the code only logs) or a
cancelled context. *Schedulers* list and promote, *admins* retry and delete,
and may be cut off after any round trip. Three next-state relations: `Next`;
`DeleteNext` adds DeleteJob; `ResendNext` adds commands applied twice because a
reply was lost: Enqueue, sent again by go-redis or by a caller of
`Broker.Enqueue` with the same job, and MoveToDeadLetter, of an exhausted job
or of one without a handler. A repeated `Client.Enqueue` is not among them: it
draws a new ID, and so is another job to the broker. Requeue is left out,
because its delay (16 s or more) outlasts the 5 s that its call and so its
re-send may take: the second run of the script finds what the first one left.
The clock a caller reads and the script it then runs are one step. `Contract`
maps the store to the phases of `Broker`.

**`RedisListings`** (extends `RedisBroker`) – one dashboard request at a time on
top of `ResendNext`: `GetQueueStats` walks the queue, retry and dead keys with
SCAN, then the scheduled and active sets; `GetJobsByStatus` walks one of them.
Every round trip is a step. SCAN passes the queues in pages, in any order, some
of them twice, and returns the keys that exist at that moment. Two history
variables keep, for the structure being read, how often each ID was in it at
least and at most. `WRONGTYPE` on a sorted set ends the call.

**`PostgresBroker`** – one row per job. A statement is one step; the claim of
`Dequeue` is three (snapshot, row lock, commit), because other transactions can
act between them: SKIP LOCKED passes a locked row over, and a row that changed
after the snapshot is looked at again, with the statement's own NOW(). Writers
wait for the row lock. `Admits` is the partial unique index: an `INSERT` it
refuses (23505) is a silent success, any other statement changes nothing. The
claim's own UPDATE cannot be refused: the row it takes is in the index already.
`EnqueueAgain` is `Broker.Enqueue` called again with the same job, also after
that was deleted. The listing and counting statements are left out: each is one
read-only query. `Contract(j)` is the instance of `Broker` for one job; a
waiting row becomes ready by the clock, which is why `PromoteDueJobs` does
nothing.

**`Process`** – what one worker does with one job, over all attempts: the chain
that `Use` built, entered middleware by middleware and left again with nil, an
error or a panic, then acknowledge, requeue after `NextDelay` or dead letter.
`Chain` goes over the list of middlewares from its end, as the loop in the
code. "custom" stands for a middleware of the user. It may answer nil, an error
or a panic of its own, whatever next gave it or without calling next; it calls
next at most once. A bookkeeping call (Acknowledge, Requeue, MoveToDeadLetter)
may fail, which the code only logs: the job is then "stranded", in flight in
the broker and in nobody's hands. A job that was requeued is assumed to come
back to a worker, which is the subject of `Server` and the brokers. Workers
share only the chain, which is fixed once they run, so one is enough.

**`Server`** (extends `Broker`) – one server process: `Dispatcher.Run`,
`Pool.Submit`, `runWorker`, `process`, `Scheduler.Run` and `Server.Run` step by
step against the contract, with a FIFO list per queue. Time is reduced to "a
waiting job becomes due at some point". A call fails because its context was
cancelled, or by error (at most `MaxErrors` times). After the cancellation a
call of the dispatcher or scheduler may still succeed (it was under way) or
fail, at either's choice. A handler's error and its panic are the same outcome.

**`MCRedisBroker`**, **`MCRedisListings`**, **`MCPostgresBroker`**,
**`MCServer`** – values of the constants.

**`ProofLemmas`** – what the proofs need of sequences, finite sets and sums.
**`RedisBrokerProofs`**, **`RedisRefinementProofs`**, **`RedisFaultProofs`**,
**`RedisListingsProofs`**, **`PostgresBrokerProofs`**, **`ServerProofs`**,
**`ProcessProofs`** – theorems about the module they are named after: see
[Proofs](#proofs).

Operators introduced by a comment that starts with "Mutant:" are variants of
the definition that follows, as a plausible mistake in the code would make it;
nothing uses them. `PROJECT.json` names, for every checked property, the one
that violates it.

## Runs

| Run | Checks | Instance |
|---|---|---|
| `redis_core` | `TypeOK`, `NoJobLost`, `SinglePlace`, `OneOwner`, `NoDanglingID`, `AcknowledgedStaysGone`, `RunsWithinBudget`, `DeadStatusIsDeadLetter`, `AttemptsNeverGoBack`, and `ImplementsBroker`: refinement of `Broker` | 1 job with 3 attempts, 2 consumers, 2 schedulers, 2 admins |
| `redis_timing` | `NeverASecondEarly` with a clock of half seconds | 1 job, 1 scheduler, 4 seconds |
| `redis_delete` | `NoJobLost` and `SinglePlace` with DeleteJob | 2 jobs, 1 caller of every kind |
| `redis_listings` | `StatsBracketed`, `ListingFaithful`, and `NoJobLost` with commands applied twice | 1 job, 2 queues, 2 consumers, 2 re-sends, 1 reader |
| `postgres` | `TypeOK`, `ClaimedOnce`, `NeverEarly`, `CompletedForGood`, `OneLivePerKey`, `AttemptsWithinBudget`, `NoRowForgotten`, `NoResurrection`, `ImplementsContract`, `KeyIsFreedAgain` | 2 jobs with the same unique key or one without, 2 consumers, 3 upsets |
| `process` | `TypeOK`, `OutcomeIsVerdict`, `LogsPaired`, `MetricsMatchOutcome`, `TimersReleased`, `BackoffGrows`, `EveryJobEnds` | every list of up to 3 middlewares after logging, 5 attempts |
| `server` | `TypeOK`, `InFlightAccounted`, `StartedJobsAreFinished`, `ClosedLast`, `ScheduleMatchesWeights`, `EveryJobSettles`, `ShutdownEnds` | 2 jobs in 2 queues (weights 2 and 1) and an empty queue of weight 0, 2 workers, a channel of 1, 1 error |
| `v_stale_promote` | violated: a job is promoted before its retry delay is over | 2 schedulers |
| `v_delete_comes_back` | violated: a deleted job is stored again | 1 running consumer |
| `v_enqueue_twice` | violated: one job, two owners | 1 re-send |
| `v_shutdown` | violated: Run returns with accepted jobs in the channel | no errors |
| `v_retry_listing` | violated: listing the jobs that wait for a retry fails | as `redis_listings` |

*Why the bounds are enough to be interesting.* Two consumers, schedulers or
admins are the least that can race on a job, which is what `redis_core` is
about (the invariants of all runs are proved for any number of jobs and
callers); where a step could hit a job it is not about, as DeleteJob's
pipeline, there are two. In `redis_delete` every job is enqueued without a
delay: the scheduled set is left to the theorems, as is the admin next to
re-sends. Attempts 1, 2 and 3 cover "last attempt first", one requeue, and a
requeue that is listed again. `MaxTime` lets every delay that is used elapse.
`redis_listings` has no admin: with one, duplicates of a job in the dead-letter
list can be retried in turn and its attempts grow without limit. There the job
may be in several places at once because of the re-sends, and the second queue
gives SCAN something to pass; limits 1 and 2 are one that cuts a listing off
and one that does not; while a request is under way at most `WatchedResends`
commands are sent again and `WatchedBusy` consumers at work, which is enough
for an ID to leave each structure and to come into the next one between two
round trips. `redis_delete` and `redis_listings` use a view without `dueAt` and
`runs`, which neither their properties nor any guard reads. `MaxUpsets` of
`postgres` counts repeated Enqueue calls, retried and deleted jobs and lost
consumers together: three of them in any combination. Two jobs without a common
key are live at once, so that a claim has a second row to turn to; with a
common key one is dead, completed or refused while the other lives. A job that
is deleted while it runs and enqueued again under its own ID gets the first
row's outcome written to its second: `CompletedForGood` and
`AttemptsWithinBudget` except such jobs, `NoRowForgotten`, `NoResurrection` and
`OneLivePerKey` include them. The clock of `PostgresBroker` moves only while a
row waits for it, since no statement can tell the difference at other times.
`process` takes the end points of the jitter and one value between; five
attempts are two more than `BackoffGrows` needs to start (it says nothing of
the first three, which overlap, and so nothing of jobs with the default of 3
attempts). `server` has one job in each of two queues: that a queue is reached
is checked, but not under a sustained load on the other. Symmetry permutes
callers of one kind, in runs whose properties are invariants, action properties
or refinement without fairness.

*Fairness.* In `Server`: weak fairness of each goroutine: the Go scheduler
runs them, and handlers are assumed to return. Weak fairness of `BecomeDue`:
delays elapse. Strong fairness of `SchedulerStop`: a `select` whose ready cases
are the ticker and `ctx.Done()` chooses among them at random, and does not
ignore one of them for ever. Nothing is assumed of clients, of the signal or of
errors. `server` does not check for deadlock because the system may stop once
Run has returned; that it cannot stop earlier is `ShutdownEnds` and
`EveryJobSettles`. Jobs of a queue of weight 0 are left out of
`EveryJobSettles`: the dispatcher never polls it.

In `PostgresBroker`: weak fairness of each consumer's own steps (dispatchers
poll for ever, handlers return and calls are answered) and of the clock; losing
a consumer, clients and the dashboard are free. One row is always claimable
when it is due, so weak fairness is enough for `KeyIsFreedAgain`. In `Process`:
weak fairness of the worker (handlers return, a requeued job comes back);
configuration is free, and a bookkeeping call may fail at any time. Both runs
leave deadlock unchecked: jobs and upsets run out, and a job that has ended
stays ended.

### What the violated properties show

* **Stale promotion** (`redis.go:232`). Scheduler A lists a due job; scheduler B
  promotes it, it runs, fails and is requeued 16 s or more ahead; A's script
  finds the ID in the set and promotes it at once. The script checks
  membership, not the score. With one scheduler the property holds
  (`redis_timing`).
* **Deleted jobs come back** (`redis.go:514`). The outcome scripts SET the
  record unconditionally.
* **Enqueue is not idempotent** (`redis.go:31`). The same ID is pushed twice.
  Nothing is lost by it (`redis_listings`), but two workers run the job at once.
  The Postgres broker is idempotent here: the primary key refuses the second row.
  The run is about the same job sent again, by go-redis or through
  `Broker.Enqueue`. Calling `Client.Enqueue` again is no better: it draws a new ID
  (`client.go:62`) and so makes the "duplicate job under a different ID" that its
  comment says is not risked.
* **Shutdown does not drain** (`pool.go:94`). What does hold is that a job a
  worker has taken is finished (`StartedJobsAreFinished`); jobs in the channel
  stay in the active set.
* **Retries cannot be listed** (`redis.go:298`). `GetJobsByStatus` reads the
  retry sets, which are sorted sets, with LRANGE. The statistics read them with
  ZCARD and are right (`StatsBracketed`).

Two comments are less exact than the code, without a run: `retry.go:12` gives
15–45 s and 31–91 s for attempts 1 and 2, and the jitter reaches 74 s and 118 s;
`metrics.go:35` counts "every job that passes through it", and a panic that
unwinds past the middleware is not counted (`MetricsMatchOutcome` says when it
is). In the Postgres broker a unique key stays taken when the consumer of its
job is lost, because there is no reaper: `KeyIsFreedAgain` excepts that case.

## Proofs

Every invariant and action property of every passing run, and both refinements,
are theorems: they hold for all constants that satisfy the assumptions of their
modules. These say that each job names a queue and has at least one attempt,
that delays are natural numbers, that "no job" is not a job, and in `RedisStore`
that the name "scheduled" of the shared sorted set is not the name of a queue.
Two sets have to be finite because something is added up over them: the queues
and workers of `Server` (they are configured) and, for the counts in
`RedisListings`, the jobs. Everything else may be infinite; in particular the
bounds that TLC needs (`MaxTime`, `MaxResends`, `MaxUpsets`, `MaxUsed`...) are
arbitrary numbers in the theorems.

No property is inductive by itself. Each proof has an invariant that is: one
lemma per action shows that it is kept, under it one step per part that the
action can disturb, and the properties follow from it.

**`RedisBrokerProofs`: `IInv`, the broker without deletions and re-sends.** Even
the type invariant is not inductive: that `DequeueGet` copies a record needs the
consumer to hold a job, and that what a worker writes is a record needs the copy
to be one. `IInv` adds

* `QueueInv`: an ID is listed once and in its own queue;
* `OnePlace`: queue, scheduled, retry, dead and active exclude each other;
* `Lifecycle`: a job is referenced exactly from its Enqueue to its success,
  a referenced job has a record, and status "dead" means dead-lettered;
* `Budget` and `ConsumerInv`: as long as a job can still be run, the runs it
  had are counted in its record; the copy a worker holds *is* the record, and
  the job is in flight. This is what makes the unconditional SET of the outcome
  scripts safe without a version check;
* `AdminInv`: what RetryDeadJob will write is a reset record. Nothing is said
  about the listings of schedulers: they are only hints, the claim decides.

From it follow all properties of `redis_core`; `AttemptsNeverGoBack` is an
action property, shown for each writer of records.

*Time* (`ReadyWhenDue`) needs a second invariant on top, `TimeInv`: the score of
a waiting job is its due time in whole seconds, and what a scheduler has listed
is still where it was found, with the score that made it due. The latter is
false with two schedulers, which is the finding of `v_stale_promote`; the
theorem therefore has the hypothesis `OneScheduler`, as `redis_timing` has one
scheduler.

**`RedisRefinementProofs`: `ImplementsBroker`.** `IInv` makes the refinement
mapping well defined: a job is in one place, and the place tells its phase.
Then each action either moves one job as one method of `Broker` does and leaves
all others untouched, or stutters (all reads, and the DEL of Acknowledge).

**`RedisFaultProofs`: deletions and re-sends.** `IInv` is lost here: a re-sent
command copies an ID, and a deleted job comes back. What survives is

* `KeepInv`, for both: a consumer past its Dequeue has a job and a record to
  write back, a begun call has its target, and no job is lost. `NoJobLost` holds
  because every script that takes an ID away puts it, with a record, elsewhere;
* `PlaceInv`, for deletions: an ID is in one place, and who owns a job is
  `Alone` with it, also when the ID was deleted from the active set under him.
  Hence `SinglePlace`, and `OneOwner`, which the run does not check: a deleted
  job that is stored again by its owner still has one owner.

**`RedisListingsProofs`: `ListingInv`, the dashboard's calls.** On top of
`KeepInv`, `ShelfInv` says that an ID is in its own queue and that the record
of a referenced, unfinished job exists. `Bracket` ties the history to the
store: until the structure is read to its end, every ID is in it at least as
often as it always was and at most as often as it ever was. `StatsInv` says how
far the columns are filled: queues that SCAN has passed and whose keys have
been read lie between the two sums, later columns are zero, and of a shared set
the fetched IDs are counted once each. `ListInv` does the same for a listing:
an ID that was there throughout is gathered or still ahead of SCAN, unless
limit is reached. The sums are handled by `SumShift` (two sums that differ most
at one summand).

**`PostgresBrokerProofs`: `IInv`.** `ConsumerInv` describes the three steps of
a claim: a locked row still waits and is due, because every writer waits for
the lock; a held row is active and its attempts are those of the copy, until
somebody deletes it. `LockedOnce` (a row lock has one holder) gives
`ClaimedOnce` across the snapshot. `Budget` counts runs against attempts.
`CompletedForGood` and `OneLivePerKey` are inductive with these.
`NoRowForgotten` rests on `LiveAdmits`: an active row is itself in the index
with its key, so no outcome of it can be refused. `ImplementsContract` is shown
per job and per statement.

**`ServerProofs`: `IInv`.** `HandsInv`: the dispatcher has a job exactly
between Dequeue and the end of Submit, a worker exactly while it processes one,
the channel holds distinct jobs, and no job is in two hands. `JobInv` relates
hands to the broker: what is in a hand is active, and what is active is, until
cancellation, in a hand or was left behind by a failed call; a job that a
worker received is with it, left behind or settled. `RunInv` is the order of
shutdown. `ScheduleMatchesWeights` is proved for `buildPollSchedule` over any
set of queues, by induction on the number of queues already laid out.

**`ProcessProofs`: `IInv`.** It follows one attempt down and up the chain:
`WayIn` (nothing has happened yet), `TimerInv` (one live context per timeout on
the stack), `NoPanicInv` (above a recovery there is no panic until the next
custom middleware), and `WayOut` (the counters agree with the result for the
metrics middlewares already left, and the result is nil exactly when the user's
last answer was, which gives `OutcomeIsVerdict`). `DelaysGrow` is arithmetic on
`NextDelay`: after the third failure the fourth power outgrows the jitter.

*Induction.* The induction theorems of the library take an operator as a
parameter, which the provers cannot instantiate. `ProofLemmas` states induction
for sets instead (`InductionUpTo`: a set of numbers that contains 0 and, with
each number below n, the next; `SubsetInduction` for finite sets), proved from
the well-foundedness of the natural numbers, and derives from it the facts about
sums over finite sets. Where a definition had a choice of form, the one was
taken that these lemmas reach: sums as `SumFunctionOnSet`, `Chain` and
`ChainForward` as recursive functions, and the removal of an ID from a list
without a RECURSIVE operator (`LRem`, `RemoveFirst`).

*Only model-checked:* liveness (`KeyIsFreedAgain`, `EveryJobSettles`,
`ShutdownEnds`, `EveryJobEnds`), which is out of the prover's reach. The
violations of the `v_` runs are counterexamples and need no proof.

## Plan

Every part of the system that keeps or changes the state of a job has a module,
and every safety property of a passing run has a theorem. What may still be
worth proving:

1. More of what survives deletions and re-sends: that the runs of a job whose
   commands were not re-sent stay within its budget.
2. `DeleteSpec` against a contract that allows a deleted job to come back, once.
3. For `Server`, that the dispatcher's position goes round the whole schedule:
   the safety half of "no queue of positive weight starves".

## Not modelled

* Configuration and commands: files, environment and flags are read once,
  before anything runs; the result is the constants of `Server`.
* The HTML page, HTTP routing and JSON: they pass on what the API returns.
  Encoding of jobs is taken to give back the fields it was given.
* `GetJob` and its handler: one read of one record. `GetJobsByStatus` and
  `GetQueueStats` of the Postgres broker: one read-only statement each, whose
  answer is true of its snapshot.
* A middleware of the user that calls next more than once.
* Log texts, durations and label values; Prometheus counters are modelled by
  outcome.
* Priority: `NewJob` gives every job the same, so that it never decides the
  order of a Postgres claim.
* Overflow in `NextDelay`: the fourth power leaves the range of a Go duration
  beyond attempt 309; the default limit is 3 attempts, and a job would take
  millennia to get there.
