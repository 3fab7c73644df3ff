------------------------------- MODULE Server -------------------------------
(***************************************************************************)
(* One worker server (pkg/client/server.go): the dispatcher, the worker    *)
(* pool with its job channel and the scheduler run as goroutines under one *)
(* context, and Run shuts them down in order when it is cancelled.  The    *)
(* broker is the contract of module Broker, with a FIFO list per queue.    *)
(*                                                                         *)
(* Time is left out: a job that waits in the scheduled or a retry set      *)
(* becomes due at some point (BecomeDue), and every interval elapses.      *)
(*                                                                         *)
(* A broker call fails either because its context was cancelled or because *)
(* of an error, of which a behaviour has at most MaxErrors.  Pool calls    *)
(* that record an outcome use a context of their own (bookkeepingTimeout), *)
(* so that they fail only by error.                                        *)
(***************************************************************************)
EXTENDS Broker, Sequences, FiniteSets

CONSTANTS
  Queues, QueueOf,  \* queue names; the Queue field of each job
  Weight,           \* ServerConfig.Queues: relative poll weights
  Workers,          \* worker goroutines, Concurrency many
  BufferSize,       \* ServerConfig.BufferSize, 0 for the default
  Registered,       \* jobs whose type has a handler
  NoJob,
  MaxErrors         \* bound: broker calls that fail by error

ASSUME ServerAssumption ==
  /\ IsFiniteSet(Queues)
  /\ QueueOf \in [Jobs -> Queues]
  /\ MaxAttempts \in [Jobs -> Nat \ {0}]
  /\ Weight \in [Queues -> Nat]
  /\ IsFiniteSet(Workers) /\ Workers # {}
  /\ BufferSize \in Nat
  /\ Registered \subseteq Jobs
  /\ NoJob \notin Jobs
  /\ MaxErrors \in Nat

VARIABLES
  queue, due,           \* broker: ready jobs in order; waiting jobs now due
  ctx,                  \* Run's context: "live" or "cancelled"
  schedule, idx,        \* Dispatcher: poll order, position in it
  dpc, taken,           \* Dispatcher: step, job between Dequeue and Submit
  jobCh,                \* Pool: the buffered channel
  wpc, wjob,            \* Pool: each worker's step and job
  spc, ids,             \* Scheduler: step, listed IDs still to promote
  rpc,                  \* Run's step
  errors,               \* errors so far
  received, abandoned   \* history: jobs a worker took since their Dequeue,
                        \* jobs left behind by a call that failed by error

dispatcherVars == <<schedule, idx, dpc, taken>>
poolVars == <<jobCh, wpc, wjob>>
schedulerVars == <<spc, ids>>
historyVars == <<errors, received, abandoned>>
vars == <<brokerVars, queue, due, ctx, dispatcherVars, poolVars, schedulerVars, rpc, historyVars>>

cancelled == ctx = "cancelled"

\* NewServer's default for the pool's channel.
bufferSize == IF BufferSize = 0 THEN Cardinality(Workers) * 2 ELSE BufferSize

\* Mutant: the loop runs once too often.
buildPollScheduleOneMore(queues) ==
  LET upTo[n \in 0..Len(queues)] ==
        IF n = 0 THEN <<>> ELSE upTo[n - 1] \o [i \in 1..(Weight[queues[n]] + 1) |-> queues[n]]
  IN  upTo[Len(queues)]

\* Each queue, in the order given, as often as its weight says.
buildPollSchedule(queues) ==
  LET upTo[n \in 0..Len(queues)] ==
        IF n = 0 THEN <<>> ELSE upTo[n - 1] \o [i \in 1..Weight[queues[n]] |-> queues[n]]
  IN  upTo[Len(queues)]

\* NewServer ranges over a map: the queues come in any order.
QueueOrders ==
  {o \in [1..Cardinality(Queues) -> Queues] : \A q \in Queues : \E i \in DOMAIN o : o[i] = q}

TypeOK ==
  /\ BrokerTypeOK
  /\ queue \in [Queues -> Seq(Jobs)]
  /\ due \subseteq Jobs
  /\ ctx \in {"live", "cancelled"}
  /\ schedule \in Seq(Queues)
  /\ idx \in Nat
  /\ dpc \in {"top", "dequeue", "get", "submit", "sleep", "stopped"}
  /\ taken \in Jobs \cup {NoJob}
  /\ jobCh \in Seq(Jobs) /\ Len(jobCh) <= bufferSize
  /\ wpc \in [Workers -> {"select", "process", "exited"}]
  /\ wjob \in [Workers -> Jobs \cup {NoJob}]
  /\ spc \in {"wait", "promote", "stopped"}
  /\ ids \subseteq Jobs
  /\ rpc \in {"serving", "joining", "draining", "closed"}
  /\ errors \in 0..MaxErrors
  /\ received \subseteq Jobs
  /\ abandoned \subseteq Jobs

Init ==
  /\ BrokerInit
  /\ queue = [q \in Queues |-> <<>>]
  /\ due = {}
  /\ ctx = "live"
  /\ \E o \in QueueOrders : schedule = buildPollSchedule(o)
  /\ idx = 0
  /\ dpc = "top"
  /\ taken = NoJob
  /\ jobCh = <<>>
  /\ wpc = [w \in Workers |-> "select"]
  /\ wjob = [w \in Workers |-> NoJob]
  /\ spc = "wait"
  /\ ids = {}
  /\ rpc = "serving"
  /\ errors = 0
  /\ received = {}
  /\ abandoned = {}

-----------------------------------------------------------------------------
(* Outside the server                                                      *)

LPush(j) == queue' = [queue EXCEPT ![QueueOf[j]] = Append(@, j)]

ClientEnqueue(j, to) ==
  /\ Enqueue(j, to)
  /\ \/ to = "ready" /\ LPush(j)
     \/ to = "later" /\ UNCHANGED queue
  /\ UNCHANGED <<due, ctx, dispatcherVars, poolVars, schedulerVars, rpc, historyVars>>

BecomeDue(j) ==
  /\ phase[j] = "later" /\ j \notin due
  /\ due' = due \cup {j}
  /\ UNCHANGED <<brokerVars, queue, ctx, dispatcherVars, poolVars, schedulerVars, rpc, historyVars>>

\* SIGINT or SIGTERM.
Cancel ==
  /\ ~cancelled
  /\ ctx' = "cancelled"
  /\ UNCHANGED <<brokerVars, queue, due, dispatcherVars, poolVars, schedulerVars, rpc, historyVars>>

-----------------------------------------------------------------------------
(* Dispatcher.Run                                                          *)

Error == errors < MaxErrors /\ errors' = errors + 1

\* The loop's ctx check; an empty schedule ends Run before the loop.
DispatchTop ==
  /\ dpc = "top"
  /\ dpc' = IF cancelled \/ schedule = <<>> THEN "stopped" ELSE "dequeue"
  /\ UNCHANGED <<brokerVars, queue, due, ctx, schedule, idx, taken, poolVars, schedulerVars,
                 rpc, historyVars>>

Polled == schedule[(idx % Len(schedule)) + 1]

\* Mutant: the position in the schedule never moves.
StuckIdx == idx' = idx

NextIdx == idx' = (idx + 1) % Len(schedule)

\* Dequeue's script pops a job.
DispatchPop ==
  /\ dpc = "dequeue"
  /\ queue[Polled] # <<>>
  /\ LET j == Head(queue[Polled])
     IN  /\ Dequeue(j)
         /\ queue' = [queue EXCEPT ![Polled] = Tail(@)]
         /\ taken' = j
         /\ received' = received \ {j}
  /\ NextIdx
  /\ dpc' = "get"
  /\ UNCHANGED <<due, ctx, schedule, poolVars, schedulerVars, rpc, errors, abandoned>>

DispatchEmpty ==
  /\ dpc = "dequeue"
  /\ queue[Polled] = <<>>
  /\ NextIdx
  /\ dpc' = "sleep"
  /\ UNCHANGED <<brokerVars, queue, due, ctx, schedule, taken, poolVars, schedulerVars,
                 rpc, historyVars>>

\* Dequeue's script was not run.
DispatchError ==
  /\ dpc = "dequeue"
  /\ NextIdx
  /\ \/ cancelled /\ dpc' = "stopped" /\ UNCHANGED errors
     \/ ~cancelled /\ dpc' = "sleep" /\ Error
  /\ UNCHANGED <<brokerVars, queue, due, ctx, schedule, taken, poolVars, schedulerVars,
                 rpc, received, abandoned>>

\* Dequeue's GET.
DispatchGet ==
  /\ dpc = "get"
  /\ dpc' = "submit"
  /\ UNCHANGED <<brokerVars, queue, due, ctx, schedule, idx, taken, poolVars, schedulerVars,
                 rpc, historyVars>>

\* ... fails: the popped job stays active and nobody has it.
DispatchGetError ==
  /\ dpc = "get"
  /\ taken' = NoJob
  /\ \/ cancelled /\ dpc' = "stopped" /\ UNCHANGED <<errors, abandoned>>
     \/ ~cancelled /\ dpc' = "sleep" /\ Error /\ abandoned' = abandoned \cup {taken}
  /\ UNCHANGED <<brokerVars, queue, due, ctx, schedule, idx, poolVars, schedulerVars,
                 rpc, received>>

\* Mutant: a channel without a bound.
SubmitUnbounded ==
  /\ dpc = "submit"
  /\ jobCh' = Append(jobCh, taken)
  /\ taken' = NoJob
  /\ dpc' = "top"
  /\ UNCHANGED <<brokerVars, queue, due, ctx, schedule, idx, wpc, wjob, schedulerVars,
                 rpc, historyVars>>

\* Pool.Submit: wait for room in the channel or for the end of ctx.
SubmitSend ==
  /\ dpc = "submit"
  /\ Len(jobCh) < bufferSize
  /\ jobCh' = Append(jobCh, taken)
  /\ taken' = NoJob
  /\ dpc' = "top"
  /\ UNCHANGED <<brokerVars, queue, due, ctx, schedule, idx, wpc, wjob, schedulerVars,
                 rpc, historyVars>>

\* Mutant: Submit is a plain send and never looks at ctx.
SubmitIgnoresCtx == SubmitSend

\* Mutant: Submit gives up when the channel is full.
SubmitDropsWhenFull ==
  /\ dpc = "submit"
  /\ Len(jobCh) = bufferSize
  /\ taken' = NoJob
  /\ dpc' = "top"
  /\ UNCHANGED <<brokerVars, queue, due, ctx, schedule, idx, poolVars, schedulerVars,
                 rpc, historyVars>>

SubmitCancelled ==
  /\ dpc = "submit"
  /\ cancelled
  /\ taken' = NoJob
  /\ dpc' = "stopped"
  /\ UNCHANGED <<brokerVars, queue, due, ctx, schedule, idx, poolVars, schedulerVars,
                 rpc, historyVars>>

DispatchWake ==
  /\ dpc = "sleep"
  /\ dpc' = "top"
  /\ UNCHANGED <<brokerVars, queue, due, ctx, schedule, idx, taken, poolVars, schedulerVars,
                 rpc, historyVars>>

DispatcherNext ==
  \/ DispatchTop \/ DispatchPop \/ DispatchEmpty \/ DispatchError
  \/ DispatchGet \/ DispatchGetError \/ SubmitSend \/ SubmitCancelled \/ DispatchWake

-----------------------------------------------------------------------------
(* Pool.runWorker and process                                              *)

WorkerReceive(w) ==
  /\ wpc[w] = "select"
  /\ jobCh # <<>>
  /\ jobCh' = Tail(jobCh)
  /\ wpc' = [wpc EXCEPT ![w] = "process"]
  /\ wjob' = [wjob EXCEPT ![w] = Head(jobCh)]
  /\ received' = received \cup {Head(jobCh)}
  /\ UNCHANGED <<brokerVars, queue, due, ctx, dispatcherVars, schedulerVars, rpc, errors, abandoned>>

\* select chooses at random when a job is there as well.
WorkerExit(w) ==
  /\ wpc[w] = "select"
  /\ cancelled
  /\ wpc' = [wpc EXCEPT ![w] = "exited"]
  /\ UNCHANGED <<brokerVars, queue, due, ctx, dispatcherVars, jobCh, wjob, schedulerVars,
                 rpc, historyVars>>

Finish(w) ==
  /\ wpc' = [wpc EXCEPT ![w] = "select"]
  /\ wjob' = [wjob EXCEPT ![w] = NoJob]
  /\ UNCHANGED jobCh

\* The outcome is recorded: no handler, success, failure with attempts left,
\* failure without.
RecordOutcome(j) ==
  \/ j \notin Registered /\ MoveToDeadLetter(j, used[j])
  \/ j \in Registered /\ \/ Acknowledge(j)
                         \/ Requeue(j)
                         \/ MoveToDeadLetter(j, used[j] + 1)

\* Mutant: outcomes are recorded under Run's own context.
WorkerFinishUnderCtx(w) ==
  /\ wpc[w] = "process"
  /\ \/ ~cancelled /\ RecordOutcome(wjob[w])
     \/ cancelled /\ UNCHANGED brokerVars
  /\ Finish(w)
  /\ UNCHANGED <<queue, due, ctx, dispatcherVars, schedulerVars, rpc, historyVars>>

WorkerFinish(w) ==
  /\ wpc[w] = "process"
  /\ RecordOutcome(wjob[w])
  /\ Finish(w)
  /\ UNCHANGED <<queue, due, ctx, dispatcherVars, schedulerVars, rpc, historyVars>>

\* The call that records the outcome fails and is only logged.
WorkerError(w) ==
  /\ wpc[w] = "process"
  /\ Error
  /\ abandoned' = abandoned \cup {wjob[w]}
  /\ Finish(w)
  /\ UNCHANGED <<brokerVars, queue, due, ctx, dispatcherVars, schedulerVars, rpc, received>>

WorkerNext(w) == WorkerReceive(w) \/ WorkerExit(w) \/ WorkerFinish(w) \/ WorkerError(w)

-----------------------------------------------------------------------------
(* Scheduler.Run                                                           *)

SchedulerTick ==
  /\ spc = "wait"
  /\ ids' = due
  /\ spc' = "promote"
  /\ UNCHANGED <<brokerVars, queue, due, ctx, dispatcherVars, poolVars, rpc, historyVars>>

SchedulerPromote(j) ==
  /\ spc = "promote"
  /\ j \in ids
  /\ PromoteDueJob(j)
  /\ LPush(j)
  /\ due' = due \ {j}
  /\ ids' = ids \ {j}
  /\ UNCHANGED <<ctx, dispatcherVars, poolVars, spc, rpc, historyVars>>

SchedulerDone ==
  /\ spc = "promote"
  /\ ids = {}
  /\ spc' = "wait"
  /\ UNCHANGED <<brokerVars, queue, due, ctx, dispatcherVars, poolVars, ids, rpc, historyVars>>

SchedulerError ==
  /\ spc = "promote"
  /\ ids' = {}
  /\ \/ cancelled /\ spc' = "stopped" /\ UNCHANGED errors
     \/ ~cancelled /\ spc' = "wait" /\ Error
  /\ UNCHANGED <<brokerVars, queue, due, ctx, dispatcherVars, poolVars, rpc, received, abandoned>>

SchedulerStop ==
  /\ spc = "wait"
  /\ cancelled
  /\ spc' = "stopped"
  /\ UNCHANGED <<brokerVars, queue, due, ctx, dispatcherVars, poolVars, ids, rpc, historyVars>>

SchedulerNext ==
  \/ SchedulerTick \/ SchedulerDone \/ SchedulerError \/ SchedulerStop
  \/ \E j \in Jobs : SchedulerPromote(j)

-----------------------------------------------------------------------------
(* Server.Run: <-ctx.Done(), wg.Wait(), pool.Stop(), broker.Close()        *)

RunStep(from, guard, to) ==
  /\ rpc = from
  /\ guard
  /\ rpc' = to
  /\ UNCHANGED <<brokerVars, queue, due, ctx, dispatcherVars, poolVars, schedulerVars, historyVars>>

\* Mutant: Run does not wait for the pool.
RunNoDrain ==
  \/ RunStep("serving", cancelled, "joining")
  \/ RunStep("joining", dpc = "stopped" /\ spc = "stopped", "draining")
  \/ RunStep("draining", TRUE, "closed")

RunNext ==
  \/ RunStep("serving", cancelled, "joining")
  \/ RunStep("joining", dpc = "stopped" /\ spc = "stopped", "draining")
  \/ RunStep("draining", \A w \in Workers : wpc[w] = "exited", "closed")

Next ==
  \/ \E j \in Jobs, to \in {"later", "ready"} : ClientEnqueue(j, to)
  \/ \E j \in Jobs : BecomeDue(j)
  \/ Cancel
  \/ DispatcherNext
  \/ \E w \in Workers : WorkerNext(w)
  \/ SchedulerNext
  \/ RunNext

\* Goroutines are scheduled, handlers return, delays elapse, and select does
\* not ignore for ever a case that is ready again and again.
Fairness ==
  /\ WF_vars(DispatcherNext)
  /\ \A w \in Workers : WF_vars(WorkerNext(w))
  /\ WF_vars(SchedulerNext) /\ SF_vars(SchedulerStop)
  /\ WF_vars(RunNext)
  /\ \A j \in Jobs : WF_vars(BecomeDue(j))

Spec == Init /\ [][Next]_vars /\ Fairness

-----------------------------------------------------------------------------
(* Properties                                                              *)

\* The places of this process that have job j in hand.
Holders(j) ==
  {<<"dispatcher", 0>> : x \in {y \in {taken} : y = j}}
    \cup {<<"channel", i>> : i \in {k \in DOMAIN jobCh : jobCh[k] = j}}
    \cup {<<"worker", w>> : w \in {v \in Workers : wjob[v] = j}}

\* While the server runs, the broker's in-flight jobs are exactly the jobs in
\* the server's hands and those that a failed call left behind, and a job is in
\* one hand only: none is lost between Dequeue, Submit, channel and worker.
InFlightAccounted ==
  \A j \in Jobs :
    /\ Cardinality(Holders(j)) <= 1
    /\ ~cancelled => (phase[j] = "active" <=> (Holders(j) # {} \/ j \in abandoned))

\* What graceful shutdown does guarantee: a job that a worker has taken gets its
\* outcome recorded before the server is done, because outcomes are recorded
\* under a context of their own (pool.go, bookkeepingTimeout).
StartedJobsAreFinished ==
  rpc = "closed" =>
    \A j \in received \ abandoned : phase[j] # "active"

\* The broker is closed when no goroutine can use it any more.
ClosedLast ==
  rpc = "closed" =>
    dpc = "stopped" /\ spc = "stopped" /\ \A w \in Workers : wpc[w] = "exited"

\* Weighted polling starves no queue that has a weight and backpressure loses
\* nothing: every job enqueued there is processed to success or to the
\* dead-letter list, unless the server is stopped or the job was left behind by
\* a failed broker call.
EveryJobSettles ==
  \A j \in {k \in Jobs : Weight[QueueOf[k]] > 0} :
    phase[j] # "unborn" ~> (phase[j] \in {"done", "dead"} \/ cancelled \/ j \in abandoned)

\* Shutdown comes to an end from every state: no goroutine waits for a full
\* channel, an empty channel or another goroutine for ever.
ShutdownEnds == cancelled ~> rpc = "closed"

\* What the comments on Run and Stop say of graceful shutdown: when Run returns,
\* every job that the pool has accepted has been processed.
ShutdownDrains == rpc = "closed" => jobCh = <<>>

\* Whatever order the map gives the queues in, a queue has as many turns in a
\* round of polls as its weight says, and a queue of weight 0 has none.
ScheduleMatchesWeights ==
  \A q \in Queues : Cardinality({i \in DOMAIN schedule : schedule[i] = q}) = Weight[q]
=============================================================================
