------------------------------ MODULE Process ------------------------------
(***************************************************************************)
(* What a worker does with one job, attempt by attempt: Pool.process runs  *)
(* the job's handler inside the middleware chain and turns whatever comes  *)
(* out of it into an acknowledgement, a retry or a dead letter             *)
(* (internal/worker/pool.go, internal/middleware, internal/retry).         *)
(*                                                                         *)
(* The state is the worker's call stack: the chain, how many middlewares   *)
(* have been entered, and, on the way back, the error or panic that is     *)
(* passed up.  The user's code is the handler and any middlewares of the   *)
(* user's own ("custom").  Either may return nil or an error or panic; a   *)
(* custom middleware may do so without calling next, and whatever next     *)
(* gave it, but it calls next at most once.  A call that records the       *)
(* outcome may fail.  Workers share nothing but the chain, which does not  *)
(* change once they run, so one worker is enough.                          *)
(***************************************************************************)
EXTENDS Integers, Sequences, FiniteSets

CONSTANTS
  MaxAttempts,     \* the MaxAttempts field of the job
  Jitters,         \* what rand.Intn(30) may return
  MaxUsed          \* bound: middlewares added with Use

ASSUME ProcessAssumption ==
  /\ MaxAttempts \in Nat \ {0}
  /\ Jitters \subseteq 0..29
  /\ MaxUsed \in Nat

Usable == {"recovery", "timeout", "metrics", "custom"}
Answers == {"nil", "error", "panic"}
Results == Answers \cup {"none"}
Stages == {"config", "waiting", "in", "out", "returned", "acked", "dead", "stranded"}

VARIABLES
  middleware,          \* Pool.middleware
  registered,          \* whether the registry knows the job's type
  stage, depth,        \* where process() is; middlewares entered
  result,              \* what is being returned, or "none" on the way in
  attempts, delay,     \* the job's Attempts field; its last retry delay
  started, finished,   \* this attempt's log lines,
  counted,             \* its increments of jobsProcessed, by outcome,
  timers,              \* and its contexts that are not cancelled yet
  verdict              \* history: the last answer of the user's code in this
                       \* attempt, its outermost one on the way out

attemptVars == <<started, finished, counted, timers, verdict>>
jobVars == <<registered, attempts, delay>>
vars == <<middleware, stage, depth, result, jobVars, attemptVars>>

TypeOK ==
  /\ middleware \in Seq(Usable \cup {"logging"})
  /\ registered \in BOOLEAN
  /\ stage \in Stages
  /\ depth \in 0..Len(middleware)
  /\ result \in Results /\ verdict \in Results
  /\ attempts \in 0..MaxAttempts /\ delay \in Nat
  /\ started \in 0..1 /\ finished \in 0..started
  /\ counted \in [{"success", "failure"} -> 0..MaxUsed]
  /\ timers \in 0..MaxUsed

None == [success |-> 0, failure |-> 0]

Init ==
  /\ middleware = <<"logging">>
  /\ registered \in BOOLEAN
  /\ stage = "config" /\ depth = 0 /\ result = "none"
  /\ attempts = 0 /\ delay = 0
  /\ started = 0 /\ finished = 0 /\ counted = None /\ timers = 0
  /\ verdict = "none"

-----------------------------------------------------------------------------
(* Before Run                                                              *)

Use(m) ==
  /\ stage = "config"
  /\ Len(middleware) <= MaxUsed
  /\ middleware' = Append(middleware, m)
  /\ UNCHANGED <<stage, depth, result, jobVars, attemptVars>>

Start ==
  /\ stage = "config"
  /\ stage' = "waiting"
  /\ UNCHANGED <<middleware, depth, result, jobVars, attemptVars>>

-----------------------------------------------------------------------------
(* The way in                                                              *)

\* Mutant: the loop runs forward, so that the first middleware is innermost.
ChainForward(mws) ==
  LET h[n \in 0..Len(mws)] == IF n = 0 THEN <<"base">> ELSE <<mws[n]>> \o h[n - 1]
  IN  h[Len(mws)]

\* Chain wraps from the last middleware to the first; a handler is written as
\* the middlewares it passes, outermost first, and the base handler; h[n] is
\* the handler after n rounds of the loop.
Chain(mws) ==
  LET h[n \in 0..Len(mws)] ==
        IF n = 0 THEN <<"base">> ELSE <<mws[Len(mws) + 1 - n]>> \o h[n - 1]
  IN  h[Len(mws)]

\* A bookkeeping call that should bring the job to s.  One that fails or times
\* out before it is applied is only logged: the worker is done with the job, and
\* the broker keeps it as in flight.
Record(s) == stage' \in {s, "stranded"}

\* process(): no handler for the type, no attempt is counted.
NoHandler ==
  /\ stage = "waiting" /\ ~registered
  /\ Record("dead")
  /\ UNCHANGED <<middleware, depth, result, jobVars, attemptVars>>

Begin ==
  /\ stage = "waiting" /\ registered
  /\ stage' = "in" /\ depth' = 0 /\ result' = "none"
  /\ started' = 0 /\ finished' = 0 /\ counted' = None /\ timers' = 0
  /\ verdict' = "none"
  /\ UNCHANGED <<middleware, jobVars>>

\* What runs next on the way in, and what returns next on the way out.
Callee == Chain(middleware)[depth + 1]
Frame == Chain(middleware)[depth]

\* A middleware up to its call of next: logging writes "job started", timeout
\* derives a context.
Enter ==
  /\ stage = "in" /\ Callee # "base"
  /\ depth' = depth + 1
  /\ started' = IF Callee = "logging" THEN 1 ELSE started
  /\ timers' = IF Callee = "timeout" THEN timers + 1 ELSE timers
  /\ UNCHANGED <<middleware, stage, result, jobVars, finished, counted, verdict>>

\* The user's code answers r, and the way back begins.
Answer(r) ==
  /\ stage = "in"
  /\ stage' = "out" /\ result' = r /\ verdict' = r
  /\ UNCHANGED <<middleware, depth, jobVars, started, finished, counted, timers>>

\* A custom middleware that does not call next.
SkipNext(r) == Callee = "custom" /\ Answer(r)

CallHandler(r) == Callee = "base" /\ Answer(r)

-----------------------------------------------------------------------------
(* The way out: next has returned nil or an error, or a panic unwinds      *)

Leave(m) ==
  /\ stage = "out" /\ depth > 0 /\ Frame = m
  /\ depth' = depth - 1
  /\ UNCHANGED <<middleware, stage, jobVars, started>>

LeaveLogging ==
  /\ Leave("logging")
  /\ finished' = IF result = "panic" THEN finished ELSE 1
  /\ UNCHANGED <<result, counted, timers, verdict>>

\* The deferred recover.
LeaveRecovery ==
  /\ Leave("recovery")
  /\ result' = IF result = "panic" THEN "error" ELSE result
  /\ UNCHANGED <<finished, counted, timers, verdict>>

\* Mutant: cancel is called after next instead of deferred.
LeaveTimeoutNoDefer ==
  /\ Leave("timeout")
  /\ timers' = IF result = "panic" THEN timers ELSE timers - 1
  /\ UNCHANGED <<result, finished, counted, verdict>>

\* defer cancel()
LeaveTimeout ==
  /\ Leave("timeout")
  /\ timers' = timers - 1
  /\ UNCHANGED <<result, finished, counted, verdict>>

\* Mutant: the outcome is always "success".
LeaveMetricsSuccess ==
  /\ Leave("metrics")
  /\ counted' = IF result = "panic" THEN counted ELSE [counted EXCEPT !.success = @ + 1]
  /\ UNCHANGED <<result, finished, timers, verdict>>

LeaveMetrics ==
  /\ Leave("metrics")
  /\ \/ result = "panic" /\ UNCHANGED counted
     \/ result = "nil" /\ counted' = [counted EXCEPT !.success = @ + 1]
     \/ result = "error" /\ counted' = [counted EXCEPT !.failure = @ + 1]
  /\ UNCHANGED <<result, finished, timers, verdict>>

\* A custom middleware answers r after next, be it what next gave it, an error
\* or a panic of its own, or nil in place of either.
LeaveCustom(r) ==
  /\ Leave("custom")
  /\ result' = r /\ verdict' = r
  /\ UNCHANGED <<finished, counted, timers>>

\* Mutant: the recovered panic is not made an error.
RunHandlerSwallows ==
  /\ stage = "out" /\ depth = 0
  /\ result' = IF result = "panic" THEN "nil" ELSE result
  /\ stage' = "returned"
  /\ UNCHANGED <<middleware, depth, jobVars, attemptVars>>

\* runHandler's own recover.
RunHandler ==
  /\ stage = "out" /\ depth = 0
  /\ result' = IF result = "panic" THEN "error" ELSE result
  /\ stage' = "returned"
  /\ UNCHANGED <<middleware, depth, jobVars, attemptVars>>

-----------------------------------------------------------------------------
(* The outcome                                                             *)

Acknowledge ==
  /\ stage = "returned" /\ result = "nil"
  /\ Record("acked")
  /\ UNCHANGED <<middleware, depth, result, jobVars, attemptVars>>

\* Mutant: the attempt is multiplied instead of raised to the fourth power.
NextDelayLinear(attempt, jitter) == attempt * 4 + 15 + jitter * (attempt + 1)

\* retry.NextDelay, in seconds; the product is math.Pow(attempt, 4).
NextDelay(attempt, jitter) ==
  attempt * attempt * attempt * attempt + 15 + jitter * (attempt + 1)

\* Mutant: the attempt is not counted.
CountedAttemptsStale == attempts

\* job.Attempts++, the first thing fail does.
CountedAttempts == attempts + 1

\* Mutant: > for >=, one attempt more.
ExhaustedLate(n) == n > MaxAttempts

\* The condition that decides between the two branches of fail.
Exhausted(n) == n >= MaxAttempts

FailDead ==
  /\ stage = "returned" /\ result = "error" /\ Exhausted(CountedAttempts)
  /\ attempts' = CountedAttempts
  /\ Record("dead")
  /\ UNCHANGED <<middleware, depth, result, registered, delay, attemptVars>>

\* Requeue with the delay of this attempt.  A job that the broker took comes
\* back to a worker when its delay is over: that is the scheduler's and the
\* dispatcher's part.
FailRetry(jitter) ==
  /\ stage = "returned" /\ result = "error" /\ ~Exhausted(CountedAttempts)
  /\ attempts' = CountedAttempts
  /\ delay' = NextDelay(attempts', jitter)
  /\ Record("waiting")
  /\ UNCHANGED <<middleware, depth, result, registered, attemptVars>>

WorkerNext ==
  \/ NoHandler
  \/ Begin
  \/ Enter
  \/ \E r \in Answers : SkipNext(r)
  \/ \E r \in Answers : CallHandler(r)
  \/ LeaveLogging
  \/ LeaveRecovery
  \/ LeaveTimeout
  \/ LeaveMetrics
  \/ \E r \in Answers : LeaveCustom(r)
  \/ RunHandler
  \/ Acknowledge
  \/ FailDead
  \/ \E jitter \in Jitters : FailRetry(jitter)

Next ==
  \/ \E m \in Usable : Use(m)
  \/ Start
  \/ WorkerNext

\* A worker that has a job goes on with it; handlers return.
Spec == Init /\ [][Next]_vars /\ WF_vars(WorkerNext)

-----------------------------------------------------------------------------
(* Properties                                                              *)

\* The pool acts on the last word of the user's code, the handler's or that of
\* the outermost custom middleware: nothing but nil is acknowledged, and no nil
\* is a failure.  An error or a panic is never lost on the way, with or without
\* RecoveryMiddleware (runHandler's "last-resort safety net").
OutcomeIsVerdict ==
  /\ stage = "acked" => verdict = "nil"
  /\ stage = "dead" /\ registered => verdict \in {"error", "panic"}

\* Middleware i cannot be unwound by a panic: inside it there is a recovery,
\* with no custom middleware in between.
Shielded(i) ==
  \E r \in DOMAIN middleware :
    /\ r > i /\ middleware[r] = "recovery"
    /\ \A k \in DOMAIN middleware : i < k /\ k < r => middleware[k] # "custom"

\* Every "job started" has its "job finished" when a recovery is used that
\* nothing custom comes before: the pool's own logging is outermost ("sees the
\* job first and the final error last"), whatever else is used, and in any
\* order.  Without a recovery a panic leaves the line out.
LogsPaired == stage = "returned" /\ Shielded(1) => started = 1 /\ finished = 1

MetricsAt == {i \in DOMAIN middleware : middleware[i] = "metrics"}

\* The counters tell the outcome that the pool acts on, once per metrics
\* middleware, when a recovery is inside it and nothing custom outside it.
MetricsMatchOutcome ==
  /\ stage = "returned"
  /\ \A i \in MetricsAt : Shielded(i) /\ \A k \in 1..(i - 1) : middleware[k] # "custom"
  => counted = [success |-> IF result = "nil" THEN Cardinality(MetricsAt) ELSE 0,
                failure |-> IF result = "nil" THEN 0 ELSE Cardinality(MetricsAt)]

\* No attempt leaves a timer behind, panics included (TimeoutMiddleware's
\* deferred cancel).
TimersReleased == stage = "returned" => timers = 0

\* After the third failure every delay is longer than the one before, whatever
\* the jitter.  It says nothing of the first three (all there is with the default
\* of 3 attempts): the jitter grows with the attempt, and their ranges overlap
\* (up to 74 s and 118 s after attempts 1 and 2, and not the 45 s and 91 s of the
\* comment above NextDelay).
BackoffGrows == [][attempts >= 3 /\ delay' # delay => delay' > delay]_vars

\* A job that reached a worker is not tried for ever, whatever its handler and
\* its middleware do: it is acknowledged or dead in the end, or in flight for
\* good because the call that recorded an outcome failed and was only logged.
EveryJobEnds == stage = "waiting" ~> stage \in {"acked", "dead", "stranded"}
=============================================================================
