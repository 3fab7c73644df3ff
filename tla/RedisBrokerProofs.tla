------------------------- MODULE RedisBrokerProofs -------------------------
(***************************************************************************)
(* Safety of the Redis broker for any number of jobs, queues, consumers,   *)
(* schedulers and admins: Spec keeps IInv, and IInv implies the safety     *)
(* invariants that RedisCore.cfg checks on a small instance.               *)
(***************************************************************************)
EXTENDS RedisBroker, ProofLemmas

\* A queue lists an ID once, and only IDs of jobs that name this queue.
QueueInv(q) ==
  /\ Distinct(queue[q])
  /\ \A j \in Elems(queue[q]) : QueueOf[j] = q

\* An ID is in one structure at a time.
OnePlace(j) ==
  /\ InQueue(j) => scheduled[j] = Absent /\ retry[j] = Absent /\ dead[j] = 0 /\ j \notin active
  /\ scheduled[j] # Absent => retry[j] = Absent /\ dead[j] = 0 /\ j \notin active
  /\ retry[j] # Absent => dead[j] = 0 /\ j \notin active
  /\ dead[j] > 0 => j \notin active
  /\ dead[j] <= 1

\* The life of a job: unborn, then referenced from somewhere, then succeeded.
Lifecycle(j) ==
  /\ Located(j) <=> (born[j] # Absent /\ j \notin succeeded)
  /\ j \in succeeded => born[j] # Absent
  /\ born[j] = Absent => record[j] = NoRecord /\ runs[j] = 0
  /\ Located(j) => record[j] # NoRecord
  /\ dead[j] > 0 <=> (record[j] # NoRecord /\ record[j].status = "dead")

\* A job with runs to spare: every run so far is counted in its record.
CanRun(j) == runs[j] <= record[j].attempts /\ record[j].attempts < MaxAttempts[j]

Budget(j) ==
  /\ runs[j] <= MaxAttempts[j]
  /\ InQueue(j) \/ scheduled[j] # Absent \/ retry[j] # Absent => CanRun(j)

\* A consumer between Dequeue and the outcome holds an in-flight job, and the
\* copy it works on is what the store holds.
ConsumerInv(c) ==
  /\ pc[c] \in {"popped", "held", "running"} => holds[c] \in Jobs /\ holds[c] \in active
  /\ pc[c] \in {"held", "running"} => copy[c] = record[holds[c]]
  /\ pc[c] \in {"popped", "held"} => CanRun(holds[c])
  /\ pc[c] = "running" => /\ runs[holds[c]] <= record[holds[c]].attempts + 1
                          /\ record[holds[c]].attempts < MaxAttempts[holds[c]]
  /\ pc[c] = "acking" => holds[c] \in Jobs /\ holds[c] \in succeeded

AdminInv(a) ==
  call[a] = "retry" => /\ target[a] \in Jobs
                       /\ reset[a] \in JobRecord
                       /\ reset[a].status = "pending"
                       /\ reset[a].attempts = 0

IInv ==
  /\ TypeOK
  /\ \A q \in Queues : QueueInv(q)
  /\ \A j \in Jobs : OnePlace(j) /\ Lifecycle(j) /\ Budget(j)
  /\ \A c \in Consumers : ConsumerInv(c)
  /\ \A a \in Admins : AdminInv(a)
  /\ OneOwner

-----------------------------------------------------------------------------
(* Queues                                                                  *)

\* The three ways a step changes the queues, in terms of InQueue.
LEMMA LPushFacts ==
  ASSUME StoreTypeOK, \A q \in Queues : QueueInv(q), NEW j \in Jobs, ~InQueue(j), LPush(j)
  PROVE  /\ queue' \in [Queues -> Seq(Jobs)]
         /\ \A q \in Queues : QueueInv(q)'
         /\ \A k \in Jobs : InQueue(k)' <=> (InQueue(k) \/ k = j)
<1> DEFINE s == queue[QueueOf[j]]
<1>1. QueueOf[j] \in Queues /\ s \in Seq(Jobs)
  BY StoreAssumption DEF StoreTypeOK
<1>2. Distinct(s) /\ j \notin Elems(s)
  BY <1>1 DEF QueueInv, InQueue, Elems
<1>3. /\ Append(s, j) \in Seq(Jobs)
      /\ Distinct(Append(s, j))
      /\ Elems(Append(s, j)) = Elems(s) \cup {j}
  BY <1>1, <1>2, AppendFacts
<1>4. /\ queue' = [queue EXCEPT ![QueueOf[j]] = Append(s, j)]
      /\ queue'[QueueOf[j]] = Append(s, j)
      /\ \A q \in Queues : q # QueueOf[j] => queue'[q] = queue[q]
  BY <1>1 DEF LPush, StoreTypeOK
<1>5. queue' \in [Queues -> Seq(Jobs)]
  BY <1>1, <1>3, <1>4 DEF StoreTypeOK
<1>6. ASSUME NEW q \in Queues PROVE QueueInv(q)'
  <2>1. CASE q = QueueOf[j]
    BY <1>3, <1>4, <2>1 DEF QueueInv
  <2>2. CASE q # QueueOf[j]
    BY <1>4, <2>2 DEF QueueInv
  <2> QED BY <2>1, <2>2
<1>7. ASSUME NEW k \in Jobs PROVE InQueue(k)' <=> (InQueue(k) \/ k = j)
  <2>1. InQueue(k)' <=> k \in Elems(queue'[QueueOf[k]])
    BY DEF InQueue, Elems
  <2>2. InQueue(k) <=> k \in Elems(queue[QueueOf[k]])
    BY DEF InQueue, Elems
  <2>3. QueueOf[k] \in Queues
    BY StoreAssumption
  <2> QED BY <1>3, <1>4, <2>1, <2>2, <2>3
<1> QED BY <1>5, <1>6, <1>7

LEMMA RPopFacts ==
  ASSUME StoreTypeOK, \A q \in Queues : QueueInv(q), NEW r \in Queues, RpopZadd(r)
  PROVE  /\ queue' \in [Queues -> Seq(Jobs)]
         /\ \A q \in Queues : QueueInv(q)'
         /\ Head(queue[r]) \in Jobs
         /\ InQueue(Head(queue[r]))
         /\ \A k \in Jobs : InQueue(k)' <=> (InQueue(k) /\ k # Head(queue[r]))
<1> DEFINE s == queue[r]
<1>1. s \in Seq(Jobs) /\ s # <<>> /\ Distinct(s)
  BY DEF StoreTypeOK, QueueInv, RpopZadd
<1>2. /\ Tail(s) \in Seq(Jobs) /\ Head(s) \in Elems(s) /\ Head(s) \in Jobs
      /\ Distinct(Tail(s)) /\ Elems(Tail(s)) = Elems(s) \ {Head(s)}
  BY <1>1, TailFacts
<1>3. /\ queue' = [queue EXCEPT ![r] = Tail(s)]
      /\ queue'[r] = Tail(s)
      /\ \A q \in Queues : q # r => queue'[q] = queue[q]
  BY DEF RpopZadd, StoreTypeOK
<1>4. queue' \in [Queues -> Seq(Jobs)]
  BY <1>2, <1>3 DEF StoreTypeOK
<1>5. QueueOf[Head(s)] = r /\ InQueue(Head(s))
  BY <1>2 DEF QueueInv, InQueue, Elems
<1>6. ASSUME NEW q \in Queues PROVE QueueInv(q)'
  <2>1. CASE q = r
    BY <1>2, <1>3, <2>1 DEF QueueInv
  <2>2. CASE q # r
    BY <1>3, <2>2 DEF QueueInv
  <2> QED BY <2>1, <2>2
<1>7. ASSUME NEW k \in Jobs PROVE InQueue(k)' <=> (InQueue(k) /\ k # Head(s))
  <2>1. InQueue(k)' <=> k \in Elems(queue'[QueueOf[k]])
    BY DEF InQueue, Elems
  <2>2. InQueue(k) <=> k \in Elems(queue[QueueOf[k]])
    BY DEF InQueue, Elems
  <2>3. QueueOf[k] \in Queues
    BY StoreAssumption
  <2> QED BY <1>2, <1>3, <1>5, <2>1, <2>2, <2>3
<1> QED BY <1>2, <1>4, <1>5, <1>6, <1>7

LEMMA SameQueues ==
  ASSUME UNCHANGED queue
  PROVE  /\ \A k \in Jobs : InQueue(k)' <=> InQueue(k)
         /\ \A q \in Queues : QueueInv(q)' <=> QueueInv(q)
BY DEF InQueue, QueueInv

-----------------------------------------------------------------------------
(* Times and records                                                       *)

LEMMA UnixNat ==
  ASSUME NEW t \in Nat
  PROVE  Unix(t) \in Nat /\ Unix(t) # Absent
BY StoreAssumption DEF Unix, Absent

LEMMA NewJobFacts ==
  ASSUME NEW t \in Nat
  PROVE  /\ NewJob(t) \in JobRecord
         /\ NewJob(t) # NoRecord
         /\ NewJob(t).status = "pending"
         /\ NewJob(t).attempts = 0
         /\ NewJob(t).processAt = t
<1>1. NewJob(t) \in JobRecord
  BY DEF NewJob, JobRecord, Status
<1> QED BY <1>1, StoreAssumption DEF NewJob

\* What Pool.fail and process() write back.
LEMMA FailedFacts ==
  ASSUME NEW c, copy[c] \in JobRecord, NEW st \in Status
  PROVE  /\ Failed(c, st) \in JobRecord
         /\ Failed(c, st) # NoRecord
         /\ Failed(c, st).status = st
         /\ Failed(c, st).attempts = copy[c].attempts + 1
<1> DEFINE n == copy[c].attempts + 1
           r == [copy[c] EXCEPT !.attempts = n, !.status = st]
<1>1. n \in Nat
  BY DEF JobRecord
<1>2. Failed(c, st) = r
  BY DEF Failed
<1> HIDE DEF n
<1>3. r \in JobRecord /\ r.status = st /\ r.attempts = n
  BY <1>1 DEF JobRecord
<1> QED BY <1>2, <1>3, StoreAssumption DEF n

LEMMA MarkedDeadFacts ==
  ASSUME NEW rec \in JobRecord
  PROVE  /\ [rec EXCEPT !.status = "dead"] \in JobRecord
         /\ [rec EXCEPT !.status = "dead"] # NoRecord
         /\ [rec EXCEPT !.status = "dead"].status = "dead"
<1>1. [rec EXCEPT !.status = "dead"] \in JobRecord
  BY DEF JobRecord, Status
<1> QED BY <1>1, StoreAssumption DEF JobRecord

LEMMA ResetFacts ==
  ASSUME NEW rec \in JobRecord, NEW t \in Nat
  PROVE  LET r == [rec EXCEPT !.status = "pending", !.attempts = 0, !.processAt = t]
         IN  r \in JobRecord /\ r.status = "pending" /\ r.attempts = 0
<1> DEFINE r == [rec EXCEPT !.status = "pending", !.attempts = 0, !.processAt = t]
<1>1. r \in JobRecord /\ r.status = "pending" /\ r.attempts = 0
  BY DEF JobRecord, Status
<1> QED BY <1>1

-----------------------------------------------------------------------------
(* The invariant                                                           *)

LEMMA InitIInv == Init => IInv
<1> SUFFICES ASSUME Init PROVE IInv
  OBVIOUS
<1> USE DEF Init, StoreInit
<1>1. TypeOK
  BY StoreAssumption, BrokerAssumption
  DEF TypeOK, StoreTypeOK, Absent, Sources, DeleteCommands
<1>2. ASSUME NEW q \in Queues PROVE QueueInv(q)
  BY DEF QueueInv, Distinct, Elems
<1>3. ASSUME NEW j \in Jobs PROVE OnePlace(j) /\ Lifecycle(j) /\ Budget(j)
  <2>1. ~InQueue(j)
    BY StoreAssumption DEF InQueue
  <2> QED BY <2>1, BrokerAssumption DEF OnePlace, Lifecycle, Budget, Located, Absent
<1>4. ASSUME NEW c \in Consumers PROVE ConsumerInv(c)
  BY DEF ConsumerInv
<1>5. ASSUME NEW a \in Admins PROVE AdminInv(a)
  BY DEF AdminInv
<1>6. OneOwner
  BY DEF OneOwner, Owns
<1> QED BY <1>1, <1>2, <1>3, <1>4, <1>5, <1>6 DEF IInv

\* A fresh ID becomes a job that is queued or scheduled.
LEMMA EnqueueIInv ==
  ASSUME IInv, NEW j \in Jobs, NEW delay \in EnqueueDelays, Enqueue(j, delay)
  PROVE  IInv'
<1> USE DEF IInv
<1> DEFINE rec == NewJob(now + delay)
<1>1. now + delay \in Nat /\ now + delay # Absent
  BY BrokerAssumption DEF TypeOK, StoreTypeOK, Absent
<1>2. /\ rec \in JobRecord /\ rec # NoRecord /\ rec.status = "pending" /\ rec.attempts = 0
      /\ rec.processAt = now + delay
  BY <1>1, NewJobFacts
<1>3. Unix(rec.processAt) \in Nat /\ Unix(rec.processAt) # Absent
  BY <1>1, <1>2, UnixNat
<1> HIDE DEF rec
<1>4. /\ SetBranchLpushZadd(j, rec)
      /\ born[j] = Absent
      /\ born' = [born EXCEPT ![j] = now + delay]
      /\ dueAt' = [dueAt EXCEPT ![j] = now + delay]
      /\ UNCHANGED <<now, consumerVars, schedulerVars, adminVars,
                      runs, succeeded, deleteBegun, deleteDone, resends>>
  BY DEF Enqueue, rec
<1>5. ~Located(j) /\ record[j] = NoRecord /\ runs[j] = 0 /\ j \notin succeeded
  BY <1>4 DEF Lifecycle
<1>6. ~InQueue(j) /\ scheduled[j] = Absent /\ retry[j] = Absent /\ dead[j] = 0 /\ j \notin active
  BY <1>5 DEF Located, TypeOK, StoreTypeOK
<1>7. /\ record' = [record EXCEPT ![j] = rec]
      /\ UNCHANGED <<retry, dead, active>>
      /\ \/ scheduled' = scheduled /\ LPush(j)
         \/ queue' = queue /\ scheduled' = [scheduled EXCEPT ![j] = Unix(rec.processAt)]
  BY <1>4 DEF SetBranchLpushZadd, Set
<1>8. /\ queue' \in [Queues -> Seq(Jobs)]
      /\ \A q \in Queues : QueueInv(q)'
      /\ \A k \in Jobs : k # j => (InQueue(k)' <=> InQueue(k)) /\ scheduled'[k] = scheduled[k]
      /\ scheduled' \in [Jobs -> Nat \cup {Absent}]
      /\ \/ InQueue(j)' /\ scheduled'[j] = Absent
         \/ ~InQueue(j)' /\ scheduled'[j] # Absent
  <2>1. CASE scheduled' = scheduled /\ LPush(j)
    BY <1>6, <2>1, LPushFacts DEF TypeOK, StoreTypeOK
  <2>2. CASE queue' = queue /\ scheduled' = [scheduled EXCEPT ![j] = Unix(rec.processAt)]
    BY <1>3, <1>6, <2>2, SameQueues DEF TypeOK, StoreTypeOK
  <2> QED BY <1>7, <2>1, <2>2
<1>9. TypeOK'
  BY <1>1, <1>2, <1>4, <1>7, <1>8
  DEF TypeOK, StoreTypeOK, consumerVars, schedulerVars, adminVars
<1>10. ASSUME NEW k \in Jobs PROVE OnePlace(k)' /\ Lifecycle(k)' /\ Budget(k)'
  <2>1. CASE k = j
    <3>1. /\ record'[j] = rec /\ born'[j] = now + delay /\ runs'[j] = 0 /\ j \notin succeeded'
          /\ retry'[j] = Absent /\ dead'[j] = 0 /\ j \notin active'
      BY <1>4, <1>5, <1>6, <1>7 DEF TypeOK, StoreTypeOK
    <3>2. OnePlace(j)'
      BY <1>8, <3>1 DEF OnePlace
    <3>3. Lifecycle(j)'
      BY <1>1, <1>2, <1>8, <3>1 DEF Lifecycle, Located
    <3>4. Budget(j)'
      BY <1>2, <3>1, BrokerAssumption DEF Budget, CanRun
    <3> QED BY <2>1, <3>2, <3>3, <3>4
  <2>2. CASE k # j
    BY <1>4, <1>7, <1>8, <2>2
    DEF OnePlace, Lifecycle, Budget, Located, CanRun, TypeOK, StoreTypeOK
  <2> QED BY <2>1, <2>2
<1>11. ASSUME NEW c \in Consumers PROVE ConsumerInv(c)'
  BY <1>4, <1>5, <1>6, <1>7
  DEF ConsumerInv, CanRun, TypeOK, StoreTypeOK, consumerVars
<1>12. ASSUME NEW a \in Admins PROVE AdminInv(a)'
  BY <1>4 DEF AdminInv, adminVars
<1>13. OneOwner'
  BY <1>4 DEF OneOwner, Owns, consumerVars
<1> QED BY <1>8, <1>9, <1>10, <1>11, <1>12, <1>13

\* What a consumer knows of the job it owns: it is in flight and nowhere else,
\* it is stored, and no other consumer owns it.
LEMMA OwnedFacts ==
  ASSUME IInv, NEW c \in Consumers, pc[c] \in {"popped", "held", "running"}
  PROVE  /\ holds[c] \in Jobs
         /\ record[holds[c]] \in JobRecord
         /\ holds[c] \in active
         /\ ~InQueue(holds[c])
         /\ scheduled[holds[c]] = Absent /\ retry[holds[c]] = Absent /\ dead[holds[c]] = 0
         /\ born[holds[c]] # Absent /\ holds[c] \notin succeeded
         /\ \A d \in Consumers : d # c /\ pc[d] \in {"popped", "held", "running"}
                                 => holds[d] # holds[c]
         /\ \A d \in Consumers : pc[d] = "acking" => holds[d] # holds[c]
<1> DEFINE j == holds[c]
<1>1. j \in Jobs /\ j \in active
  BY DEF IInv, ConsumerInv
<1>2. OnePlace(j) /\ Lifecycle(j)
  BY <1>1 DEF IInv
<1>3. Located(j)
  BY <1>1 DEF Located
<1>4. record[j] \in JobRecord
  BY <1>1, <1>2, <1>3 DEF Lifecycle, IInv, TypeOK, StoreTypeOK
<1>5. dead[j] = 0
  BY <1>1, <1>2 DEF OnePlace, IInv, TypeOK, StoreTypeOK
<1>6. ~InQueue(j) /\ scheduled[j] = Absent /\ retry[j] = Absent
  BY <1>1, <1>2 DEF OnePlace
<1>7. born[j] # Absent /\ j \notin succeeded
  BY <1>2, <1>3 DEF Lifecycle
<1>8. \A d \in Consumers : d # c /\ pc[d] \in {"popped", "held", "running"} => holds[d] # j
  BY <1>1 DEF IInv, OneOwner, Owns
<1>9. \A d \in Consumers : pc[d] = "acking" => holds[d] # j
  BY <1>7 DEF IInv, ConsumerInv
<1> QED BY <1>1, <1>4, <1>5, <1>6, <1>7, <1>8, <1>9

\* The popped ID moves from its queue to the in-flight set, to one owner.
LEMMA DequeuePopIInv ==
  ASSUME IInv, NEW c \in Consumers, NEW q \in Queues, DequeuePop(c, q)
  PROVE  IInv'
<1> USE DEF IInv
<1> DEFINE j == Head(queue[q])
<1>1. /\ pc[c] = "idle" /\ RpopZadd(q)
      /\ pc' = [pc EXCEPT ![c] = "popped"]
      /\ holds' = [holds EXCEPT ![c] = j]
      /\ active' = active \cup {j}
      /\ UNCHANGED <<record, scheduled, retry, dead, now, copy,
                      schedulerVars, adminVars, history>>
  BY DEF DequeuePop, Goto, RpopZadd
<1>2. /\ queue' \in [Queues -> Seq(Jobs)]
      /\ \A r \in Queues : QueueInv(r)'
      /\ j \in Jobs /\ InQueue(j)
      /\ \A k \in Jobs : InQueue(k)' <=> (InQueue(k) /\ k # j)
  BY <1>1, RPopFacts DEF TypeOK
<1> HIDE DEF j
<1>3. OnePlace(j) /\ Lifecycle(j) /\ Budget(j) /\ j \notin active
  BY <1>2 DEF OnePlace
<1>4. TypeOK'
  BY <1>1, <1>2 DEF TypeOK, StoreTypeOK, schedulerVars, adminVars, history
<1>5. ASSUME NEW k \in Jobs PROVE OnePlace(k)' /\ Lifecycle(k)' /\ Budget(k)'
  BY <1>1, <1>2, <1>3 DEF OnePlace, Lifecycle, Budget, Located, CanRun, history
<1>6. ASSUME NEW d \in Consumers PROVE ConsumerInv(d)'
  <2>1. CASE d = c
    BY <1>1, <1>2, <1>3, <2>1 DEF ConsumerInv, Budget, CanRun, TypeOK, history
  <2>2. CASE d # c
    BY <1>1, <2>2 DEF ConsumerInv, CanRun, TypeOK, history
  <2> QED BY <2>1, <2>2
<1>7. ASSUME NEW a \in Admins PROVE AdminInv(a)'
  BY <1>1 DEF AdminInv, adminVars
<1>8. OneOwner'
  <2>1. \A d \in Consumers : pc[d] \in {"popped", "held", "running"} => holds[d] # j
    BY <1>3 DEF ConsumerInv
  <2> QED BY <1>1, <2>1 DEF OneOwner, Owns, TypeOK
<1> QED BY <1>2, <1>4, <1>5, <1>6, <1>7, <1>8

\* The copy a consumer works on is the record as stored.
LEMMA DequeueGetIInv ==
  ASSUME IInv, NEW c \in Consumers, DequeueGet(c)
  PROVE  IInv'
<1> USE DEF IInv
<1>1. /\ pc[c] = "popped"
      /\ copy' = [copy EXCEPT ![c] = record[holds[c]]]
      /\ pc' = [pc EXCEPT ![c] = "held"]
      /\ UNCHANGED <<record, queue, scheduled, retry, dead, active, now, holds,
                      schedulerVars, adminVars, history>>
  BY DEF DequeueGet, Goto, store
<1>2. holds[c] \in Jobs /\ record[holds[c]] \in JobRecord
  BY <1>1, OwnedFacts
<1>3. TypeOK'
  BY <1>1, <1>2 DEF TypeOK, StoreTypeOK, schedulerVars, adminVars, history
<1>4. /\ \A k \in Jobs : InQueue(k)' <=> InQueue(k)
      /\ \A r \in Queues : QueueInv(r)'
  BY <1>1, SameQueues
<1>5. ASSUME NEW k \in Jobs PROVE OnePlace(k)' /\ Lifecycle(k)' /\ Budget(k)'
  BY <1>1, <1>4 DEF OnePlace, Lifecycle, Budget, Located, CanRun, history
<1>6. ASSUME NEW d \in Consumers PROVE ConsumerInv(d)'
  BY <1>1 DEF ConsumerInv, CanRun, TypeOK, history
<1>7. ASSUME NEW a \in Admins PROVE AdminInv(a)'
  BY <1>1 DEF AdminInv, adminVars
<1>8. OneOwner'
  BY <1>1 DEF OneOwner, Owns, TypeOK
<1> QED BY <1>3, <1>4, <1>5, <1>6, <1>7, <1>8

\* Starting the handler spends one run of the job's budget.
LEMMA StartHandlerIInv ==
  ASSUME IInv, NEW c \in Consumers, StartHandler(c)
  PROVE  IInv'
<1> USE DEF IInv
<1> DEFINE j == holds[c]
<1>1. /\ pc[c] = "held"
      /\ pc' = [pc EXCEPT ![c] = "running"]
      /\ runs' = [runs EXCEPT ![j] = @ + 1]
      /\ UNCHANGED <<record, queue, scheduled, retry, dead, active, now, holds, copy,
                      schedulerVars, adminVars,
                      born, dueAt, succeeded, deleteBegun, deleteDone, resends>>
  BY DEF StartHandler, Goto, store
<1>2. /\ j \in Jobs /\ record[j] \in JobRecord /\ ~InQueue(j) /\ born[j] # Absent
      /\ scheduled[j] = Absent /\ retry[j] = Absent
      /\ \A d \in Consumers : d # c /\ pc[d] \in {"popped", "held", "running"} => holds[d] # j
  BY <1>1, OwnedFacts
<1>3. /\ runs[j] <= record[j].attempts /\ record[j].attempts < MaxAttempts[j]
      /\ runs[j] \in Nat /\ record[j].attempts \in Nat /\ MaxAttempts[j] \in Nat
  BY <1>1, <1>2, BrokerAssumption DEF ConsumerInv, CanRun, TypeOK, JobRecord
<1>4. runs' \in [Jobs -> Nat] /\ runs'[j] = runs[j] + 1
      /\ \A k \in Jobs : k # j => runs'[k] = runs[k]
  BY <1>1, <1>2, <1>3 DEF TypeOK
<1> HIDE DEF j
<1>5. TypeOK'
  BY <1>1, <1>4 DEF TypeOK, StoreTypeOK, schedulerVars, adminVars
<1>6. /\ \A k \in Jobs : InQueue(k)' <=> InQueue(k)
      /\ \A r \in Queues : QueueInv(r)'
  BY <1>1, SameQueues
<1>7. ASSUME NEW k \in Jobs PROVE OnePlace(k)' /\ Lifecycle(k)' /\ Budget(k)'
  <2>1. CASE k = j
    BY <1>1, <1>2, <1>3, <1>4, <1>6, <2>1
    DEF OnePlace, Lifecycle, Budget, Located
  <2>2. CASE k # j
    BY <1>1, <1>4, <1>6, <2>2 DEF OnePlace, Lifecycle, Budget, Located, CanRun
  <2> QED BY <2>1, <2>2
<1>8. ASSUME NEW d \in Consumers PROVE ConsumerInv(d)'
  <2>1. CASE d = c
    BY <1>1, <1>2, <1>3, <1>4, <2>1 DEF ConsumerInv, TypeOK, j
  <2>2. CASE d # c
    BY <1>1, <1>2, <1>4, <2>2 DEF ConsumerInv, CanRun, TypeOK
  <2> QED BY <2>1, <2>2
<1>9. ASSUME NEW a \in Admins PROVE AdminInv(a)'
  BY <1>1 DEF AdminInv, adminVars
<1>10. OneOwner'
  BY <1>1 DEF OneOwner, Owns, TypeOK
<1> QED BY <1>5, <1>6, <1>7, <1>8, <1>9, <1>10

\* MoveToDeadLetter, called by process() and by Pool.fail.
LEMMA DeadLetterIInv ==
  ASSUME IInv, NEW c \in Consumers, pc[c] \in {"held", "running"},
         NEW rec \in JobRecord, rec.status = "dead",
         SetLpushZrem(holds[c], rec), Leave(c),
         UNCHANGED <<now, schedulerVars, adminVars, history>>
  PROVE  IInv'
<1> USE DEF IInv
<1> DEFINE j == holds[c]
<1>1. /\ pc' = [pc EXCEPT ![c] = "idle"]
      /\ holds' = [holds EXCEPT ![c] = NoJob]
      /\ copy' = [copy EXCEPT ![c] = NoRecord]
      /\ record' = [record EXCEPT ![j] = rec]
      /\ dead' = [dead EXCEPT ![j] = @ + 1]
      /\ active' = active \ {j}
      /\ UNCHANGED <<queue, scheduled, retry>>
  BY DEF Leave, Goto, SetLpushZrem, Set
<1>2. /\ j \in Jobs /\ dead[j] = 0 /\ born[j] # Absent /\ j \notin succeeded
      /\ ~InQueue(j) /\ scheduled[j] = Absent /\ retry[j] = Absent
      /\ \A d \in Consumers : d # c /\ pc[d] \in {"popped", "held", "running"} => holds[d] # j
  BY OwnedFacts
<1>3. rec # NoRecord
  BY StoreAssumption
<1> HIDE DEF j
<1>4. /\ record'[j] = rec /\ dead'[j] = 1 /\ dead' \in [Jobs -> Nat]
      /\ \A k \in Jobs : k # j => record'[k] = record[k] /\ dead'[k] = dead[k]
  BY <1>1, <1>2 DEF TypeOK, StoreTypeOK
<1>5. TypeOK'
  BY <1>1, <1>2, <1>4 DEF TypeOK, StoreTypeOK, schedulerVars, adminVars, history
<1>6. /\ \A k \in Jobs : InQueue(k)' <=> InQueue(k)
      /\ \A r \in Queues : QueueInv(r)'
  BY <1>1, SameQueues
<1>7. ASSUME NEW k \in Jobs PROVE OnePlace(k)' /\ Lifecycle(k)' /\ Budget(k)'
  <2>1. CASE k = j
    BY <1>1, <1>2, <1>3, <1>4, <1>6, <2>1
    DEF OnePlace, Lifecycle, Budget, Located, history
  <2>2. CASE k # j
    BY <1>1, <1>4, <1>6, <2>2 DEF OnePlace, Lifecycle, Budget, Located, CanRun, history
  <2> QED BY <2>1, <2>2
<1>8. ASSUME NEW d \in Consumers PROVE ConsumerInv(d)'
  <2>1. CASE d = c
    BY <1>1, <2>1 DEF ConsumerInv, TypeOK
  <2>2. CASE d # c
    BY <1>1, <1>2, <1>4, <2>2 DEF ConsumerInv, CanRun, TypeOK, history
  <2> QED BY <2>1, <2>2
<1>9. ASSUME NEW a \in Admins PROVE AdminInv(a)'
  BY DEF AdminInv, adminVars
<1>10. OneOwner'
  BY <1>1 DEF OneOwner, Owns, TypeOK
<1> QED BY <1>5, <1>6, <1>7, <1>8, <1>9, <1>10

LEMMA NoHandlerIInv ==
  ASSUME IInv, NEW c \in Consumers, NoHandler(c)
  PROVE  IInv'
<1> DEFINE rec == [copy[c] EXCEPT !.status = "dead"]
<1>1. pc[c] = "held" /\ SetLpushZrem(holds[c], rec) /\ Leave(c)
      /\ UNCHANGED <<now, schedulerVars, adminVars, history>>
  BY DEF NoHandler
<1>2. copy[c] \in JobRecord
  BY <1>1, OwnedFacts DEF IInv, ConsumerInv
<1>3. rec \in JobRecord /\ rec.status = "dead"
  BY <1>2, MarkedDeadFacts
<1> HIDE DEF rec
<1> QED BY <1>1, <1>3, DeadLetterIInv

LEMMA FailDeadIInv ==
  ASSUME IInv, NEW c \in Consumers, FailDead(c)
  PROVE  IInv'
<1> DEFINE rec == Failed(c, "dead")
<1>1. pc[c] = "running" /\ SetLpushZrem(holds[c], rec) /\ Leave(c)
      /\ UNCHANGED <<now, schedulerVars, adminVars, history>>
  BY DEF FailDead
<1>2. copy[c] \in JobRecord
  BY <1>1, OwnedFacts DEF IInv, ConsumerInv
<1>3. rec \in JobRecord /\ rec.status = "dead"
  BY <1>2, FailedFacts DEF Status
<1> HIDE DEF rec
<1> QED BY <1>1, <1>3, DeadLetterIInv

\* A failed job with attempts left moves from in-flight to the retry set.
LEMMA FailRequeueIInv ==
  ASSUME IInv, NEW c \in Consumers, NEW delay \in RetryDelays, FailRequeue(c, delay)
  PROVE  IInv'
<1> USE DEF IInv
<1> DEFINE j == holds[c]
           rec == Failed(c, "retry")
           at == Unix(now + delay)
<1>1. /\ pc[c] = "running"
      /\ pc' = [pc EXCEPT ![c] = "idle"]
      /\ holds' = [holds EXCEPT ![c] = NoJob]
      /\ copy' = [copy EXCEPT ![c] = NoRecord]
      /\ record' = [record EXCEPT ![j] = rec]
      /\ retry' = [retry EXCEPT ![j] = at]
      /\ active' = active \ {j}
      /\ dueAt' = [dueAt EXCEPT ![j] = now + delay]
      /\ ~(copy[c].attempts + 1 >= MaxAttempts[j])
      /\ UNCHANGED <<queue, scheduled, dead, now, schedulerVars, adminVars,
                      born, runs, succeeded, deleteBegun, deleteDone, resends>>
  BY DEF FailRequeue, Leave, Goto, SetZaddZrem, Set, Exhausted
<1>2. /\ j \in Jobs /\ dead[j] = 0 /\ born[j] # Absent /\ j \notin succeeded
      /\ ~InQueue(j) /\ scheduled[j] = Absent /\ record[j] \in JobRecord
      /\ \A d \in Consumers : d # c /\ pc[d] \in {"popped", "held", "running"} => holds[d] # j
  BY <1>1, OwnedFacts
<1>3. copy[c] = record[j] /\ runs[j] <= copy[c].attempts + 1
  BY <1>1 DEF ConsumerInv
<1>4. rec \in JobRecord /\ rec # NoRecord /\ rec.status = "retry"
      /\ rec.attempts = copy[c].attempts + 1
  BY <1>2, <1>3, FailedFacts DEF Status
<1>5. now + delay \in Nat /\ at \in Nat /\ at # Absent
  BY BrokerAssumption, UnixNat DEF TypeOK, StoreTypeOK
<1>6. runs[j] <= rec.attempts /\ rec.attempts < MaxAttempts[j] /\ runs[j] <= MaxAttempts[j]
  <2>1. copy[c].attempts \in Nat /\ MaxAttempts[j] \in Nat /\ runs[j] \in Nat
    BY <1>2, <1>3, BrokerAssumption DEF JobRecord, TypeOK
  <2> QED BY <1>1, <1>3, <1>4, <2>1
<1> HIDE DEF j, rec, at
<1>7. /\ record'[j] = rec /\ retry'[j] = at
      /\ \A k \in Jobs : k # j => record'[k] = record[k] /\ retry'[k] = retry[k]
  BY <1>1, <1>2 DEF TypeOK, StoreTypeOK
<1>8. TypeOK'
  BY <1>1, <1>2, <1>4, <1>5 DEF TypeOK, StoreTypeOK, schedulerVars, adminVars
<1>9. /\ \A k \in Jobs : InQueue(k)' <=> InQueue(k)
      /\ \A r \in Queues : QueueInv(r)'
  BY <1>1, SameQueues
<1>10. ASSUME NEW k \in Jobs PROVE OnePlace(k)' /\ Lifecycle(k)' /\ Budget(k)'
  <2>1. CASE k = j
    BY <1>1, <1>2, <1>4, <1>5, <1>6, <1>7, <1>9, <2>1
    DEF OnePlace, Lifecycle, Budget, CanRun, Located
  <2>2. CASE k # j
    BY <1>1, <1>7, <1>9, <2>2 DEF OnePlace, Lifecycle, Budget, Located, CanRun
  <2> QED BY <2>1, <2>2
<1>11. ASSUME NEW d \in Consumers PROVE ConsumerInv(d)'
  <2>1. CASE d = c
    BY <1>1, <2>1 DEF ConsumerInv, TypeOK
  <2>2. CASE d # c
    BY <1>1, <1>2, <1>7, <2>2 DEF ConsumerInv, CanRun, TypeOK
  <2> QED BY <2>1, <2>2
<1>12. ASSUME NEW a \in Admins PROVE AdminInv(a)'
  BY <1>1 DEF AdminInv, adminVars
<1>13. OneOwner'
  BY <1>1 DEF OneOwner, Owns, TypeOK
<1> QED BY <1>8, <1>9, <1>10, <1>11, <1>12, <1>13

\* Acknowledge's ZREM takes the job out of its only place.
LEMMA AcknowledgeZremIInv ==
  ASSUME IInv, NEW c \in Consumers, AcknowledgeZrem(c)
  PROVE  IInv'
<1> USE DEF IInv
<1> DEFINE j == holds[c]
<1>1. /\ pc[c] = "running"
      /\ active' = active \ {j}
      /\ pc' = [pc EXCEPT ![c] = "acking"]
      /\ succeeded' = succeeded \cup {j}
      /\ UNCHANGED <<record, queue, scheduled, retry, dead, now, holds, copy, schedulerVars,
                      adminVars, born, dueAt, runs, deleteBegun, deleteDone, resends>>
  BY DEF AcknowledgeZrem, Goto
<1>2. /\ j \in Jobs /\ dead[j] = 0 /\ born[j] # Absent
      /\ ~InQueue(j) /\ scheduled[j] = Absent /\ retry[j] = Absent
      /\ \A d \in Consumers : d # c /\ pc[d] \in {"popped", "held", "running"} => holds[d] # j
  BY <1>1, OwnedFacts
<1> HIDE DEF j
<1>3. TypeOK'
  BY <1>1, <1>2 DEF TypeOK, StoreTypeOK, schedulerVars, adminVars
<1>4. /\ \A k \in Jobs : InQueue(k)' <=> InQueue(k)
      /\ \A r \in Queues : QueueInv(r)'
  BY <1>1, SameQueues
<1>5. ASSUME NEW k \in Jobs PROVE OnePlace(k)' /\ Lifecycle(k)' /\ Budget(k)'
  BY <1>1, <1>2, <1>4 DEF OnePlace, Lifecycle, Budget, Located, CanRun
<1>6. ASSUME NEW d \in Consumers PROVE ConsumerInv(d)'
  <2>1. CASE d = c
    BY <1>1, <1>2, <2>1 DEF ConsumerInv, TypeOK, j
  <2>2. CASE d # c
    BY <1>1, <1>2, <2>2 DEF ConsumerInv, CanRun, TypeOK
  <2> QED BY <2>1, <2>2
<1>7. ASSUME NEW a \in Admins PROVE AdminInv(a)'
  BY <1>1 DEF AdminInv, adminVars
<1>8. OneOwner'
  BY <1>1 DEF OneOwner, Owns, TypeOK
<1> QED BY <1>3, <1>4, <1>5, <1>6, <1>7, <1>8

\* Acknowledge's DEL removes a record that nothing refers to any more.
LEMMA AcknowledgeDelIInv ==
  ASSUME IInv, NEW c \in Consumers, AcknowledgeDel(c)
  PROVE  IInv'
<1> USE DEF IInv
<1> DEFINE j == holds[c]
<1>1. /\ pc[c] = "acking"
      /\ record' = [record EXCEPT ![j] = NoRecord]
      /\ pc' = [pc EXCEPT ![c] = "idle"]
      /\ holds' = [holds EXCEPT ![c] = NoJob]
      /\ copy' = [copy EXCEPT ![c] = NoRecord]
      /\ UNCHANGED <<queue, scheduled, retry, dead, active, now,
                      schedulerVars, adminVars, history>>
  BY DEF AcknowledgeDel, Set, Leave, Goto
<1>2. j \in Jobs /\ j \in succeeded
  BY <1>1 DEF ConsumerInv
<1>3. ~Located(j)
  BY <1>2 DEF Lifecycle
<1> HIDE DEF j
<1>4. record'[j] = NoRecord /\ \A k \in Jobs : k # j => record'[k] = record[k]
  BY <1>1, <1>2 DEF TypeOK, StoreTypeOK
<1>5. TypeOK'
  BY <1>1, <1>2 DEF TypeOK, StoreTypeOK, schedulerVars, adminVars, history
<1>6. /\ \A k \in Jobs : InQueue(k)' <=> InQueue(k)
      /\ \A r \in Queues : QueueInv(r)'
  BY <1>1, SameQueues
<1>7. ASSUME NEW k \in Jobs PROVE OnePlace(k)' /\ Lifecycle(k)' /\ Budget(k)'
  <2>1. CASE k = j
    BY <1>1, <1>2, <1>3, <1>4, <1>6, <2>1
    DEF OnePlace, Lifecycle, Budget, Located, history
  <2>2. CASE k # j
    BY <1>1, <1>4, <1>6, <2>2 DEF OnePlace, Lifecycle, Budget, Located, CanRun, history
  <2> QED BY <2>1, <2>2
<1>8. ASSUME NEW d \in Consumers PROVE ConsumerInv(d)'
  <2>1. CASE d = c
    BY <1>1, <2>1 DEF ConsumerInv, TypeOK
  <2>2. CASE d # c
    <3>1. pc[d] \in {"popped", "held", "running"} => holds[d] \in Jobs /\ holds[d] # j
      BY <1>3 DEF ConsumerInv, Located
    <3> QED BY <1>1, <1>4, <2>2, <3>1 DEF ConsumerInv, CanRun, TypeOK, history
  <2> QED BY <2>1, <2>2
<1>9. ASSUME NEW a \in Admins PROVE AdminInv(a)'
  BY <1>1 DEF AdminInv, adminVars
<1>10. OneOwner'
  BY <1>1 DEF OneOwner, Owns, TypeOK
<1> QED BY <1>5, <1>6, <1>7, <1>8, <1>9, <1>10

\* A server that forgets a job leaves it in the in-flight set.
LEMMA DropIInv ==
  ASSUME IInv, NEW c \in Consumers, Drop(c)
  PROVE  IInv'
<1> USE DEF IInv
<1>1. /\ pc' = [pc EXCEPT ![c] = "idle"]
      /\ holds' = [holds EXCEPT ![c] = NoJob]
      /\ copy' = [copy EXCEPT ![c] = NoRecord]
      /\ UNCHANGED <<record, queue, scheduled, retry, dead, active, now,
                      schedulerVars, adminVars, history>>
  BY DEF Drop, Leave, Goto, store
<1>2. TypeOK'
  BY <1>1 DEF TypeOK, StoreTypeOK, schedulerVars, adminVars, history
<1>3. /\ \A k \in Jobs : InQueue(k)' <=> InQueue(k)
      /\ \A r \in Queues : QueueInv(r)'
  BY <1>1, SameQueues
<1>4. ASSUME NEW k \in Jobs PROVE OnePlace(k)' /\ Lifecycle(k)' /\ Budget(k)'
  BY <1>1, <1>3 DEF OnePlace, Lifecycle, Budget, Located, CanRun, history
<1>5. ASSUME NEW d \in Consumers PROVE ConsumerInv(d)'
  BY <1>1 DEF ConsumerInv, CanRun, TypeOK, history
<1>6. ASSUME NEW a \in Admins PROVE AdminInv(a)'
  BY <1>1 DEF AdminInv, adminVars
<1>7. OneOwner'
  BY <1>1 DEF OneOwner, Owns, TypeOK
<1> QED BY <1>2, <1>3, <1>4, <1>5, <1>6, <1>7

\* Steps that only move a scheduler, an admin or the clock.
LEMMA BookkeepingIInv ==
  ASSUME IInv, UNCHANGED <<store, consumerVars, history>>, TypeOK',
         \A a \in Admins : AdminInv(a)'
  PROVE  IInv'
<1> USE DEF IInv, store, consumerVars, history
<1>1. /\ \A k \in Jobs : InQueue(k)' <=> InQueue(k)
      /\ \A r \in Queues : QueueInv(r)'
  BY SameQueues
<1>2. ASSUME NEW k \in Jobs PROVE OnePlace(k)' /\ Lifecycle(k)' /\ Budget(k)'
  BY <1>1 DEF OnePlace, Lifecycle, Budget, Located, CanRun
<1>3. ASSUME NEW d \in Consumers PROVE ConsumerInv(d)'
  BY DEF ConsumerInv, CanRun
<1>4. OneOwner'
  BY DEF OneOwner, Owns
<1> QED BY <1>1, <1>2, <1>3, <1>4

\* The listings of a scheduler are only hints: nothing depends on them.
LEMMA SchedulerIInv ==
  ASSUME IInv, NEW s \in Schedulers,
         PromoteStart(s) \/ (\E src \in Sources : PromoteList(s, src)) \/ PromoteAbort(s)
  PROVE  IInv'
<1>1. UNCHANGED <<store, now, consumerVars, adminVars, history>>
  BY DEF PromoteStart, PromoteList, PromoteAbort
<1>2. /\ listedAt' \in [Schedulers -> Nat]
      /\ todo' \in [Schedulers -> SUBSET Sources]
      /\ source' \in [Schedulers -> Sources]
      /\ ids' \in [Schedulers -> SUBSET Jobs]
  <2> USE DEF IInv, TypeOK, StoreTypeOK
  <2>1. CASE PromoteStart(s)
    BY <2>1 DEF PromoteStart
  <2>2. CASE \E src \in Sources : PromoteList(s, src)
    <3>1. PICK src \in Sources : PromoteList(s, src)
      BY <2>2
    <3> DEFINE due == {j \in Jobs : Score(src, j) # Absent /\ Score(src, j) <= Unix(listedAt[s])}
    <3>2. /\ ids' = [ids EXCEPT ![s] = due]
          /\ source' = [source EXCEPT ![s] = src]
          /\ todo' = [todo EXCEPT ![s] = @ \ {src}]
          /\ listedAt' = listedAt
      BY <3>1 DEF PromoteList
    <3>3. due \in SUBSET Jobs
      OBVIOUS
    <3> HIDE DEF due
    <3> QED BY <3>2, <3>3
  <2>3. CASE PromoteAbort(s)
    BY <2>3 DEF PromoteAbort
  <2> QED BY <2>1, <2>2, <2>3
<1>3. TypeOK'
  BY <1>1, <1>2 DEF IInv, TypeOK, StoreTypeOK, store, consumerVars, adminVars, history
<1>4. \A a \in Admins : AdminInv(a)'
  BY <1>1 DEF IInv, AdminInv, adminVars
<1> QED BY <1>1, <1>3, <1>4, BookkeepingIInv

\* A claimed ID moves from its sorted set to its queue; an unclaimed one
\* stays where it is, however stale the listing.
LEMMA PromoteOneIInv ==
  ASSUME IInv, NEW s \in Schedulers, NEW j \in Jobs, PromoteOne(s, j)
  PROVE  IInv'
<1> USE DEF IInv
<1> DEFINE src == source[s]
<1>1. /\ PromoteJob(src, j)
      /\ ids' = [ids EXCEPT ![s] = @ \ {j}]
      /\ UNCHANGED <<now, consumerVars, listedAt, todo, source, adminVars, history>>
  BY DEF PromoteOne
<1>2. ids' \in [Schedulers -> SUBSET Jobs] /\ src \in Sources
  BY <1>1 DEF TypeOK
<1>3. \A a \in Admins : AdminInv(a)'
  BY <1>1 DEF AdminInv, adminVars
<1>4. CASE Score(src, j) = Absent
  <2>1. UNCHANGED store
    BY <1>1, <1>4 DEF PromoteJob
  <2>2. TypeOK'
    BY <1>1, <1>2, <2>1 DEF TypeOK, StoreTypeOK, store, consumerVars, adminVars, history
  <2> QED BY <1>1, <1>3, <2>1, <2>2, BookkeepingIInv
<1>5. CASE Score(src, j) # Absent
  <2>1. /\ ZremFrom(src, j)
        /\ (record[j] = NoRecord /\ UNCHANGED queue) \/ (record[j] # NoRecord /\ LPush(j))
        /\ UNCHANGED <<record, dead, active>>
    BY <1>1, <1>5 DEF PromoteJob, store
  <2>2. /\ ~InQueue(j) /\ dead[j] = 0 /\ j \notin active /\ CanRun(j)
        /\ scheduled[j] # Absent \/ retry[j] # Absent
        /\ record[j] # NoRecord /\ born[j] # Absent /\ j \notin succeeded
    BY <1>5 DEF Score, OnePlace, Lifecycle, Located, Budget
  <2>3. /\ scheduled' \in [Jobs -> Nat \cup {Absent}] /\ retry' \in [Jobs -> Nat \cup {Absent}]
        /\ scheduled'[j] = Absent /\ retry'[j] = Absent
        /\ \A k \in Jobs : k # j => scheduled'[k] = scheduled[k] /\ retry'[k] = retry[k]
    <3>1. CASE src = "scheduled"
      <4>1. retry[j] = Absent
        BY <1>5, <3>1 DEF Score, OnePlace
      <4> QED BY <2>1, <3>1, <4>1 DEF ZremFrom, TypeOK, StoreTypeOK
    <3>2. CASE src # "scheduled"
      <4>1. scheduled[j] = Absent
        BY <1>5, <3>2 DEF Score, OnePlace
      <4> QED BY <2>1, <3>2, <4>1 DEF ZremFrom, TypeOK, StoreTypeOK
    <3> QED BY <3>1, <3>2
  <2>4. /\ queue' \in [Queues -> Seq(Jobs)]
        /\ \A q \in Queues : QueueInv(q)'
        /\ \A k \in Jobs : InQueue(k)' <=> (InQueue(k) \/ k = j)
    BY <2>1, <2>2, LPushFacts DEF TypeOK
  <2>5. TypeOK'
    BY <1>1, <1>2, <2>1, <2>3, <2>4 DEF TypeOK, StoreTypeOK, consumerVars, adminVars, history
  <2>6. ASSUME NEW k \in Jobs PROVE OnePlace(k)' /\ Lifecycle(k)' /\ Budget(k)'
    <3>1. CASE k = j
      BY <1>1, <2>1, <2>2, <2>3, <2>4, <3>1
      DEF OnePlace, Lifecycle, Budget, Located, CanRun, history
    <3>2. CASE k # j
      BY <1>1, <2>1, <2>3, <2>4, <3>2
      DEF OnePlace, Lifecycle, Budget, Located, CanRun, history
    <3> QED BY <3>1, <3>2
  <2>7. ASSUME NEW d \in Consumers PROVE ConsumerInv(d)'
    BY <1>1, <2>1 DEF ConsumerInv, CanRun, consumerVars, history
  <2>8. OneOwner'
    BY <1>1 DEF OneOwner, Owns, consumerVars
  <2> QED BY <1>3, <2>4, <2>5, <2>6, <2>7, <2>8
<1> QED BY <1>4, <1>5

\* RetryDeadJob's read prepares a record and changes nothing.
LEMMA RetryDeadReadIInv ==
  ASSUME IInv, NEW a \in Admins, NEW j \in Jobs, RetryDeadRead(a, j)
  PROVE  IInv'
<1> DEFINE r == [record[j] EXCEPT !.status = "pending", !.attempts = 0, !.processAt = now]
<1>1. /\ record[j] # NoRecord
      /\ call' = [call EXCEPT ![a] = "retry"]
      /\ target' = [target EXCEPT ![a] = j]
      /\ reset' = [reset EXCEPT ![a] = r]
      /\ UNCHANGED <<store, now, consumerVars, schedulerVars, step, history>>
  BY DEF RetryDeadRead
<1>2. record[j] \in JobRecord /\ now \in Nat
  BY <1>1 DEF IInv, TypeOK, StoreTypeOK
<1>3. r \in JobRecord /\ r.status = "pending" /\ r.attempts = 0
  BY <1>2, ResetFacts
<1> HIDE DEF r
<1>4. TypeOK'
  BY <1>1, <1>3 DEF IInv, TypeOK, StoreTypeOK, store, consumerVars, schedulerVars, history
<1>5. \A b \in Admins : AdminInv(b)'
  BY <1>1, <1>3 DEF IInv, TypeOK, AdminInv
<1> QED BY <1>1, <1>4, <1>5, BookkeepingIInv

\* RetryDeadJob's script moves a dead job to its queue with a full budget,
\* and does nothing to a job that is no longer dead.
LEMMA RetryDeadScriptIInv ==
  ASSUME IInv, NEW a \in Admins, RetryDeadScript(a)
  PROVE  IInv'
<1> USE DEF IInv
<1> DEFINE j == target[a]
           rec == reset[a]
<1>1. /\ call[a] = "retry"
      /\ RetryDeadJob(j, rec)
      /\ dead[j] > 0 => /\ dueAt' = [dueAt EXCEPT ![j] = now]
                        /\ runs' = [runs EXCEPT ![j] = 0]
      /\ ~(dead[j] > 0) => UNCHANGED <<dueAt, runs>>
      /\ call' = [call EXCEPT ![a] = "none"]
      /\ target' = [target EXCEPT ![a] = NoJob]
      /\ reset' = [reset EXCEPT ![a] = NoRecord]
      /\ step' = [step EXCEPT ![a] = 1]
      /\ UNCHANGED <<now, consumerVars, schedulerVars,
                      born, succeeded, deleteBegun, deleteDone, resends>>
  BY DEF RetryDeadScript, EndCall
<1>2. /\ j \in Jobs /\ rec \in JobRecord /\ rec # NoRecord
      /\ rec.status = "pending" /\ rec.attempts = 0
  BY <1>1, StoreAssumption DEF AdminInv
<1> HIDE DEF j, rec
<1>3. /\ call' \in [Admins -> {"none", "retry", "delete"}]
      /\ target' \in [Admins -> Jobs \cup {NoJob}]
      /\ reset' \in [Admins -> JobRecord \cup {NoRecord}]
      /\ step' \in [Admins -> 1..DeleteCommands]
  BY <1>1 DEF TypeOK, DeleteCommands
<1>4. \A b \in Admins : AdminInv(b)'
  BY <1>1 DEF TypeOK, AdminInv
<1>5. CASE dead[j] = 0
  <2>1. UNCHANGED <<store, dueAt, runs>>
    BY <1>1, <1>5 DEF RetryDeadJob
  <2>2. TypeOK'
    BY <1>1, <1>3, <2>1 DEF TypeOK, StoreTypeOK, store, consumerVars, schedulerVars
  <2> QED BY <1>1, <1>4, <2>1, <2>2, BookkeepingIInv DEF history
<1>6. CASE dead[j] > 0
  <2>1. /\ dead' = [dead EXCEPT ![j] = @ - 1]
        /\ record' = [record EXCEPT ![j] = rec]
        /\ LPush(j)
        /\ UNCHANGED <<scheduled, retry, active>>
        /\ runs' = [runs EXCEPT ![j] = 0]
        /\ dueAt' = [dueAt EXCEPT ![j] = now]
    BY <1>1, <1>2, <1>6 DEF RetryDeadJob, Set
  <2>2. /\ dead[j] = 1 /\ ~InQueue(j) /\ scheduled[j] = Absent /\ retry[j] = Absent
        /\ j \notin active /\ born[j] # Absent /\ j \notin succeeded
    BY <1>2, <1>6 DEF OnePlace, Lifecycle, Located, TypeOK, StoreTypeOK
  <2>3. /\ queue' \in [Queues -> Seq(Jobs)]
        /\ \A q \in Queues : QueueInv(q)'
        /\ \A k \in Jobs : InQueue(k)' <=> (InQueue(k) \/ k = j)
    BY <1>2, <2>1, <2>2, LPushFacts DEF TypeOK
  <2>4. /\ record'[j] = rec /\ dead'[j] = 0 /\ runs'[j] = 0 /\ dead' \in [Jobs -> Nat]
        /\ \A k \in Jobs : k # j => /\ record'[k] = record[k]
                                    /\ dead'[k] = dead[k]
                                    /\ runs'[k] = runs[k]
    BY <1>2, <2>1, <2>2 DEF TypeOK, StoreTypeOK
  <2>5. TypeOK'
    BY <1>1, <1>2, <1>3, <2>1, <2>3, <2>4
    DEF TypeOK, StoreTypeOK, consumerVars, schedulerVars
  <2>6. ASSUME NEW k \in Jobs PROVE OnePlace(k)' /\ Lifecycle(k)' /\ Budget(k)'
    <3>1. CASE k = j
      <4>1. MaxAttempts[j] \in Nat \ {0}
        BY <1>2, BrokerAssumption
      <4> QED BY <1>1, <1>2, <2>1, <2>2, <2>3, <2>4, <3>1, <4>1
              DEF OnePlace, Lifecycle, Budget, Located, CanRun
    <3>2. CASE k # j
      BY <1>1, <2>1, <2>3, <2>4, <3>2 DEF OnePlace, Lifecycle, Budget, Located, CanRun
    <3> QED BY <3>1, <3>2
  <2>7. ASSUME NEW d \in Consumers PROVE ConsumerInv(d)'
    <3>1. pc[d] \in {"popped", "held", "running"} => holds[d] # j
      BY <2>2 DEF ConsumerInv
    <3> QED BY <1>1, <2>1, <2>4, <3>1 DEF ConsumerInv, CanRun, consumerVars
  <2>8. OneOwner'
    BY <1>1 DEF OneOwner, Owns, consumerVars
  <2> QED BY <1>4, <2>3, <2>5, <2>6, <2>7, <2>8
<1>7. dead[j] = 0 \/ dead[j] > 0
  BY <1>2 DEF TypeOK, StoreTypeOK
<1> QED BY <1>5, <1>6, <1>7

LEMMA AdminAbortIInv ==
  ASSUME IInv, NEW a \in Admins, AdminAbort(a)
  PROVE  IInv'
<1>1. /\ call' = [call EXCEPT ![a] = "none"]
      /\ target' = [target EXCEPT ![a] = NoJob]
      /\ reset' = [reset EXCEPT ![a] = NoRecord]
      /\ step' = [step EXCEPT ![a] = 1]
      /\ UNCHANGED <<store, now, consumerVars, schedulerVars, history>>
  BY DEF AdminAbort, EndCall
<1>2. TypeOK'
  BY <1>1
  DEF IInv, TypeOK, StoreTypeOK, store, consumerVars, schedulerVars, history, DeleteCommands
<1>3. \A b \in Admins : AdminInv(b)'
  BY <1>1 DEF IInv, TypeOK, AdminInv
<1> QED BY <1>1, <1>2, <1>3, BookkeepingIInv

\* Every step, and every stuttering step, keeps the invariant.
LEMMA NextIInv == IInv /\ [Next]_vars => IInv'
<1> SUFFICES ASSUME IInv, [Next]_vars PROVE IInv'
  OBVIOUS
<1>1. CASE \E j \in Jobs, delay \in EnqueueDelays : Enqueue(j, delay)
  BY <1>1, EnqueueIInv
<1>2. ASSUME NEW c \in Consumers, ConsumerNext(c) PROVE IInv'
  BY <1>2, DequeuePopIInv, DequeueGetIInv, StartHandlerIInv, NoHandlerIInv,
     AcknowledgeZremIInv, AcknowledgeDelIInv, FailRequeueIInv, FailDeadIInv, DropIInv
  DEF ConsumerNext
<1>3. ASSUME NEW s \in Schedulers, SchedulerNext(s) PROVE IInv'
  BY <1>3, SchedulerIInv, PromoteOneIInv DEF SchedulerNext
<1>4. ASSUME NEW a \in Admins, AdminNext(a) PROVE IInv'
  BY <1>4, RetryDeadReadIInv, RetryDeadScriptIInv, AdminAbortIInv DEF AdminNext
<1>5. CASE Tick
  <2>1. TypeOK' /\ UNCHANGED <<store, consumerVars, adminVars, history>>
    BY <1>5
    DEF Tick, IInv, TypeOK, StoreTypeOK, store, consumerVars, schedulerVars, adminVars, history
  <2>2. \A a \in Admins : AdminInv(a)'
    BY <2>1 DEF IInv, AdminInv, adminVars
  <2> QED BY <2>1, <2>2, BookkeepingIInv
<1>6. CASE UNCHANGED vars
  <2>1. TypeOK' /\ UNCHANGED <<store, consumerVars, adminVars, history>>
    BY <1>6
    DEF vars, IInv, TypeOK, StoreTypeOK, store, consumerVars, schedulerVars, adminVars, history
  <2>2. \A a \in Admins : AdminInv(a)'
    BY <2>1 DEF IInv, AdminInv, adminVars
  <2> QED BY <2>1, <2>2, BookkeepingIInv
<1> QED BY <1>1, <1>2, <1>3, <1>4, <1>5, <1>6 DEF Next

\* The inductive invariant holds in every reachable state.
THEOREM Invariance == Spec => []IInv
BY InitIInv, NextIInv, PTL DEF Spec

-----------------------------------------------------------------------------
(* What follows from it                                                    *)

\* Every record, list, set and caller keeps its type: in particular a worker
\* never writes back a Job it failed to read.
THEOREM TypeCorrect == Spec => []TypeOK
<1>1. IInv => TypeOK
  BY DEF IInv
<1> QED BY <1>1, Invariance, PTL

\* No job is lost: until its handler has succeeded a job keeps its record and
\* stays referenced, whatever calls fail and whichever server crashes.
THEOREM AtLeastOnce == Spec => []NoJobLost
<1>1. IInv => NoJobLost
  BY DEF IInv, Lifecycle, NoJobLost
<1> QED BY <1>1, Invariance, PTL

\* Jobs are moved and never copied between queues, sets and lists.
THEOREM MovedNotCopied == Spec => []SinglePlace
<1>1. ASSUME IInv, NEW j \in Jobs, NEW p1 \in Places, NEW p2 \in Places,
             InPlace(p1, j), InPlace(p2, j)
      PROVE  p1 = p2
  <2>1. OnePlace(j)
    BY <1>1 DEF IInv
  <2> QED BY <1>1, <2>1 DEF OnePlace, InPlace, Places
<1>2. ASSUME IInv, NEW j \in Jobs, NEW q \in Queues, NEW i \in DOMAIN queue[q],
             NEW k \in DOMAIN queue[q], queue[q][i] = j, queue[q][k] = j
      PROVE  i = k
  BY <1>2 DEF IInv, QueueInv, Distinct
<1>3. IInv => SinglePlace
  BY <1>1, <1>2 DEF SinglePlace, IInv, OnePlace
<1> QED BY <1>3, Invariance, PTL

\* Mutual exclusion: no two consumers own the same job.
THEOREM ExclusiveOwner == Spec => []OneOwner
<1>1. IInv => OneOwner
  BY DEF IInv
<1> QED BY <1>1, Invariance, PTL

\* Every ID in a queue, set or list can be read.
THEOREM Readable == Spec => []NoDanglingID
<1>1. IInv => NoDanglingID
  BY DEF IInv, Lifecycle, NoDanglingID
<1> QED BY <1>1, Invariance, PTL

\* An acknowledged job is never referenced, hence never run, again.
THEOREM AcknowledgedForGood == Spec => []AcknowledgedStaysGone
<1>1. IInv => AcknowledgedStaysGone
  BY DEF IInv, TypeOK, Lifecycle, AcknowledgedStaysGone
<1> QED BY <1>1, Invariance, PTL

\* The handler never runs more often than MaxAttempts allows.
THEOREM BudgetKept == Spec => []RunsWithinBudget
<1>1. IInv => RunsWithinBudget
  BY DEF IInv, Budget, RunsWithinBudget
<1> QED BY <1>1, Invariance, PTL

\* Status "dead" and membership of the dead-letter list go together.
THEOREM DeadIsDeadLetter == Spec => []DeadStatusIsDeadLetter
<1>1. IInv => DeadStatusIsDeadLetter
  BY DEF IInv, Lifecycle, DeadStatusIsDeadLetter
<1> QED BY <1>1, Invariance, PTL

-----------------------------------------------------------------------------
(* The action property: attempts only grow                                 *)

\* A step that writes no record, or one that writes j's record only, with
\* attempts that did not go down.
LEMMA SameRecords ==
  ASSUME IInv, UNCHANGED record
  PROVE  AttemptsKept
<1> SUFFICES ASSUME NEW k \in Jobs, record[k] # NoRecord
             PROVE  record'[k].attempts >= record[k].attempts
  BY DEF AttemptsKept
<1>1. record[k].attempts \in Nat
  BY DEF IInv, TypeOK, StoreTypeOK, JobRecord
<1> QED BY <1>1

LEMMA OneRecord ==
  ASSUME IInv, NEW j \in Jobs, NEW rec, record' = [record EXCEPT ![j] = rec],
         record[j] # NoRecord /\ rec # NoRecord /\ dead'[j] >= dead[j]
           => rec.attempts >= record[j].attempts
  PROVE  AttemptsKept
<1> SUFFICES ASSUME NEW k \in Jobs,
                    record[k] # NoRecord, record'[k] # NoRecord, dead'[k] >= dead[k]
             PROVE  record'[k].attempts >= record[k].attempts
  BY DEF AttemptsKept
<1>1. record[k].attempts \in Nat
  BY DEF IInv, TypeOK, StoreTypeOK, JobRecord
<1>2. record'[j] = rec /\ (k # j => record'[k] = record[k])
  BY DEF IInv, TypeOK, StoreTypeOK
<1>3. CASE k = j
  BY <1>2, <1>3
<1>4. CASE k # j
  BY <1>1, <1>2, <1>4
<1> QED BY <1>3, <1>4

\* What an owner writes back is its own, fresh copy with one attempt more.
LEMMA OutcomeAttempts ==
  ASSUME IInv, NEW c \in Consumers, pc[c] \in {"held", "running"}, NEW st \in Status
  PROVE  /\ holds[c] \in Jobs
         /\ Failed(c, st).attempts >= record[holds[c]].attempts
         /\ [copy[c] EXCEPT !.status = st].attempts >= record[holds[c]].attempts
<1>1. holds[c] \in Jobs /\ copy[c] \in JobRecord /\ copy[c] = record[holds[c]]
  BY OwnedFacts DEF IInv, ConsumerInv
<1>2. copy[c].attempts \in Nat
  BY <1>1 DEF JobRecord
<1>3. Failed(c, st).attempts = copy[c].attempts + 1
  BY <1>1, FailedFacts
<1>4. [copy[c] EXCEPT !.status = st].attempts = copy[c].attempts
  BY <1>1 DEF JobRecord
<1> QED BY <1>1, <1>2, <1>3, <1>4

LEMMA ConsumerAttempts ==
  ASSUME IInv, NEW c \in Consumers, ConsumerNext(c)
  PROVE  AttemptsKept
<1>1. CASE \E q \in Queues : DequeuePop(c, q)
  BY <1>1, SameRecords DEF DequeuePop, RpopZadd
<1>2. CASE DequeueGet(c)
  BY <1>2, SameRecords DEF DequeueGet, store
<1>3. CASE StartHandler(c)
  BY <1>3, SameRecords DEF StartHandler, store
<1>4. CASE NoHandler(c)
  <2> DEFINE rec == [copy[c] EXCEPT !.status = "dead"]
  <2>1. pc[c] = "held" /\ record' = [record EXCEPT ![holds[c]] = rec]
    BY <1>4 DEF NoHandler, SetLpushZrem, Set
  <2>2. holds[c] \in Jobs /\ rec.attempts >= record[holds[c]].attempts
    BY <2>1, OutcomeAttempts DEF Status
  <2> HIDE DEF rec
  <2> QED BY <2>1, <2>2, OneRecord
<1>5. CASE AcknowledgeZrem(c)
  BY <1>5, SameRecords DEF AcknowledgeZrem
<1>6. CASE AcknowledgeDel(c)
  <2>1. pc[c] = "acking" /\ record' = [record EXCEPT ![holds[c]] = NoRecord]
    BY <1>6 DEF AcknowledgeDel, Set
  <2>2. holds[c] \in Jobs
    BY <2>1 DEF IInv, ConsumerInv
  <2> QED BY <2>1, <2>2, OneRecord
<1>7. CASE \E delay \in RetryDelays : FailRequeue(c, delay)
  <2> DEFINE rec == Failed(c, "retry")
  <2>1. pc[c] = "running" /\ record' = [record EXCEPT ![holds[c]] = rec]
    BY <1>7 DEF FailRequeue, SetZaddZrem, Set
  <2>2. holds[c] \in Jobs /\ rec.attempts >= record[holds[c]].attempts
    BY <2>1, OutcomeAttempts DEF Status
  <2> HIDE DEF rec
  <2> QED BY <2>1, <2>2, OneRecord
<1>8. CASE FailDead(c)
  <2> DEFINE rec == Failed(c, "dead")
  <2>1. pc[c] = "running" /\ record' = [record EXCEPT ![holds[c]] = rec]
    BY <1>8 DEF FailDead, SetLpushZrem, Set
  <2>2. holds[c] \in Jobs /\ rec.attempts >= record[holds[c]].attempts
    BY <2>1, OutcomeAttempts DEF Status
  <2> HIDE DEF rec
  <2> QED BY <2>1, <2>2, OneRecord
<1>9. CASE Drop(c)
  BY <1>9, SameRecords DEF Drop, store
<1> QED BY <1>1, <1>2, <1>3, <1>4, <1>5, <1>6, <1>7, <1>8, <1>9 DEF ConsumerNext

LEMMA NextAttempts == IInv /\ Next => AttemptsKept
<1> SUFFICES ASSUME IInv, Next PROVE AttemptsKept
  OBVIOUS
<1>1. ASSUME NEW j \in Jobs, NEW delay \in EnqueueDelays, Enqueue(j, delay) PROVE AttemptsKept
  <2>1. record[j] = NoRecord /\ record' = [record EXCEPT ![j] = NewJob(now + delay)]
    BY <1>1 DEF Enqueue, SetBranchLpushZadd, Set, IInv, Lifecycle
  <2> QED BY <2>1, OneRecord
<1>2. CASE \E c \in Consumers : ConsumerNext(c)
  BY <1>2, ConsumerAttempts
<1>3. ASSUME NEW s \in Schedulers, SchedulerNext(s) PROVE AttemptsKept
  <2>1. UNCHANGED record
    BY <1>3
    DEF SchedulerNext, PromoteStart, PromoteList, PromoteOne, PromoteAbort, PromoteJob, store
  <2> QED BY <2>1, SameRecords
<1>4. ASSUME NEW a \in Admins, AdminNext(a) PROVE AttemptsKept
  <2>1. CASE (\E j \in Jobs : RetryDeadRead(a, j)) \/ AdminAbort(a)
    BY <2>1, SameRecords DEF RetryDeadRead, AdminAbort, store
  <2>2. CASE RetryDeadScript(a)
    <3>1. call[a] = "retry" /\ RetryDeadJob(target[a], reset[a])
      BY <2>2 DEF RetryDeadScript
    <3>2. target[a] \in Jobs /\ dead[target[a]] \in Nat
      BY <3>1 DEF IInv, AdminInv, TypeOK, StoreTypeOK
    <3>3. CASE UNCHANGED store
      BY <3>3, SameRecords DEF store
    <3>4. CASE ~UNCHANGED store
      <4>1. /\ record' = [record EXCEPT ![target[a]] = reset[a]]
            /\ dead' = [dead EXCEPT ![target[a]] = @ - 1]
        BY <3>1, <3>4 DEF RetryDeadJob, Set
      <4>2. ~(dead'[target[a]] >= dead[target[a]])
        BY <3>2, <4>1 DEF IInv, TypeOK, StoreTypeOK
      <4> QED BY <3>2, <4>1, <4>2, OneRecord
    <3> QED BY <3>3, <3>4
  <2> QED BY <1>4, <2>1, <2>2 DEF AdminNext
<1>5. CASE Tick
  BY <1>5, SameRecords DEF Tick, store
<1> QED BY <1>1, <1>2, <1>3, <1>4, <1>5 DEF Next

\* No caller ever writes back an old copy of a job: the attempts it has used
\* up never go down, except when it leaves the dead-letter list.
THEOREM AttemptsMonotone == Spec => AttemptsNeverGoBack
<1>1. IInv /\ [Next]_vars => [AttemptsKept]_vars
  BY NextAttempts
<1> QED BY <1>1, Invariance, PTL DEF Spec, AttemptsNeverGoBack

-----------------------------------------------------------------------------
(* Time: no job is ready a whole second before it is due, as long as one    *)
(* scheduler at a time promotes.  (With two of them a stale list may        *)
(* promote a job that was requeued meanwhile: RedisStalePromote.)           *)

OneScheduler == \A s, t \in Schedulers : s = t

\* A queued job is due, up to a second, and the score of a job that waits is
\* its due time in whole seconds.
DueInv(j) ==
  /\ InQueue(j) => now + TicksPerSecond > dueAt[j]
  /\ scheduled[j] # Absent => dueAt[j] \in Nat /\ scheduled[j] = Unix(dueAt[j])
  /\ retry[j] # Absent => dueAt[j] \in Nat /\ retry[j] = Unix(dueAt[j])

\* The IDs that a scheduler still has to promote are where it found them, with
\* the scores by which it chose them.
PromotionInv(s) ==
  /\ listedAt[s] <= now
  /\ \A j \in ids[s] : /\ Score(source[s], j) # Absent
                       /\ Score(source[s], j) <= Unix(listedAt[s])

TimeInv ==
  /\ \A j \in Jobs : DueInv(j)
  /\ \A s \in Schedulers : PromotionInv(s)

-----------------------------------------------------------------------------
(* Whole seconds                                                           *)

\* Cutting both times to whole seconds costs less than one second.
LEMMA UnixCutsLessThanASecond ==
  ASSUME NEW a \in Nat, NEW b \in Nat, Unix(a) <= Unix(b)
  PROVE  a < b + TicksPerSecond
<1> DEFINE n == TicksPerSecond
           x == a \div n
           y == b \div n
<1>1. n \in Nat /\ n > 0
  BY StoreAssumption
<1>2. x \in Nat /\ y \in Nat /\ a = n * x + (a % n) /\ b = n * y + (b % n)
      /\ a % n \in 0..(n - 1) /\ b % n \in 0..(n - 1)
  BY <1>1
<1>3. x <= y
  BY DEF Unix
<1> HIDE DEF x, y, n
<1>4. n * x <= n * y
  BY <1>1, <1>2, <1>3
<1>5. n * x \in Nat /\ n * y \in Nat
  BY <1>1, <1>2
<1>6. a < b + n
  BY <1>1, <1>2, <1>4, <1>5
<1> QED BY <1>6 DEF n

\* A promoted job was due when the scheduler read the clock, up to a second.
LEMMA ListedIsDue ==
  ASSUME IInv, TimeInv, NEW s \in Schedulers, NEW j \in ids[s]
  PROVE  j \in Jobs /\ now + TicksPerSecond > dueAt[j]
<1>1. j \in Jobs /\ source[s] \in Sources /\ listedAt[s] \in Nat /\ now \in Nat
  BY DEF IInv, TypeOK, StoreTypeOK
<1>2. /\ Score(source[s], j) # Absent /\ Score(source[s], j) <= Unix(listedAt[s])
      /\ listedAt[s] <= now
  BY DEF TimeInv, PromotionInv
<1>3. dueAt[j] \in Nat /\ Score(source[s], j) = Unix(dueAt[j])
  <2>1. DueInv(j)
    BY <1>1 DEF TimeInv
  <2> QED BY <1>2, <2>1 DEF DueInv, Score
<1>4. dueAt[j] < listedAt[s] + TicksPerSecond
  BY <1>1, <1>2, <1>3, UnixCutsLessThanASecond
<1> QED BY <1>1, <1>2, <1>3, <1>4, StoreAssumption

-----------------------------------------------------------------------------
(* The invariant                                                           *)

LEMMA InitTimeInv == Init => TimeInv
<1> SUFFICES ASSUME Init PROVE TimeInv
  OBVIOUS
<1>1. ASSUME NEW j \in Jobs PROVE DueInv(j)
  BY StoreAssumption DEF Init, StoreInit, DueInv, InQueue
<1>2. ASSUME NEW s \in Schedulers PROVE PromotionInv(s)
  BY DEF Init, StoreInit, PromotionInv
<1> QED BY <1>1, <1>2 DEF TimeInv

\* The step leaves where and when the job is due alone; the job may leave its
\* queue and the clock may advance.
Waits(j) ==
  /\ InQueue(j)' => InQueue(j)
  /\ scheduled'[j] = scheduled[j] /\ retry'[j] = retry[j] /\ dueAt'[j] = dueAt[j]

LEMMA WaitsDue ==
  ASSUME IInv, NEW j \in Jobs, DueInv(j), Waits(j), now' \in Nat, now' >= now
  PROVE  DueInv(j)'
<1>1. /\ now \in Nat /\ TicksPerSecond \in Nat
      /\ dueAt[j] \in Nat \/ dueAt[j] = -1
  BY StoreAssumption DEF IInv, TypeOK, StoreTypeOK, Absent
<1>2. InQueue(j)' => now' + TicksPerSecond > dueAt'[j]
  BY <1>1 DEF DueInv, Waits
<1> QED BY <1>2 DEF DueInv, Waits, Unix

\* A step of anyone but a scheduler touches at most one job, and that one waits
\* for no scheduler: lists stay true.
LEMMA OthersTimeInv ==
  ASSUME IInv, TimeInv, NEW k, scheduled[k] = Absent, retry[k] = Absent,
         now' \in Nat, now' >= now, UNCHANGED schedulerVars,
         \A j \in Jobs : j # k => Waits(j), k \in Jobs => DueInv(k)'
  PROVE  TimeInv'
<1>1. ASSUME NEW j \in Jobs PROVE DueInv(j)'
  BY <1>1, WaitsDue DEF TimeInv
<1>2. ASSUME NEW s \in Schedulers PROVE PromotionInv(s)'
  <2>1. PromotionInv(s) /\ listedAt[s] \in Nat /\ now \in Nat /\ ids[s] \subseteq Jobs
    BY DEF TimeInv, IInv, TypeOK, StoreTypeOK
  <2>2. listedAt'[s] = listedAt[s] /\ ids'[s] = ids[s] /\ source'[s] = source[s]
    BY DEF schedulerVars
  <2>3. listedAt'[s] <= now'
    BY <2>1, <2>2 DEF PromotionInv
  <2>4. ASSUME NEW j \in ids[s]
        PROVE  /\ Score(source[s], j)' # Absent
               /\ Score(source[s], j)' <= Unix(listedAt[s])'
    <3>1. Score(source[s], j) # Absent /\ Score(source[s], j) <= Unix(listedAt[s])
      BY <2>1 DEF PromotionInv
    <3>2. j # k
      BY <3>1 DEF Score
    <3>3. scheduled'[j] = scheduled[j] /\ retry'[j] = retry[j]
      BY <2>1, <3>2 DEF Waits
    <3> QED BY <2>2, <3>1, <3>3 DEF Score, Unix
  <2> QED BY <2>2, <2>3, <2>4 DEF PromotionInv
<1> QED BY <1>1, <1>2 DEF TimeInv

\* ... or no job at all.
LEMMA QuietTimeInv ==
  ASSUME IInv, TimeInv, now' \in Nat, now' >= now,
         UNCHANGED <<queue, scheduled, retry, dueAt, schedulerVars>>
  PROVE  TimeInv'
<1>1. ASSUME NEW j \in Jobs PROVE Waits(j)
  BY SameQueues DEF Waits
<1>2. ASSUME NEW j \in Jobs PROVE DueInv(j)'
  BY <1>1, WaitsDue DEF TimeInv
<1>3. ASSUME NEW s \in Schedulers PROVE PromotionInv(s)'
  <2>1. PromotionInv(s) /\ listedAt[s] \in Nat /\ now \in Nat
    BY DEF TimeInv, IInv, TypeOK, StoreTypeOK
  <2> QED BY <2>1 DEF PromotionInv, Score, Unix, schedulerVars
<1> QED BY <1>2, <1>3 DEF TimeInv

LEMMA EnqueueTimeInv ==
  ASSUME IInv, TimeInv, NEW j \in Jobs, NEW delay \in EnqueueDelays, Enqueue(j, delay)
  PROVE  TimeInv'
<1> DEFINE due == now + delay
           rec == NewJob(due)
<1>1. now \in Nat /\ due \in Nat /\ TicksPerSecond \in Nat
  BY BrokerAssumption, StoreAssumption DEF IInv, TypeOK, StoreTypeOK
<1> HIDE DEF due
<1>2. rec.processAt = due
  BY <1>1, NewJobFacts
<1> HIDE DEF rec
<1>3. /\ born[j] = Absent /\ UNCHANGED <<now, retry, schedulerVars>>
      /\ dueAt' = [dueAt EXCEPT ![j] = due]
      /\ \/ Unix(due) <= Unix(now) /\ scheduled' = scheduled /\ LPush(j)
         \/ queue' = queue /\ scheduled' = [scheduled EXCEPT ![j] = Unix(due)]
  BY <1>2 DEF Enqueue, SetBranchLpushZadd, Set, rec, due
<1>4. ~Located(j)
  BY <1>3 DEF IInv, Lifecycle
<1>5. ~InQueue(j) /\ scheduled[j] = Absent /\ retry[j] = Absent
  BY <1>4 DEF Located
<1>6. dueAt'[j] = due /\ \A k \in Jobs : k # j => dueAt'[k] = dueAt[k]
  BY <1>3 DEF IInv, TypeOK
<1>7. DueInv(j)' /\ \A k \in Jobs : k # j => Waits(k)
  <2>1. CASE Unix(due) <= Unix(now) /\ scheduled' = scheduled /\ LPush(j)
    <3>1. due < now + TicksPerSecond
      BY <1>1, <2>1, UnixCutsLessThanASecond
    <3>2. \A k \in Jobs : InQueue(k)' <=> (InQueue(k) \/ k = j)
      BY <1>5, <2>1, LPushFacts DEF IInv, TypeOK
    <3>3. DueInv(j)'
      BY <1>1, <1>3, <1>5, <1>6, <2>1, <3>1 DEF DueInv
    <3> QED BY <1>3, <1>6, <2>1, <3>2, <3>3 DEF Waits
  <2>2. CASE queue' = queue /\ scheduled' = [scheduled EXCEPT ![j] = Unix(due)]
    <3>1. scheduled'[j] = Unix(due) /\ \A k \in Jobs : k # j => scheduled'[k] = scheduled[k]
      BY <2>2 DEF IInv, TypeOK, StoreTypeOK
    <3>2. ~InQueue(j)' /\ \A k \in Jobs : InQueue(k)' <=> InQueue(k)
      BY <1>5, <2>2, SameQueues
    <3>3. DueInv(j)'
      BY <1>1, <1>3, <1>5, <1>6, <3>1, <3>2 DEF DueInv, Unix
    <3> QED BY <1>3, <1>6, <3>1, <3>2, <3>3 DEF Waits
  <2> QED BY <1>3, <2>1, <2>2
<1>8. now' \in Nat /\ now' >= now
  BY <1>1, <1>3
<1> QED BY <1>3, <1>5, <1>7, <1>8, OthersTimeInv

LEMMA DequeuePopTimeInv ==
  ASSUME IInv, TimeInv, NEW c \in Consumers, NEW q \in Queues, DequeuePop(c, q)
  PROVE  TimeInv'
<1>1. /\ RpopZadd(q) /\ UNCHANGED <<now, scheduled, retry, dueAt, schedulerVars>>
  BY DEF DequeuePop, RpopZadd, history
<1>2. PICK j \in Jobs : /\ InQueue(j)
                       /\ \A k \in Jobs : InQueue(k)' <=> (InQueue(k) /\ k # j)
  BY <1>1, RPopFacts DEF IInv, TypeOK
<1>3. scheduled[j] = Absent /\ retry[j] = Absent
  BY <1>2 DEF IInv, OnePlace
<1>4. \A k \in Jobs : Waits(k)
  BY <1>1, <1>2 DEF Waits
<1>5. now' \in Nat /\ now' >= now
  BY <1>1 DEF IInv, TypeOK, StoreTypeOK
<1>6. DueInv(j)'
  BY <1>2, <1>4, <1>5, WaitsDue DEF TimeInv
<1> QED BY <1>1, <1>3, <1>4, <1>5, <1>6, OthersTimeInv

LEMMA FailRequeueTimeInv ==
  ASSUME IInv, TimeInv, NEW c \in Consumers, NEW delay \in RetryDelays, FailRequeue(c, delay)
  PROVE  TimeInv'
<1>1. PICK j \in Jobs : j = holds[c]
  BY OwnedFacts DEF FailRequeue
<1> DEFINE due == now + delay
<1>2. now \in Nat /\ due \in Nat
  BY BrokerAssumption DEF IInv, TypeOK, StoreTypeOK
<1>3. /\ UNCHANGED <<now, queue, scheduled, schedulerVars>>
      /\ retry' = [retry EXCEPT ![j] = Unix(due)]
      /\ dueAt' = [dueAt EXCEPT ![j] = due]
  BY <1>1 DEF FailRequeue, SetZaddZrem
<1> HIDE DEF due
<1>4. ~InQueue(j) /\ scheduled[j] = Absent /\ retry[j] = Absent
  BY <1>1, OwnedFacts DEF FailRequeue
<1>5. /\ dueAt'[j] = due /\ retry'[j] = Unix(due)
      /\ \A k \in Jobs : k # j => dueAt'[k] = dueAt[k] /\ retry'[k] = retry[k]
  BY <1>3 DEF IInv, TypeOK, StoreTypeOK
<1>6. \A k \in Jobs : InQueue(k)' <=> InQueue(k)
  BY <1>3, SameQueues
<1>7. DueInv(j)'
  BY <1>2, <1>3, <1>4, <1>5, <1>6 DEF DueInv, Unix
<1>8. \A k \in Jobs : k # j => Waits(k)
  BY <1>3, <1>5, <1>6 DEF Waits
<1>9. now' \in Nat /\ now' >= now
  BY <1>2, <1>3
<1> QED BY <1>3, <1>4, <1>7, <1>8, <1>9, OthersTimeInv

LEMMA ConsumerTimeInv ==
  ASSUME IInv, TimeInv, NEW c \in Consumers, ConsumerNext(c)
  PROVE  TimeInv'
<1>1. now \in Nat
  BY DEF IInv, TypeOK, StoreTypeOK
<1> USE DEF store, schedulerVars, history
<1>2. CASE \E q \in Queues : DequeuePop(c, q)
  BY <1>2, DequeuePopTimeInv
<1>3. CASE \E delay \in RetryDelays : FailRequeue(c, delay)
  BY <1>3, FailRequeueTimeInv
<1>4. CASE DequeueGet(c) \/ StartHandler(c) \/ Drop(c)
  BY <1>1, <1>4, QuietTimeInv DEF DequeueGet, StartHandler, Drop
<1>5. CASE NoHandler(c) \/ FailDead(c)
  BY <1>1, <1>5, QuietTimeInv DEF NoHandler, FailDead, SetLpushZrem
<1>6. CASE AcknowledgeZrem(c) \/ AcknowledgeDel(c)
  BY <1>1, <1>6, QuietTimeInv DEF AcknowledgeZrem, AcknowledgeDel
<1> QED BY <1>2, <1>3, <1>4, <1>5, <1>6 DEF ConsumerNext

LEMMA AdminTimeInv ==
  ASSUME IInv, TimeInv, NEW a \in Admins, AdminNext(a)
  PROVE  TimeInv'
<1>1. now \in Nat /\ TicksPerSecond \in Nat /\ TicksPerSecond > 0
  BY StoreAssumption DEF IInv, TypeOK, StoreTypeOK
<1>2. CASE (\E j \in Jobs : RetryDeadRead(a, j)) \/ AdminAbort(a)
  <2>1. UNCHANGED <<now, queue, scheduled, retry, dueAt, schedulerVars>>
    BY <1>2 DEF RetryDeadRead, AdminAbort, store, history
  <2> QED BY <1>1, <2>1, QuietTimeInv
<1>3. CASE RetryDeadScript(a)
  <2>1. PICK j \in Jobs : j = target[a]
    BY <1>3 DEF RetryDeadScript, IInv, AdminInv
  <2>2. /\ UNCHANGED <<now, schedulerVars>>
        /\ dead[j] > 0 => dueAt' = [dueAt EXCEPT ![j] = now]
        /\ ~(dead[j] > 0) => UNCHANGED dueAt
        /\ \/ dead[j] = 0 /\ UNCHANGED store
           \/ dead[j] > 0 /\ LPush(j) /\ UNCHANGED <<scheduled, retry>>
    BY <1>3, <2>1 DEF RetryDeadScript, RetryDeadJob
  <2>3. CASE dead[j] = 0 /\ UNCHANGED store
    BY <1>1, <2>2, <2>3, QuietTimeInv DEF store
  <2>4. CASE dead[j] > 0 /\ LPush(j) /\ UNCHANGED <<scheduled, retry>>
    <3>1. OnePlace(j)
      BY DEF IInv
    <3>2. ~InQueue(j) /\ scheduled[j] = Absent /\ retry[j] = Absent
      BY <2>4, <3>1 DEF OnePlace
    <3>3. \A k \in Jobs : InQueue(k)' <=> (InQueue(k) \/ k = j)
      BY <2>4, <3>2, LPushFacts DEF IInv, TypeOK
    <3>4. dueAt'[j] = now /\ \A k \in Jobs : k # j => dueAt'[k] = dueAt[k]
      BY <2>2, <2>4 DEF IInv, TypeOK
    <3>5. DueInv(j)'
      BY <1>1, <2>2, <2>4, <3>2, <3>4 DEF DueInv
    <3>6. \A k \in Jobs : k # j => Waits(k)
      BY <2>4, <3>3, <3>4 DEF Waits
    <3>7. now' \in Nat /\ now' >= now
      BY <1>1, <2>2
    <3> QED BY <2>2, <3>2, <3>5, <3>6, <3>7, OthersTimeInv
  <2> QED BY <2>2, <2>3, <2>4
<1> QED BY <1>2, <1>3 DEF AdminNext

-----------------------------------------------------------------------------
(* The scheduler                                                           *)

\* Reading the clock, listing and giving up leave the store alone.
LEMMA SchedulerTimeInv ==
  ASSUME IInv, TimeInv, NEW s \in Schedulers,
         PromoteStart(s) \/ (\E src \in Sources : PromoteList(s, src)) \/ PromoteAbort(s)
  PROVE  TimeInv'
<1>1. now \in Nat /\ listedAt[s] \in Nat /\ PromotionInv(s)
  BY DEF IInv, TypeOK, StoreTypeOK, TimeInv
<1>2. UNCHANGED <<now, queue, scheduled, retry, dueAt>>
  BY DEF PromoteStart, PromoteList, PromoteAbort, store, history
<1>3. ASSUME NEW j \in Jobs PROVE DueInv(j)'
  <2>1. Waits(j)
    BY <1>2, SameQueues DEF Waits
  <2> QED BY <1>1, <1>2, <2>1, WaitsDue DEF TimeInv
<1>4. ASSUME NEW t \in Schedulers, t # s PROVE PromotionInv(t)'
  <2>1. listedAt'[t] = listedAt[t] /\ ids'[t] = ids[t]
    BY <1>4 DEF PromoteStart, PromoteList, PromoteAbort, IInv, TypeOK
  <2>2. source'[t] = source[t]
    BY <1>4 DEF PromoteStart, PromoteList, PromoteAbort, IInv, TypeOK
  <2> QED BY <1>2, <2>1, <2>2 DEF PromotionInv, Score, Unix, TimeInv
<1>5. PromotionInv(s)'
  <2>1. CASE PromoteStart(s) \/ PromoteAbort(s)
    <3>1. ids'[s] = {} /\ (listedAt'[s] = now \/ listedAt'[s] = listedAt[s])
      BY <2>1 DEF PromoteStart, PromoteAbort, IInv, TypeOK
    <3> QED BY <1>1, <1>2, <3>1 DEF PromotionInv
  <2>2. CASE \E src \in Sources : PromoteList(s, src)
    <3>1. PICK src \in Sources : PromoteList(s, src)
      BY <2>2
    <3>2. /\ source'[s] = src /\ listedAt'[s] = listedAt[s]
          /\ ids'[s] = {j \in Jobs : Score(src, j) # Absent /\ Score(src, j) <= Unix(listedAt[s])}
      BY <3>1 DEF PromoteList, IInv, TypeOK
    <3> QED BY <1>1, <1>2, <3>2 DEF PromotionInv, Score, Unix
  <2> QED BY <2>1, <2>2
<1> QED BY <1>3, <1>4, <1>5 DEF TimeInv

\* The script moves a listed ID, still where it was listed, to its queue.
LEMMA PromoteOneTimeInv ==
  ASSUME IInv, TimeInv, OneScheduler, NEW s \in Schedulers, NEW j \in Jobs, PromoteOne(s, j)
  PROVE  TimeInv'
<1>1. now \in Nat /\ TicksPerSecond \in Nat
  BY StoreAssumption DEF IInv, TypeOK, StoreTypeOK
<1>2. /\ j \in ids[s] /\ PromoteJob(source[s], j)
      /\ ids' = [ids EXCEPT ![s] = ids[s] \ {j}]
      /\ UNCHANGED <<now, dueAt, listedAt, source>>
  BY DEF PromoteOne, history
<1>3. Score(source[s], j) # Absent
  BY <1>2 DEF TimeInv, PromotionInv
<1>4. ~InQueue(j) /\ OnePlace(j) /\ Lifecycle(j) /\ record[j] # NoRecord
  <2>1. OnePlace(j) /\ Lifecycle(j)
    BY DEF IInv
  <2> QED BY <1>3, <2>1 DEF OnePlace, Lifecycle, Located, Score
<1>5. ZremFrom(source[s], j) /\ LPush(j)
  BY <1>2, <1>3, <1>4 DEF PromoteJob
<1>6. \A k \in Jobs : InQueue(k)' <=> (InQueue(k) \/ k = j)
  BY <1>4, <1>5, LPushFacts DEF IInv, TypeOK
<1>7. \A k \in Jobs : k # j => scheduled'[k] = scheduled[k] /\ retry'[k] = retry[k]
  BY <1>5 DEF ZremFrom, IInv, TypeOK, StoreTypeOK
<1>8. scheduled'[j] = Absent /\ retry'[j] = Absent
  <2>1. OnePlace(j)
    BY <1>4
  <2> QED BY <1>3, <1>5, <2>1 DEF ZremFrom, Score, OnePlace, IInv, TypeOK, StoreTypeOK
<1>9. ASSUME NEW k \in Jobs PROVE DueInv(k)'
  <2>1. CASE k = j
    <3>1. now + TicksPerSecond > dueAt[j]
      BY <1>2, ListedIsDue
    <3> QED BY <1>2, <1>8, <2>1, <3>1 DEF DueInv
  <2>2. CASE k # j
    <3>1. Waits(k)
      BY <1>2, <1>6, <1>7, <2>2 DEF Waits
    <3> QED BY <1>1, <1>2, <3>1, WaitsDue DEF TimeInv
  <2> QED BY <2>1, <2>2
<1>10. ASSUME NEW t \in Schedulers PROVE PromotionInv(t)'
  <2>1. t = s /\ PromotionInv(s) /\ ids[s] \subseteq Jobs
    BY DEF OneScheduler, TimeInv, IInv, TypeOK
  <2>2. ids'[s] = ids[s] \ {j}
    BY <1>2 DEF IInv, TypeOK
  <2> QED BY <1>2, <1>7, <2>1, <2>2 DEF PromotionInv, Score, Unix
<1> QED BY <1>9, <1>10 DEF TimeInv

LEMMA NextTimeInv ==
  ASSUME OneScheduler
  PROVE  IInv /\ TimeInv /\ [Next]_vars => TimeInv'
<1> SUFFICES ASSUME IInv, TimeInv, [Next]_vars PROVE TimeInv'
  OBVIOUS
<1>1. now \in Nat
  BY DEF IInv, TypeOK, StoreTypeOK
<1>2. CASE \E j \in Jobs, delay \in EnqueueDelays : Enqueue(j, delay)
  BY <1>2, EnqueueTimeInv
<1>3. CASE \E c \in Consumers : ConsumerNext(c)
  BY <1>3, ConsumerTimeInv
<1>4. CASE \E s \in Schedulers : SchedulerNext(s)
  BY <1>4, SchedulerTimeInv, PromoteOneTimeInv DEF SchedulerNext
<1>5. CASE \E a \in Admins : AdminNext(a)
  BY <1>5, AdminTimeInv
<1>6. CASE Tick
  BY <1>1, <1>6, QuietTimeInv DEF Tick, store, history
<1>7. CASE UNCHANGED vars
  BY <1>1, <1>7, QuietTimeInv DEF vars, store, history
<1> QED BY <1>2, <1>3, <1>4, <1>5, <1>6, <1>7 DEF Next

\* With one scheduler at work a job is ready at most the fraction of a second
\* before it is due that Unix() cuts off, for every clock resolution, however
\* long PromoteDueJobs takes over the IDs it listed and whatever consumers and
\* admins do meanwhile (the score it listed an ID by is still the ID's score
\* when promoteJobScript claims it).
THEOREM ReadyWhenDue == OneScheduler => (Spec => []NeverASecondEarly)
<1> SUFFICES ASSUME OneScheduler PROVE Spec => []NeverASecondEarly
  OBVIOUS
<1>1. Init => TimeInv
  BY InitTimeInv
<1>2. IInv /\ TimeInv /\ [Next]_vars => TimeInv'
  BY NextTimeInv
<1>3. TimeInv => NeverASecondEarly
  BY DEF TimeInv, DueInv, NeverASecondEarly
<1> QED BY <1>1, <1>2, <1>3, Invariance, PTL DEF Spec
=============================================================================
