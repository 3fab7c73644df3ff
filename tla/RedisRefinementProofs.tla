----------------------- MODULE RedisRefinementProofs -----------------------
(***************************************************************************)
(* The Redis broker implements the contract of the Broker interface, for   *)
(* any number of jobs, queues and callers: seen through the refinement     *)
(* mapping, every step of every caller is one method's move of one job, or *)
(* changes nothing.                                                        *)
(***************************************************************************)
EXTENDS RedisBrokerProofs

\* Where a job is tells its phase, because it is in one place only.
LEMMA PhaseFacts ==
  ASSUME NEW j \in Jobs, OnePlace(j), Lifecycle(j), dead[j] \in Nat
  PROVE  /\ InQueue(j) => PhaseOf(j) = "ready"
         /\ j \in active => PhaseOf(j) = "active"
         /\ dead[j] > 0 => PhaseOf(j) = "dead"
         /\ scheduled[j] # Absent \/ retry[j] # Absent => PhaseOf(j) = "later"
         /\ j \in succeeded => PhaseOf(j) = "done" /\ UsedOf(j) = 0
         /\ born[j] = Absent => PhaseOf(j) = "unborn" /\ UsedOf(j) = 0
         /\ Located(j) => UsedOf(j) = record[j].attempts
BY DEF PhaseOf, UsedOf, OnePlace, Lifecycle, Located

LEMMA NextPhaseFacts ==
  ASSUME NEW j \in Jobs, OnePlace(j)', Lifecycle(j)', dead'[j] \in Nat
  PROVE  /\ InQueue(j)' => PhaseOf(j)' = "ready"
         /\ j \in active' => PhaseOf(j)' = "active"
         /\ dead'[j] > 0 => PhaseOf(j)' = "dead"
         /\ scheduled'[j] # Absent \/ retry'[j] # Absent => PhaseOf(j)' = "later"
         /\ j \in succeeded' => PhaseOf(j)' = "done" /\ UsedOf(j)' = 0
         /\ born'[j] = Absent => PhaseOf(j)' = "unborn" /\ UsedOf(j)' = 0
         /\ Located(j)' => UsedOf(j)' = record'[j].attempts
BY DEF PhaseOf, UsedOf, OnePlace, Lifecycle, Located

\* The step does not touch the job.
Untouched(j) ==
  /\ InQueue(j)' <=> InQueue(j)
  /\ scheduled'[j] = scheduled[j] /\ retry'[j] = retry[j] /\ dead'[j] = dead[j]
  /\ j \in active' <=> j \in active
  /\ j \in succeeded' <=> j \in succeeded
  /\ record'[j] = record[j]

Same(j) == PhaseOf(j)' = PhaseOf(j) /\ UsedOf(j)' = UsedOf(j)

LEMMA UntouchedSame ==
  ASSUME NEW j \in Jobs, Untouched(j)
  PROVE  Same(j)
BY DEF Untouched, Same, PhaseOf, UsedOf, Located

\* The moves that the contract allows a job.
ContractMove(j) ==
  \/ PhaseOf(j) = "unborn" /\ PhaseOf(j)' \in {"later", "ready"} /\ UsedOf(j)' = 0
  \/ PhaseOf(j) = "later" /\ PhaseOf(j)' = "ready" /\ UsedOf(j)' = UsedOf(j)
  \/ PhaseOf(j) = "ready" /\ PhaseOf(j)' = "active" /\ UsedOf(j)' = UsedOf(j)
  \/ PhaseOf(j) = "active" /\ PhaseOf(j)' = "done" /\ UsedOf(j)' = 0
  \/ /\ PhaseOf(j) = "active" /\ PhaseOf(j)' = "later"
     /\ UsedOf(j)' = UsedOf(j) + 1 /\ UsedOf(j) + 1 < MaxAttempts[j]
  \/ /\ PhaseOf(j) = "active" /\ PhaseOf(j)' = "dead"
     /\ \/ UsedOf(j)' = UsedOf(j)
        \/ UsedOf(j)' = UsedOf(j) + 1 /\ UsedOf(j) + 1 >= MaxAttempts[j]
  \/ PhaseOf(j) = "dead" /\ PhaseOf(j)' = "ready" /\ UsedOf(j)' = 0

\* One job moves and the others stay, or all stay: a step of the contract.
OneMoves == \E j \in Jobs : ContractMove(j) /\ \A k \in Jobs \ {j} : Same(k)
NoneMoves == \A k \in Jobs : Same(k)

LEMMA NoneMovesStep ==
  ASSUME NoneMoves
  PROVE  Contract!BrokerStep
BY DEF NoneMoves, Same, Contract!BrokerStep, Contract!brokerVars

LEMMA OneMovesStep ==
  ASSUME OneMoves
  PROVE  Contract!BrokerStep
<1>1. PICK j \in Jobs : ContractMove(j) /\ \A k \in Jobs \ {j} : Same(k)
  BY DEF OneMoves
<1>2. ASSUME NEW from, NEW to, NEW n, PhaseOf(j) = from, PhaseOf(j)' = to, UsedOf(j)' = n
      PROVE  Contract!Move(j, from, to, n)
  BY <1>1, <1>2 DEF Contract!Move, Same
<1>3. [k \in Jobs |-> UsedOf(k)][j] = UsedOf(j)
  OBVIOUS
<1> USE DEF Contract!BrokerStep, Contract!BrokerNext
<1>4. CASE PhaseOf(j) = "unborn" /\ PhaseOf(j)' \in {"later", "ready"} /\ UsedOf(j)' = 0
  BY <1>2, <1>4 DEF Contract!Enqueue
<1>5. CASE PhaseOf(j) = "later" /\ PhaseOf(j)' = "ready" /\ UsedOf(j)' = UsedOf(j)
  BY <1>2, <1>3, <1>5 DEF Contract!PromoteDueJob
<1>6. CASE PhaseOf(j) = "ready" /\ PhaseOf(j)' = "active" /\ UsedOf(j)' = UsedOf(j)
  BY <1>2, <1>3, <1>6 DEF Contract!Dequeue
<1>7. CASE PhaseOf(j) = "active" /\ PhaseOf(j)' = "done" /\ UsedOf(j)' = 0
  BY <1>2, <1>7 DEF Contract!Acknowledge
<1>8. CASE /\ PhaseOf(j) = "active" /\ PhaseOf(j)' = "later"
           /\ UsedOf(j)' = UsedOf(j) + 1 /\ UsedOf(j) + 1 < MaxAttempts[j]
  BY <1>2, <1>3, <1>8 DEF Contract!Requeue
<1>9. CASE /\ PhaseOf(j) = "active" /\ PhaseOf(j)' = "dead"
           /\ \/ UsedOf(j)' = UsedOf(j)
              \/ UsedOf(j)' = UsedOf(j) + 1 /\ UsedOf(j) + 1 >= MaxAttempts[j]
  BY <1>2, <1>3, <1>9 DEF Contract!MoveToDeadLetter
<1>10. CASE PhaseOf(j) = "dead" /\ PhaseOf(j)' = "ready" /\ UsedOf(j)' = 0
  BY <1>2, <1>10 DEF Contract!RetryDeadJob
<1> QED BY <1>1, <1>4, <1>5, <1>6, <1>7, <1>8, <1>9, <1>10 DEF ContractMove

-----------------------------------------------------------------------------
(* Every step moves at most one job                                        *)

\* The two lemmas on phases, for the states before and after a step.
LEMMA StepPhases ==
  ASSUME IInv, IInv', NEW j \in Jobs
  PROVE  /\ InQueue(j) => PhaseOf(j) = "ready"
         /\ j \in active => PhaseOf(j) = "active"
         /\ dead[j] > 0 => PhaseOf(j) = "dead"
         /\ scheduled[j] # Absent \/ retry[j] # Absent => PhaseOf(j) = "later"
         /\ j \in succeeded => PhaseOf(j) = "done" /\ UsedOf(j) = 0
         /\ born[j] = Absent => PhaseOf(j) = "unborn" /\ UsedOf(j) = 0
         /\ Located(j) => UsedOf(j) = record[j].attempts
         /\ InQueue(j)' => PhaseOf(j)' = "ready"
         /\ j \in active' => PhaseOf(j)' = "active"
         /\ dead'[j] > 0 => PhaseOf(j)' = "dead"
         /\ scheduled'[j] # Absent \/ retry'[j] # Absent => PhaseOf(j)' = "later"
         /\ j \in succeeded' => PhaseOf(j)' = "done" /\ UsedOf(j)' = 0
         /\ born'[j] = Absent => PhaseOf(j)' = "unborn" /\ UsedOf(j)' = 0
         /\ Located(j)' => UsedOf(j)' = record'[j].attempts
<1>1. OnePlace(j) /\ Lifecycle(j) /\ dead[j] \in Nat
  BY DEF IInv, TypeOK, StoreTypeOK
<1>2. OnePlace(j)' /\ Lifecycle(j)' /\ dead'[j] \in Nat
  BY DEF IInv, TypeOK, StoreTypeOK
<1> QED BY <1>1, <1>2, PhaseFacts, NextPhaseFacts

LEMMA EnqueueMoves ==
  ASSUME IInv, IInv', NEW j \in Jobs, NEW delay \in EnqueueDelays, Enqueue(j, delay)
  PROVE  OneMoves
<1> DEFINE rec == NewJob(now + delay)
<1>1. now + delay \in Nat
  BY BrokerAssumption DEF IInv, TypeOK, StoreTypeOK
<1>2. rec.attempts = 0 /\ rec.processAt = now + delay
  BY <1>1, NewJobFacts
<1>3. Unix(rec.processAt) # Absent
  BY <1>1, <1>2, UnixNat
<1> HIDE DEF rec
<1>4. /\ born[j] = Absent /\ UNCHANGED <<retry, dead, active, succeeded>>
      /\ record' = [record EXCEPT ![j] = rec]
      /\ \/ scheduled' = scheduled /\ LPush(j)
         \/ queue' = queue /\ scheduled' = [scheduled EXCEPT ![j] = Unix(rec.processAt)]
  BY DEF Enqueue, SetBranchLpushZadd, Set, rec
<1>5. ~InQueue(j) /\ Lifecycle(j)
  BY <1>4 DEF IInv, Lifecycle, Located
<1>6. /\ \A k \in Jobs \ {j} : (InQueue(k)' <=> InQueue(k)) /\ scheduled'[k] = scheduled[k]
      /\ InQueue(j)' \/ scheduled'[j] # Absent
  <2>1. CASE scheduled' = scheduled /\ LPush(j)
    BY <1>5, <2>1, LPushFacts DEF IInv, TypeOK
  <2>2. CASE queue' = queue /\ scheduled' = [scheduled EXCEPT ![j] = Unix(rec.processAt)]
    BY <1>3, <2>2, SameQueues DEF IInv, TypeOK, StoreTypeOK
  <2> QED BY <1>4, <2>1, <2>2
<1>7. record'[j] = rec /\ \A k \in Jobs \ {j} : record'[k] = record[k]
  BY <1>4 DEF IInv, TypeOK, StoreTypeOK
<1>8. \A k \in Jobs \ {j} : Same(k)
  BY <1>4, <1>6, <1>7, UntouchedSame DEF Untouched
<1>9. PhaseOf(j) = "unborn" /\ PhaseOf(j)' \in {"later", "ready"}
  BY <1>4, <1>6, StepPhases
<1>10. UsedOf(j)' = 0
  BY <1>2, <1>6, <1>7, StepPhases DEF Located
<1> QED BY <1>8, <1>9, <1>10 DEF OneMoves, ContractMove

LEMMA DequeuePopMoves ==
  ASSUME IInv, IInv', NEW c \in Consumers, NEW q \in Queues, DequeuePop(c, q)
  PROVE  OneMoves
<1>1. /\ RpopZadd(q) /\ active' = active \cup {Head(queue[q])}
      /\ UNCHANGED <<record, scheduled, retry, dead, succeeded>>
  BY DEF DequeuePop, RpopZadd, history
<1>2. PICK j \in Jobs : j = Head(queue[q]) /\ InQueue(j) /\ \A k \in Jobs : InQueue(k)' <=> (InQueue(k) /\ k # j)
  BY <1>1, RPopFacts DEF IInv, TypeOK
<1>3. \A k \in Jobs \ {j} : Same(k)
  BY <1>1, <1>2, UntouchedSame DEF Untouched
<1>4. PhaseOf(j) = "ready" /\ PhaseOf(j)' = "active"
  BY <1>1, <1>2, StepPhases
<1>5. UsedOf(j)' = UsedOf(j)
  BY <1>1, <1>2, StepPhases DEF Located
<1> QED BY <1>3, <1>4, <1>5 DEF OneMoves, ContractMove

\* An in-flight job gets its outcome.
LEMMA DeadLetterMoves ==
  ASSUME IInv, IInv', NEW c \in Consumers, pc[c] \in {"held", "running"},
         NEW rec \in JobRecord, SetLpushZrem(holds[c], rec), UNCHANGED succeeded,
         \/ rec.attempts = copy[c].attempts
         \/ rec.attempts = copy[c].attempts + 1 /\ Exhausted(c)
  PROVE  OneMoves
<1>1. PICK j \in Jobs : j = holds[c]
  BY OwnedFacts
<1>2. /\ j \in active /\ dead[j] = 0 /\ copy[c] = record[j] /\ record[j] \in JobRecord
  BY <1>1, OwnedFacts DEF IInv, ConsumerInv
<1>3. /\ record'[j] = rec /\ dead'[j] = dead[j] + 1
      /\ \A k \in Jobs \ {j} : record'[k] = record[k] /\ dead'[k] = dead[k]
      /\ active' = active \ {j} /\ UNCHANGED <<queue, scheduled, retry>>
  BY <1>1 DEF SetLpushZrem, Set, IInv, TypeOK, StoreTypeOK
<1>4. \A k \in Jobs \ {j} : Same(k)
  BY <1>3, SameQueues, UntouchedSame DEF Untouched
<1>5. PhaseOf(j) = "active" /\ PhaseOf(j)' = "dead"
  BY <1>2, <1>3, StepPhases
<1>6. UsedOf(j) = copy[c].attempts /\ UsedOf(j)' = rec.attempts
  BY <1>2, <1>3, StepPhases DEF Located
<1>7. UsedOf(j)' = UsedOf(j) \/ (UsedOf(j)' = UsedOf(j) + 1 /\ UsedOf(j) + 1 >= MaxAttempts[j])
  BY <1>1, <1>6 DEF Exhausted
<1> QED BY <1>4, <1>5, <1>7 DEF OneMoves, ContractMove

LEMMA FailRequeueMoves ==
  ASSUME IInv, IInv', NEW c \in Consumers, NEW delay \in RetryDelays, FailRequeue(c, delay)
  PROVE  OneMoves
<1> DEFINE at == Unix(now + delay)
           rec == Failed(c, "retry")
<1>1. pc[c] = "running" /\ ~Exhausted(c) /\ SetZaddZrem(holds[c], rec, now + delay) /\ UNCHANGED succeeded
  BY DEF FailRequeue
<1>2. PICK j \in Jobs : j = holds[c]
  BY <1>1, OwnedFacts
<1>3. j \in active /\ copy[c] = record[j] /\ record[j] \in JobRecord
  BY <1>1, <1>2, OwnedFacts DEF IInv, ConsumerInv
<1>4. at # Absent
  BY BrokerAssumption, UnixNat DEF IInv, TypeOK, StoreTypeOK
<1>5. rec.attempts = copy[c].attempts + 1
  BY <1>3, FailedFacts DEF Status
<1> HIDE DEF rec, at
<1>6. /\ record' = [record EXCEPT ![j] = rec] /\ retry' = [retry EXCEPT ![j] = at]
      /\ active' = active \ {j} /\ UNCHANGED <<queue, scheduled, dead>>
  BY <1>1, <1>2 DEF SetZaddZrem, Set, at
<1>7. /\ record'[j] = rec /\ retry'[j] = at
      /\ \A k \in Jobs \ {j} : record'[k] = record[k] /\ retry'[k] = retry[k]
  BY <1>6 DEF IInv, TypeOK, StoreTypeOK
<1>8. \A k \in Jobs \ {j} : Same(k)
  BY <1>1, <1>6, <1>7, SameQueues, UntouchedSame DEF Untouched
<1>9. PhaseOf(j) = "active" /\ PhaseOf(j)' = "later"
  BY <1>3, <1>4, <1>7, StepPhases
<1>10. UsedOf(j) = copy[c].attempts /\ UsedOf(j)' = copy[c].attempts + 1
  BY <1>3, <1>4, <1>5, <1>7, StepPhases DEF Located
<1>11. UsedOf(j) + 1 < MaxAttempts[j]
  <2>1. copy[c].attempts \in Nat /\ MaxAttempts[j] \in Nat
    BY <1>3, BrokerAssumption DEF JobRecord
  <2> QED BY <1>1, <1>2, <1>10, <2>1 DEF Exhausted
<1> QED BY <1>8, <1>9, <1>10, <1>11 DEF OneMoves, ContractMove

LEMMA AcknowledgeZremMoves ==
  ASSUME IInv, IInv', NEW c \in Consumers, AcknowledgeZrem(c)
  PROVE  OneMoves
<1>1. PICK j \in Jobs : j = holds[c] /\ j \in active
  BY OwnedFacts DEF AcknowledgeZrem
<1>2. /\ active' = active \ {j} /\ succeeded' = succeeded \cup {j}
      /\ UNCHANGED <<record, queue, scheduled, retry, dead>>
  BY <1>1 DEF AcknowledgeZrem
<1>3. \A k \in Jobs \ {j} : Same(k)
  BY <1>2, SameQueues, UntouchedSame DEF Untouched
<1>4. PhaseOf(j) = "active" /\ PhaseOf(j)' = "done" /\ UsedOf(j)' = 0
  BY <1>1, <1>2, StepPhases
<1> QED BY <1>3, <1>4 DEF OneMoves, ContractMove

\* The record that DEL removes is one whose job is done: the contract does not
\* see it.
LEMMA AcknowledgeDelStays ==
  ASSUME IInv, IInv', NEW c \in Consumers, AcknowledgeDel(c)
  PROVE  NoneMoves
<1>1. PICK j \in Jobs : j = holds[c] /\ j \in succeeded
  BY DEF AcknowledgeDel, IInv, ConsumerInv
<1>2. /\ record' = [record EXCEPT ![j] = NoRecord]
      /\ UNCHANGED <<queue, scheduled, retry, dead, active, succeeded>>
  BY <1>1 DEF AcknowledgeDel, Set, history
<1>3. \A k \in Jobs \ {j} : record'[k] = record[k]
  BY <1>2 DEF IInv, TypeOK, StoreTypeOK
<1>4. \A k \in Jobs \ {j} : Same(k)
  BY <1>2, <1>3, SameQueues, UntouchedSame DEF Untouched
<1>5. Same(j)
  BY <1>1, <1>2, StepPhases DEF Same
<1> QED BY <1>4, <1>5 DEF NoneMoves

LEMMA PromoteOneMoves ==
  ASSUME IInv, IInv', NEW s \in Schedulers, NEW j \in Jobs, PromoteOne(s, j)
  PROVE  OneMoves \/ NoneMoves
<1>1. PromoteJob(source[s], j) /\ UNCHANGED succeeded /\ source[s] \in Sources
  BY DEF PromoteOne, history, IInv, TypeOK
<1>2. CASE Score(source[s], j) = Absent
  <2>1. UNCHANGED store
    BY <1>1, <1>2 DEF PromoteJob
  <2> QED BY <1>1, <2>1, SameQueues, UntouchedSame DEF Untouched, NoneMoves, store
<1>3. CASE Score(source[s], j) # Absent
  <2>1. /\ ZremFrom(source[s], j) /\ UNCHANGED <<record, dead, active>>
        /\ (record[j] = NoRecord /\ UNCHANGED queue) \/ (record[j] # NoRecord /\ LPush(j))
    BY <1>1, <1>3 DEF PromoteJob, store
  <2>2. scheduled[j] # Absent \/ retry[j] # Absent
    BY <1>3 DEF Score
  <2>3. ~InQueue(j) /\ record[j] # NoRecord
    BY <2>2 DEF IInv, OnePlace, Lifecycle, Located
  <2>4. \A k \in Jobs : InQueue(k)' <=> (InQueue(k) \/ k = j)
    BY <2>1, <2>3, LPushFacts DEF IInv, TypeOK
  <2>5. \A k \in Jobs \ {j} : scheduled'[k] = scheduled[k] /\ retry'[k] = retry[k]
    BY <2>1 DEF ZremFrom, IInv, TypeOK, StoreTypeOK
  <2>6. \A k \in Jobs \ {j} : Same(k)
    BY <1>1, <2>1, <2>4, <2>5, UntouchedSame DEF Untouched
  <2>7. PhaseOf(j) = "later" /\ PhaseOf(j)' = "ready"
    BY <2>2, <2>4, StepPhases
  <2>8. UsedOf(j)' = UsedOf(j)
    BY <2>1, <2>2, <2>4, StepPhases DEF Located
  <2> QED BY <2>6, <2>7, <2>8 DEF OneMoves, ContractMove
<1> QED BY <1>2, <1>3

LEMMA RetryDeadScriptMoves ==
  ASSUME IInv, IInv', NEW a \in Admins, RetryDeadScript(a)
  PROVE  OneMoves \/ NoneMoves
<1>1. PICK j \in Jobs : j = target[a]
  BY DEF RetryDeadScript, IInv, AdminInv
<1>2. PICK rec \in JobRecord : rec = reset[a] /\ rec.attempts = 0
  BY DEF RetryDeadScript, IInv, AdminInv
<1>3. RetryDeadJob(j, rec) /\ UNCHANGED succeeded
  BY <1>1, <1>2 DEF RetryDeadScript
<1>4. CASE dead[j] = 0
  <2>1. UNCHANGED store
    BY <1>3, <1>4 DEF RetryDeadJob
  <2> QED BY <1>3, <2>1, SameQueues, UntouchedSame DEF Untouched, NoneMoves, store
<1>5. CASE dead[j] > 0
  <2>1. /\ dead' = [dead EXCEPT ![j] = @ - 1] /\ record' = [record EXCEPT ![j] = rec]
        /\ LPush(j) /\ UNCHANGED <<scheduled, retry, active>>
    BY <1>3, <1>5 DEF RetryDeadJob, Set
  <2>2. ~InQueue(j)
    BY <1>5 DEF IInv, OnePlace
  <2>3. \A k \in Jobs : InQueue(k)' <=> (InQueue(k) \/ k = j)
    BY <2>1, <2>2, LPushFacts DEF IInv, TypeOK
  <2>4. record'[j] = rec /\ \A k \in Jobs \ {j} : record'[k] = record[k] /\ dead'[k] = dead[k]
    BY <2>1 DEF IInv, TypeOK, StoreTypeOK
  <2>5. \A k \in Jobs \ {j} : Same(k)
    BY <1>3, <2>1, <2>3, <2>4, UntouchedSame DEF Untouched
  <2>6. PhaseOf(j) = "dead" /\ PhaseOf(j)' = "ready"
    BY <1>5, <2>3, StepPhases
  <2>7. UsedOf(j)' = 0
    BY <1>2, <2>3, <2>4, StepPhases DEF Located
  <2> QED BY <2>5, <2>6, <2>7 DEF OneMoves, ContractMove
<1>6. dead[j] \in Nat
  BY DEF IInv, TypeOK, StoreTypeOK
<1> QED BY <1>4, <1>5, <1>6

\* The steps that leave the store as it is.
LEMMA StoreStays ==
  ASSUME UNCHANGED <<store, succeeded>>
  PROVE  NoneMoves
BY SameQueues, UntouchedSame DEF Untouched, NoneMoves, store

LEMMA ConsumerMoves ==
  ASSUME IInv, IInv', NEW c \in Consumers, ConsumerNext(c)
  PROVE  OneMoves \/ NoneMoves
<1>1. CASE \E q \in Queues : DequeuePop(c, q)
  BY <1>1, DequeuePopMoves
<1>2. CASE DequeueGet(c) \/ StartHandler(c) \/ Drop(c)
  BY <1>2, StoreStays DEF DequeueGet, StartHandler, Drop, history
<1>3. CASE NoHandler(c)
  <2>1. pc[c] = "held" /\ copy[c] \in JobRecord
    BY <1>3, OwnedFacts DEF NoHandler, IInv, ConsumerInv
  <2>2. PICK rec \in JobRecord : rec = [copy[c] EXCEPT !.status = "dead"]
    BY <2>1, MarkedDeadFacts
  <2>3. rec.attempts = copy[c].attempts
    BY <2>1, <2>2 DEF JobRecord
  <2>4. SetLpushZrem(holds[c], rec) /\ UNCHANGED succeeded
    BY <1>3, <2>2 DEF NoHandler, history
  <2> QED BY <2>1, <2>3, <2>4, DeadLetterMoves
<1>4. CASE AcknowledgeZrem(c)
  BY <1>4, AcknowledgeZremMoves
<1>5. CASE AcknowledgeDel(c)
  BY <1>5, AcknowledgeDelStays
<1>6. CASE \E delay \in RetryDelays : FailRequeue(c, delay)
  BY <1>6, FailRequeueMoves
<1>7. CASE FailDead(c)
  <2>1. pc[c] = "running" /\ copy[c] \in JobRecord /\ Exhausted(c)
    BY <1>7, OwnedFacts DEF FailDead, IInv, ConsumerInv
  <2>2. PICK rec \in JobRecord : rec = Failed(c, "dead") /\ rec.attempts = copy[c].attempts + 1
    BY <2>1, FailedFacts DEF Status
  <2>3. SetLpushZrem(holds[c], rec) /\ UNCHANGED succeeded
    BY <1>7, <2>2 DEF FailDead, history
  <2> QED BY <2>1, <2>2, <2>3, DeadLetterMoves
<1> QED BY <1>1, <1>2, <1>3, <1>4, <1>5, <1>6, <1>7 DEF ConsumerNext

LEMMA NextMoves ==
  ASSUME IInv, IInv', [Next]_vars
  PROVE  OneMoves \/ NoneMoves
<1>1. CASE \E j \in Jobs, delay \in EnqueueDelays : Enqueue(j, delay)
  BY <1>1, EnqueueMoves
<1>2. CASE \E c \in Consumers : ConsumerNext(c)
  BY <1>2, ConsumerMoves
<1>3. ASSUME NEW s \in Schedulers, SchedulerNext(s) PROVE OneMoves \/ NoneMoves
  <2>1. CASE \E j \in Jobs : PromoteOne(s, j)
    BY <2>1, PromoteOneMoves
  <2>2. CASE PromoteStart(s) \/ (\E src \in Sources : PromoteList(s, src)) \/ PromoteAbort(s)
    BY <2>2, StoreStays DEF PromoteStart, PromoteList, PromoteAbort, history
  <2> QED BY <1>3, <2>1, <2>2 DEF SchedulerNext
<1>4. ASSUME NEW a \in Admins, AdminNext(a) PROVE OneMoves \/ NoneMoves
  <2>1. CASE RetryDeadScript(a)
    BY <2>1, RetryDeadScriptMoves
  <2>2. CASE (\E j \in Jobs : RetryDeadRead(a, j)) \/ AdminAbort(a)
    BY <2>2, StoreStays DEF RetryDeadRead, AdminAbort, history
  <2> QED BY <1>4, <2>1, <2>2 DEF AdminNext
<1>5. CASE Tick \/ UNCHANGED vars
  BY <1>5, StoreStays DEF Tick, vars, history
<1> QED BY <1>1, <1>2, <1>3, <1>4, <1>5 DEF Next

-----------------------------------------------------------------------------
(* The refinement                                                          *)

LEMMA InitContract == Init => Contract!BrokerInit
<1> SUFFICES ASSUME Init, NEW j \in Jobs PROVE PhaseOf(j) = "unborn" /\ UsedOf(j) = 0
  BY DEF Contract!BrokerInit
<1>1. OnePlace(j) /\ Lifecycle(j) /\ dead[j] \in Nat
  BY InitIInv DEF IInv, TypeOK, StoreTypeOK
<1>2. born[j] = Absent
  BY DEF Init
<1> QED BY <1>1, <1>2, PhaseFacts

\* The Redis broker implements the Broker contract, for any number of jobs,
\* queues, consumers, schedulers and admins.
THEOREM RedisImplementsBroker == Spec => ImplementsBroker
<1>1. IInv /\ IInv' /\ [Next]_vars => Contract!BrokerStep
  BY NextMoves, OneMovesStep, NoneMovesStep
<1>2. IInv /\ IInv' /\ [Next]_vars => [Contract!BrokerStep]_(Contract!brokerVars)
  BY <1>1
<1> QED BY InitContract, Invariance, <1>2, PTL DEF Spec, ImplementsBroker, Contract!BrokerSpec
=============================================================================
