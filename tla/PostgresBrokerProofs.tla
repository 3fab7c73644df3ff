------------------------ MODULE PostgresBrokerProofs ------------------------
(***************************************************************************)
(* Safety of the Postgres broker for any number of jobs, queues, keys and  *)
(* consumers: Spec keeps IInv, and IInv implies the safety invariants that *)
(* Postgres.cfg checks on a small instance.                                *)
(***************************************************************************)
EXTENDS PostgresBroker, ProofLemmas

Waiting(j) == Present(j) /\ row[j].status \in {"pending", "retry"}

\* A locked row is one that its claim may take, and stays so: every statement
\* that writes it waits for the lock.  A claimed row is active, and the
\* consumer's copy is what the row says, until somebody deletes the row.
ConsumerInv(c) ==
  /\ stmtNow[c] <= now
  /\ pc[c] = "locked" => /\ holds[c] \in Jobs
                         /\ Waiting(holds[c])
                         /\ row[holds[c]].processAt <= now
  /\ pc[c] = "held" => /\ holds[c] \in Jobs
                       /\ holds[c] \notin deleted =>
                            /\ Present(holds[c])
                            /\ row[holds[c]].status = "active"
                            /\ row[holds[c]].attempts = copy[c]

\* A row lock has one holder, also when the row is the second of its ID.
LockedOnce ==
  \A c, d \in Consumers :
    pc[c] = "locked" /\ pc[d] = "locked" /\ holds[c] = holds[d] => c = d

\* Until it is deleted a job is handed out once more than its row has counted
\* while it is active, as often as that while it waits.
Budget(j) ==
  j \notin deleted =>
    /\ ~Present(j) => runs[j] = 0
    /\ Waiting(j) => runs[j] = row[j].attempts /\ row[j].attempts < MaxAttempts[j]
    /\ Present(j) /\ row[j].status = "active" =>
         runs[j] = row[j].attempts + 1 /\ row[j].attempts < MaxAttempts[j]
    /\ runs[j] <= MaxAttempts[j]

\* The table has finitely many rows, so that a SELECT has an answer.
TableFinite == IsFiniteSet({j \in Jobs : Present(j)})

IInv ==
  /\ TypeOK
  /\ TableFinite
  /\ \A c \in Consumers : ConsumerInv(c)
  /\ LockedOnce
  /\ ClaimedOnce
  /\ \A j \in Jobs : Budget(j)
  /\ CompletedForGood
  /\ OneLivePerKey

-----------------------------------------------------------------------------
(* The table                                                               *)

LEMMA RowFacts ==
  ASSUME NEW r \in Row
  PROVE  r.status \in Statuses /\ r.attempts \in Nat /\ r.processAt \in Nat /\ r # NoRow
BY PostgresAssumption DEF Row

\* SET status, and SET status, attempts.
LEMMA StatusFacts ==
  ASSUME NEW r \in Row, NEW st \in Statuses
  PROVE  /\ [r EXCEPT !.status = st] \in Row
         /\ [r EXCEPT !.status = st].status = st
         /\ [r EXCEPT !.status = st].attempts = r.attempts
BY DEF Row

LEMMA StatusAttemptsFacts ==
  ASSUME NEW r \in Row, NEW st \in Statuses, NEW n \in Nat
  PROVE  /\ [r EXCEPT !.status = st, !.attempts = n] \in Row
         /\ [r EXCEPT !.status = st, !.attempts = n].status = st
         /\ [r EXCEPT !.status = st, !.attempts = n].attempts = n
BY DEF Row

\* A statement that writes one row which the unique index admits.
LEMMA OneRow ==
  ASSUME IInv, NEW j \in Jobs, NEW rec \in Row, Admits(j, rec.status),
         row' = [row EXCEPT ![j] = rec], UNCHANGED uniqueKey
  PROVE  /\ row' \in [Jobs -> Row \cup {NoRow}]
         /\ row'[j] = rec
         /\ \A k \in Jobs \ {j} : row'[k] = row[k]
         /\ TableFinite'
         /\ OneLivePerKey'
<1>1. row' \in [Jobs -> Row \cup {NoRow}] /\ row'[j] = rec /\ \A k \in Jobs \ {j} : row'[k] = row[k]
  BY DEF IInv, TypeOK
<1>2. TableFinite'
  <2> DEFINE P == {k \in Jobs : row[k] # NoRow}
             Q == {k \in Jobs : row'[k] # NoRow}
  <2>1. IsFiniteSet(P \cup {j})
    <3>1. IsFiniteSet(P)
      BY DEF IInv, TableFinite, Present
    <3> HIDE DEF P
    <3> QED BY <3>1, FS_AddElement
  <2>2. Q \subseteq P \cup {j}
    BY <1>1
  <2>3. IsFiniteSet(Q)
    <3> HIDE DEF P, Q
    <3> QED BY <2>1, <2>2, FS_Subset
  <2> QED BY <2>3 DEF TableFinite, Present
<1>3. OneLivePerKey'
  <2> SUFFICES ASSUME NEW k \in Jobs, NEW l \in Jobs, k # l,
                      uniqueKey[k] = uniqueKey[l], uniqueKey[k] # NoKey,
                      row'[k] # NoRow, row'[k].status \in {"pending", "active", "retry"},
                      row'[l] # NoRow, row'[l].status \in {"pending", "active", "retry"}
               PROVE  FALSE
    BY DEF OneLivePerKey, Present
  <2>1. CASE k = j
    BY <1>1, <2>1 DEF Admits, Indexed, Present
  <2>2. CASE l = j
    BY <1>1, <2>2 DEF Admits, Indexed, Present
  <2>3. CASE k # j /\ l # j
    BY <1>1, <2>3 DEF IInv, OneLivePerKey, Present
  <2> QED BY <2>1, <2>2, <2>3
<1> QED BY <1>1, <1>2, <1>3

\* A row that is in the unique index may have any status.
LEMMA LiveAdmits ==
  ASSUME IInv, NEW j \in Jobs, Present(j), row[j].status \in {"pending", "active", "retry"}, NEW st
  PROVE  Admits(j, st)
<1> SUFFICES ASSUME uniqueKey[j] # NoKey, NEW k \in Jobs \ {j}, uniqueKey[k] = uniqueKey[j], Present(k)
             PROVE  ~Indexed(row[k].status)
  BY DEF Admits
<1>1. row[k].status \in Statuses
  BY RowFacts DEF IInv, TypeOK, Present
<1>2. row[k].status \notin {"pending", "active", "retry"}
  BY DEF IInv, OneLivePerKey
<1> QED BY <1>1, <1>2 DEF Statuses, Indexed

LEMMA SameRows ==
  ASSUME IInv, UNCHANGED <<row, uniqueKey>>
  PROVE  TableFinite' /\ OneLivePerKey'
BY DEF IInv, TableFinite, OneLivePerKey, Present

-----------------------------------------------------------------------------
(* The invariant                                                           *)

LEMMA InitIInv == Init => IInv
<1> SUFFICES ASSUME Init PROVE IInv
  OBVIOUS
<1> USE DEF Init
<1>1. TypeOK
  BY PostgresAssumption DEF TypeOK, Absent
<1>2. TableFinite
  <2>1. {j \in Jobs : Present(j)} = {}
    BY DEF Present
  <2> QED BY <2>1, FS_EmptySet DEF TableFinite
<1>3. ASSUME NEW c \in Consumers PROVE ConsumerInv(c)
  BY DEF ConsumerInv
<1>4. LockedOnce /\ ClaimedOnce
  BY DEF LockedOnce, ClaimedOnce, Owns
<1>5. ASSUME NEW j \in Jobs PROVE Budget(j)
  BY PostgresAssumption DEF Budget, Waiting, Present
<1>6. CompletedForGood /\ OneLivePerKey
  BY DEF CompletedForGood, OneLivePerKey, Present
<1> QED BY <1>1, <1>2, <1>3, <1>4, <1>5, <1>6 DEF IInv

\* A new row takes the place of none: nobody holds the ID of a job that was
\* never deleted and has no row.
LEMMA InsertIInv ==
  ASSUME IInv, NEW j \in Jobs, NEW t \in Nat, Insert(j, t),
         born' \in [Jobs -> Nat \cup {Absent}], upsets' \in 0..MaxUpsets,
         UNCHANGED <<uniqueKey, now, claimVars, runs, succeeded, deleted, orphaned>>
  PROVE  IInv'
<1> USE DEF claimVars
<1>1. CASE UNCHANGED row
  <2>1. TypeOK'
    BY <1>1 DEF IInv, TypeOK
  <2>2. TableFinite' /\ OneLivePerKey'
    BY <1>1, SameRows
  <2> QED
    BY <1>1, <2>1, <2>2
    DEF IInv, ConsumerInv, LockedOnce, ClaimedOnce, Owns, Budget, CompletedForGood, Waiting, Present
<1>2. CASE ~UNCHANGED row
  <2> DEFINE rec == [status |-> "pending", attempts |-> 0, processAt |-> t]
  <2>1. ~Present(j) /\ Admits(j, "pending") /\ row' = [row EXCEPT ![j] = rec]
    BY <1>2 DEF Insert
  <2>2. rec \in Row /\ rec.status = "pending" /\ rec.attempts = 0
    BY DEF Row, Statuses
  <2> HIDE DEF rec
  <2>3. /\ row' \in [Jobs -> Row \cup {NoRow}] /\ row'[j] = rec
        /\ \A k \in Jobs \ {j} : row'[k] = row[k]
        /\ TableFinite' /\ OneLivePerKey'
    BY <2>1, <2>2, OneRow
  <2>4. TypeOK'
    BY <2>3 DEF IInv, TypeOK
  <2>5. ASSUME NEW c \in Consumers PROVE ConsumerInv(c)'
    BY <2>1, <2>3 DEF IInv, ConsumerInv, Waiting, Present
  <2>6. LockedOnce' /\ ClaimedOnce'
    BY DEF IInv, LockedOnce, ClaimedOnce, Owns
  <2>7. ASSUME NEW k \in Jobs PROVE Budget(k)'
    <3>1. CASE k = j
      BY <2>1, <2>2, <2>3, <3>1, PostgresAssumption DEF IInv, Budget, Waiting, Present
    <3>2. CASE k # j
      BY <2>3, <3>2 DEF IInv, Budget, Waiting, Present
    <3> QED BY <3>1, <3>2
  <2>8. CompletedForGood'
    BY <2>1, <2>3 DEF IInv, CompletedForGood, Present, TypeOK
  <2> QED BY <2>3, <2>4, <2>5, <2>6, <2>7, <2>8 DEF IInv
<1> QED BY <1>1, <1>2

LEMMA EnqueueIInv ==
  ASSUME IInv, NEW j \in Jobs, Enqueue(j)
  PROVE  IInv'
<1>1. now + EnqueueDelay[j] \in Nat
  BY PostgresAssumption DEF IInv, TypeOK
<1>2. born' \in [Jobs -> Nat \cup {Absent}] /\ upsets' \in 0..MaxUpsets
  BY <1>1 DEF Enqueue, IInv, TypeOK
<1> QED BY <1>1, <1>2, InsertIInv DEF Enqueue

LEMMA EnqueueAgainIInv ==
  ASSUME IInv, NEW j \in Jobs, EnqueueAgain(j)
  PROVE  IInv'
<1>1. born[j] \in Nat
  BY DEF EnqueueAgain, IInv, TypeOK
<1>2. born' \in [Jobs -> Nat \cup {Absent}] /\ upsets' \in 0..MaxUpsets
  BY PostgresAssumption DEF EnqueueAgain, IInv, TypeOK
<1> QED BY <1>1, <1>2, InsertIInv DEF EnqueueAgain

\* Steps of one consumer that change no row.
LEMMA ClaimScanIInv ==
  ASSUME IInv, NEW c \in Consumers, NEW q \in Queues, ClaimScan(c, q)
  PROVE  IInv'
<1> DEFINE due == {j \in Jobs : Due(j, q, now)}
<1>1. PICK s \in SetToSeqs(due) : found' = [found EXCEPT ![c] = s]
  BY DEF ClaimScan
<1>2. s \in Seq(Jobs)
  <2> DEFINE P == {j \in Jobs : Present(j)}
  <2>1. IsFiniteSet(P) /\ due \subseteq P /\ due \subseteq Jobs
    BY DEF IInv, TableFinite, Due
  <2> HIDE DEF P, due
  <2>2. IsFiniteSet(due)
    BY <2>1, FS_Subset
  <2> QED BY <1>1, <2>1, <2>2, SetToSeqsType
<1> HIDE DEF due
<1>3. /\ pc[c] = "idle" /\ pc' = [pc EXCEPT ![c] = "scan"]
      /\ stmtNow' = [stmtNow EXCEPT ![c] = now]
      /\ UNCHANGED <<row, uniqueKey, now, holds, copy, history>>
  BY DEF ClaimScan
<1>4. TypeOK'
  BY <1>1, <1>2, <1>3 DEF IInv, TypeOK, history
<1>5. TableFinite' /\ OneLivePerKey'
  BY <1>3, SameRows
<1>6. ASSUME NEW d \in Consumers PROVE ConsumerInv(d)'
  BY <1>3 DEF IInv, ConsumerInv, Waiting, Present, TypeOK, history
<1>7. LockedOnce' /\ ClaimedOnce'
  BY <1>3 DEF IInv, LockedOnce, ClaimedOnce, Owns, TypeOK, history
<1>8. CompletedForGood' /\ \A j \in Jobs : Budget(j)'
  BY <1>3 DEF IInv, CompletedForGood, Budget, Waiting, Present, history
<1> QED BY <1>4, <1>5, <1>6, <1>7, <1>8 DEF IInv

\* The lock goes to one consumer, and only on a row that nobody has: a locked
\* row is passed over and a row in somebody's hands is active.
LEMMA ClaimLockIInv ==
  ASSUME IInv, NEW c \in Consumers, ClaimLock(c)
  PROVE  IInv'
<1> DEFINE j == Head(found[c])
<1>1. found[c] \in Seq(Jobs) /\ found[c] # <<>> /\ pc[c] = "scan"
  BY DEF IInv, TypeOK, ClaimLock
<1>2. j \in Jobs /\ Tail(found[c]) \in Seq(Jobs)
  BY <1>1
<1>3. UNCHANGED <<row, uniqueKey, now, copy, born, runs, succeeded, deleted, orphaned, upsets>>
  BY DEF ClaimLock, history
<1>4. TableFinite' /\ OneLivePerKey'
  BY <1>3, SameRows
<1>5. CompletedForGood' /\ \A k \in Jobs : Budget(k)'
  BY <1>3 DEF IInv, CompletedForGood, Budget, Waiting, Present
<1>6. CASE /\ ~Locked(j) /\ StillDue(c, j)
           /\ pc' = [pc EXCEPT ![c] = "locked"] /\ holds' = [holds EXCEPT ![c] = j]
           /\ found' = [found EXCEPT ![c] = <<>>] /\ stmtNow' = [stmtNow EXCEPT ![c] = 0]
  <2> HIDE DEF j
  <2>1. TypeOK'
    BY <1>2, <1>3, <1>6 DEF IInv, TypeOK
  <2>2. Waiting(j) /\ row[j].processAt <= now
    <3>1. Present(j) /\ row[j].status \in {"pending", "retry"} /\ row[j].processAt <= stmtNow[c]
      BY <1>6 DEF StillDue, Due
    <3>2. row[j].processAt \in Nat /\ stmtNow[c] \in Nat /\ now \in Nat /\ stmtNow[c] <= now
      BY <1>2, <3>1, RowFacts DEF IInv, TypeOK, ConsumerInv, Present
    <3> QED BY <3>1, <3>2 DEF Waiting
  <2>3. ASSUME NEW d \in Consumers PROVE ConsumerInv(d)'
    <3>1. CASE d = c
      BY <1>2, <1>3, <1>6, <2>2, <3>1 DEF IInv, TypeOK, ConsumerInv, Waiting, Present
    <3>2. CASE d # c
      BY <1>3, <1>6, <3>2 DEF IInv, TypeOK, ConsumerInv, Waiting, Present
    <3> QED BY <3>1, <3>2
  <2>4. ASSUME NEW d \in Consumers \ {c} PROVE ~(pc[d] = "locked" /\ holds[d] = j)
    BY <1>6 DEF Locked
  <2>5. ASSUME NEW d \in Consumers \ {c}, j \notin deleted PROVE ~(pc[d] = "held" /\ holds[d] = j)
    BY <2>2, <2>5 DEF IInv, ConsumerInv, Waiting
  <2>6. LockedOnce'
    BY <1>6, <2>4 DEF IInv, TypeOK, LockedOnce
  <2>7. ClaimedOnce'
    <3> SUFFICES ASSUME NEW d \in Consumers, NEW e \in Consumers, NEW k \in Jobs \ deleted,
                        Owns(d, k)', Owns(e, k)'
                 PROVE  d = e
      BY <1>3 DEF ClaimedOnce
    <3>1. CASE d # c /\ e # c
      BY <1>6, <3>1 DEF IInv, TypeOK, ClaimedOnce, Owns
    <3>2. CASE d = c /\ e # c
      BY <1>6, <2>4, <2>5, <3>2 DEF IInv, TypeOK, Owns
    <3>3. CASE d # c /\ e = c
      BY <1>6, <2>4, <2>5, <3>3 DEF IInv, TypeOK, Owns
    <3> QED BY <3>1, <3>2, <3>3
  <2> QED BY <1>4, <1>5, <2>1, <2>3, <2>6, <2>7 DEF IInv
<1>7. CASE found' = [found EXCEPT ![c] = Tail(@)] /\ UNCHANGED <<pc, holds, stmtNow>>
  <2>1. TypeOK'
    BY <1>2, <1>3, <1>7 DEF IInv, TypeOK
  <2>2. (\A d \in Consumers : ConsumerInv(d)') /\ LockedOnce' /\ ClaimedOnce'
    BY <1>3, <1>7 DEF IInv, ConsumerInv, Waiting, Present, LockedOnce, ClaimedOnce, Owns
  <2> QED BY <1>4, <1>5, <2>1, <2>2 DEF IInv
<1> QED BY <1>6, <1>7 DEF ClaimLock

\* A consumer that returns without writing: no row was left, or it was lost.
LEMMA LeaveIInv ==
  ASSUME IInv, NEW c \in Consumers, Leave(c), upsets' \in 0..MaxUpsets, orphaned' \subseteq Jobs,
         UNCHANGED <<row, uniqueKey, now, born, runs, succeeded, deleted>>
  PROVE  IInv'
<1>1. TypeOK'
  BY DEF IInv, TypeOK, Leave
<1>2. TableFinite' /\ OneLivePerKey'
  BY SameRows
<1>3. ASSUME NEW d \in Consumers PROVE ConsumerInv(d)'
  BY DEF IInv, TypeOK, ConsumerInv, Waiting, Present, Leave
<1>4. LockedOnce' /\ ClaimedOnce'
  BY DEF IInv, TypeOK, LockedOnce, ClaimedOnce, Owns, Leave
<1>5. CompletedForGood' /\ \A j \in Jobs : Budget(j)'
  BY DEF IInv, CompletedForGood, Budget, Waiting, Present
<1> QED BY <1>1, <1>2, <1>3, <1>4, <1>5 DEF IInv

LEMMA DropIInv ==
  ASSUME IInv, NEW c \in Consumers, Drop(c)
  PROVE  IInv'
<1>1. upsets' \in 0..MaxUpsets
  BY PostgresAssumption DEF Drop, IInv, TypeOK
<1>2. orphaned' \subseteq Jobs
  BY DEF Drop, IInv, TypeOK, ConsumerInv
<1> QED BY <1>1, <1>2, LeaveIInv DEF Drop

LEMMA ClaimNothingIInv ==
  ASSUME IInv, NEW c \in Consumers, ClaimNothing(c)
  PROVE  IInv'
<1>1. upsets' \in 0..MaxUpsets /\ orphaned' \subseteq Jobs
  BY DEF ClaimNothing, history, IInv, TypeOK
<1> QED BY <1>1, LeaveIInv DEF ClaimNothing, history

\* The claim is committed: the row it has locked, and nobody else has, is
\* active now.
LEMMA ClaimUpdateIInv ==
  ASSUME IInv, NEW c \in Consumers, ClaimUpdate(c)
  PROVE  IInv'
<1> DEFINE j == holds[c]
           rec == [row[j] EXCEPT !.status = "active"]
<1>1. /\ pc[c] = "locked"
      /\ row' = [row EXCEPT ![j].status = "active"]
      /\ copy' = [copy EXCEPT ![c] = row[j].attempts]
      /\ pc' = [pc EXCEPT ![c] = "held"]
      /\ runs' = [runs EXCEPT ![j] = @ + 1]
      /\ UNCHANGED <<uniqueKey, now, found, stmtNow, holds, born, succeeded, deleted, orphaned, upsets>>
  BY DEF ClaimUpdate, scanJob
<1>2. j \in Jobs /\ Waiting(j) /\ row[j] \in Row
  BY <1>1 DEF IInv, TypeOK, ConsumerInv, Waiting, Present
<1>3. rec \in Row /\ rec.status = "active" /\ rec.attempts = row[j].attempts /\ rec.attempts \in Nat
  BY <1>2, StatusFacts, RowFacts DEF Statuses
<1>4. row' = [row EXCEPT ![j] = rec]
  BY <1>1
<1> HIDE DEF rec
<1>5. /\ row' \in [Jobs -> Row \cup {NoRow}] /\ row'[j] = rec
      /\ \A k \in Jobs \ {j} : row'[k] = row[k]
      /\ TableFinite' /\ OneLivePerKey'
  <2>1. Admits(j, "active")
    BY <1>2, LiveAdmits DEF Waiting
  <2> QED BY <1>1, <1>2, <1>3, <1>4, <2>1, OneRow
<1>6. TypeOK'
  BY <1>1, <1>2, <1>3, <1>5 DEF IInv, TypeOK
<1>7. ASSUME NEW d \in Consumers PROVE ConsumerInv(d)'
  <2>1. CASE d = c
    <3>1. pc'[c] = "held" /\ holds'[c] = j /\ stmtNow'[c] <= now'
      BY <1>1 DEF IInv, TypeOK, ConsumerInv
    <3>2. copy'[c] = rec.attempts
      <4>1. copy' = [copy EXCEPT ![c] = row[j].attempts] /\ copy \in [Consumers -> Nat]
        BY <1>1 DEF IInv, TypeOK
      <4> QED BY <1>3, <4>1
    <3>3. row'[j] # NoRow
      <4>1. row'[j] = rec /\ rec \in Row
        BY <1>3, <1>5
      <4> QED BY <4>1, RowFacts
    <3> QED BY <1>2, <1>3, <1>5, <2>1, <3>1, <3>2, <3>3 DEF ConsumerInv, Present
  <2>2. CASE d # c /\ pc[d] = "locked"
    <3>1. holds[d] # j
      BY <1>1, <2>2 DEF IInv, LockedOnce
    <3> QED BY <1>1, <1>5, <2>2, <3>1 DEF IInv, TypeOK, ConsumerInv, Waiting, Present
  <2>3. CASE d # c /\ pc[d] # "locked"
    <3>1. pc[d] = "held" /\ holds[d] \notin deleted => holds[d] # j
      BY <1>2 DEF IInv, ConsumerInv, Waiting
    <3> QED BY <1>1, <1>5, <2>3, <3>1 DEF IInv, TypeOK, ConsumerInv, Waiting, Present
  <2> QED BY <2>1, <2>2, <2>3
<1>8. LockedOnce' /\ ClaimedOnce'
  BY <1>1 DEF IInv, TypeOK, LockedOnce, ClaimedOnce, Owns
<1>9. ASSUME NEW k \in Jobs PROVE Budget(k)'
  <2>1. CASE k = j
    <3>1. /\ runs[j] \in Nat /\ MaxAttempts[j] \in Nat /\ row[j].attempts \in Nat
          /\ runs'[j] = runs[j] + 1 /\ row'[j].attempts = row[j].attempts
          /\ row'[j].status = "active" /\ row'[j] # NoRow
      BY <1>1, <1>2, <1>3, <1>5, PostgresAssumption, RowFacts DEF IInv, TypeOK
    <3>2. j \notin deleted => runs[j] = row[j].attempts /\ row[j].attempts < MaxAttempts[j]
      BY <1>2 DEF IInv, Budget
    <3> QED BY <1>1, <2>1, <3>1, <3>2 DEF Budget, Waiting, Present
  <2>2. CASE k # j
    BY <1>1, <1>5, <2>2 DEF IInv, TypeOK, Budget, Waiting, Present
  <2> QED BY <2>1, <2>2
<1>10. CompletedForGood'
  <2>1. j \notin succeeded \ deleted
    BY <1>2 DEF IInv, CompletedForGood, Waiting
  <2> QED BY <1>1, <1>5, <2>1 DEF IInv, TypeOK, CompletedForGood, Present
<1> QED BY <1>5, <1>6, <1>7, <1>8, <1>9, <1>10 DEF IInv

\* The outcome of a job.  When the row was deleted meanwhile there may be a
\* second row of the same ID; the index and the row lock protect that one.
LEMMA OutcomeIInv ==
  ASSUME IInv, NEW c \in Consumers, pc[c] = "held", Leave(c),
         NEW rec, Update(holds[c], rec),
         Present(holds[c]) => rec \in Row /\ rec.status \in {"dead", "completed", "retry"},
         Present(holds[c]) /\ rec.status = "retry" =>
           rec.attempts = copy[c] + 1 /\ copy[c] + 1 < MaxAttempts[holds[c]],
         \/ UNCHANGED succeeded
         \/ /\ succeeded' = succeeded \cup {holds[c]}
            /\ Present(holds[c]) => rec.status = "completed",
         UNCHANGED <<uniqueKey, now, born, runs, deleted, orphaned, upsets>>
  PROVE  IInv'
<1>0. PICK j \in Jobs : j = holds[c]
  BY DEF IInv, ConsumerInv
<1>1. j \notin deleted => Present(j) /\ row[j].status = "active" /\ row[j].attempts = copy[c]
  BY <1>0 DEF IInv, ConsumerInv
<1>2. ~Locked(j) /\ row' = IF Present(j) /\ Admits(j, rec.status) THEN [row EXCEPT ![j] = rec] ELSE row
  BY <1>0 DEF Update
<1>3. /\ row' \in [Jobs -> Row \cup {NoRow}]
      /\ \A k \in Jobs \ {j} : row'[k] = row[k]
      /\ row'[j] \in {rec, row[j]}
      /\ Present(j) <=> Present(j)'
      /\ TableFinite' /\ OneLivePerKey'
  <2>1. CASE Present(j) /\ Admits(j, rec.status)
    <3>1. rec \in Row /\ rec # NoRow /\ row' = [row EXCEPT ![j] = rec]
      BY <1>0, <1>2, <2>1, RowFacts
    <3> QED BY <1>1, <2>1, <3>1, OneRow DEF Present
  <2>2. CASE ~(Present(j) /\ Admits(j, rec.status))
    <3>1. UNCHANGED row
      BY <1>2, <2>2
    <3>2. TableFinite' /\ OneLivePerKey'
      BY <3>1, SameRows
    <3> QED BY <3>1, <3>2 DEF IInv, TypeOK, Present
  <2> QED BY <2>1, <2>2
<1>4. TypeOK'
  BY <1>0, <1>3 DEF IInv, TypeOK, Leave
<1>5. ASSUME NEW d \in Consumers PROVE ConsumerInv(d)'
  <2>1. CASE d = c
    BY <2>1 DEF IInv, TypeOK, ConsumerInv, Leave
  <2>2. CASE d # c
    <3>1. pc[d] = "locked" => holds[d] # j
      BY <1>0, <1>2 DEF Locked
    <3>2. pc[d] = "held" /\ holds[d] \notin deleted => holds[d] # j
      BY <1>0, <2>2 DEF IInv, ClaimedOnce, Owns
    <3> QED BY <1>3, <2>2, <3>1, <3>2 DEF IInv, TypeOK, ConsumerInv, Waiting, Present, Leave
  <2> QED BY <2>1, <2>2
<1>6. LockedOnce' /\ ClaimedOnce'
  BY DEF IInv, TypeOK, LockedOnce, ClaimedOnce, Owns, Leave
<1>7. ASSUME NEW k \in Jobs PROVE Budget(k)'
  <2>1. CASE k = j /\ j \notin deleted
    <3>1. copy[c] \in Nat /\ runs[j] \in Nat /\ MaxAttempts[j] \in Nat
      BY <1>1, PostgresAssumption DEF IInv, TypeOK
    <3>2. runs[j] = copy[c] + 1 /\ runs[j] <= MaxAttempts[j] /\ copy[c] < MaxAttempts[j]
      BY <1>1, <2>1 DEF IInv, Budget
    <3>3. CASE row'[j] = rec
      <4>1. /\ Present(j) /\ rec.status \in {"dead", "completed", "retry"}
            /\ rec.status = "retry" => rec.attempts = copy[c] + 1 /\ copy[c] + 1 < MaxAttempts[j]
        BY <1>0, <1>1, <2>1
      <4> QED BY <1>3, <2>1, <3>1, <3>2, <3>3, <4>1 DEF Budget, Waiting
    <3>4. CASE row'[j] = row[j]
      BY <1>1, <1>3, <2>1, <3>1, <3>2, <3>4 DEF Budget, Waiting, Present
    <3> QED BY <1>3, <3>3, <3>4
  <2>2. CASE k # j \/ j \in deleted
    BY <1>3, <2>2 DEF IInv, Budget, Waiting, Present
  <2> QED BY <2>1, <2>2
<1>8. CompletedForGood'
  <2> SUFFICES ASSUME NEW k \in succeeded' \ deleted PROVE Present(k)' /\ row'[k].status = "completed"
    BY DEF CompletedForGood
  <2>1. CASE k # j
    BY <1>0, <1>3, <2>1 DEF IInv, TypeOK, CompletedForGood, Present
  <2>2. CASE k = j
    <3>1. row[j].status = "active" /\ Present(j) /\ j \notin succeeded
      BY <1>1, <2>2 DEF IInv, CompletedForGood
    <3>2. rec.status = "completed"
      BY <1>0, <2>2, <3>1
    <3>3. Admits(j, rec.status)
      BY <3>2 DEF Admits, Indexed
    <3>4. row'[j] = rec
      BY <1>1, <1>2, <3>1, <3>3 DEF IInv, TypeOK
    <3>5. Present(j)'
      BY <1>3, <3>1
    <3> QED BY <2>2, <3>2, <3>4, <3>5
  <2> QED BY <2>1, <2>2
<1> QED BY <1>3, <1>4, <1>5, <1>6, <1>7, <1>8 DEF IInv

LEMMA NoHandlerIInv ==
  ASSUME IInv, NEW c \in Consumers, NoHandler(c)
  PROVE  IInv'
<1> DEFINE rec == [row[holds[c]] EXCEPT !.status = "dead", !.attempts = copy[c]]
<1>1. pc[c] = "held" /\ Leave(c) /\ Update(holds[c], rec) /\ UNCHANGED <<uniqueKey, now, history>>
  BY DEF NoHandler
<1>2. ASSUME Present(holds[c]) PROVE rec \in Row /\ rec.status = "dead"
  <2>1. row[holds[c]] \in Row /\ copy[c] \in Nat
    BY <1>1, <1>2 DEF IInv, TypeOK, ConsumerInv, Present
  <2> QED BY <2>1, StatusAttemptsFacts DEF Statuses
<1> HIDE DEF rec
<1> QED BY <1>1, <1>2, OutcomeIInv DEF history

LEMMA AcknowledgeIInv ==
  ASSUME IInv, NEW c \in Consumers, Acknowledge(c)
  PROVE  IInv'
<1> DEFINE rec == [row[holds[c]] EXCEPT !.status = "completed"]
<1>1. /\ pc[c] = "held" /\ Leave(c) /\ Update(holds[c], rec)
      /\ succeeded' = succeeded \cup {holds[c]}
      /\ UNCHANGED <<uniqueKey, now, born, runs, deleted, orphaned, upsets>>
  BY DEF Acknowledge
<1>2. ASSUME Present(holds[c]) PROVE rec \in Row /\ rec.status = "completed"
  <2>1. row[holds[c]] \in Row
    BY <1>1, <1>2 DEF IInv, TypeOK, ConsumerInv, Present
  <2> QED BY <2>1, StatusFacts DEF Statuses
<1> HIDE DEF rec
<1> QED BY <1>1, <1>2, OutcomeIInv

LEMMA RequeueIInv ==
  ASSUME IInv, NEW c \in Consumers, NEW delay \in RetryDelays, Requeue(c, delay)
  PROVE  IInv'
<1> DEFINE rec == [status |-> "retry", attempts |-> copy[c] + 1, processAt |-> now + delay]
<1>1. /\ pc[c] = "held" /\ ~Exhausted(c) /\ Leave(c) /\ Update(holds[c], rec)
      /\ UNCHANGED <<uniqueKey, now, born, runs, succeeded, deleted, orphaned, upsets>>
  BY DEF Requeue
<1>2. copy[c] \in Nat /\ now + delay \in Nat /\ MaxAttempts[holds[c]] \in Nat
  BY <1>1, PostgresAssumption DEF IInv, TypeOK, ConsumerInv
<1>3. rec \in Row /\ rec.status = "retry" /\ rec.attempts = copy[c] + 1
  BY <1>2 DEF Row, Statuses
<1>4. copy[c] + 1 < MaxAttempts[holds[c]]
  BY <1>1, <1>2 DEF Exhausted
<1> HIDE DEF rec
<1> QED BY <1>1, <1>3, <1>4, OutcomeIInv

LEMMA MoveToDeadLetterIInv ==
  ASSUME IInv, NEW c \in Consumers, MoveToDeadLetter(c)
  PROVE  IInv'
<1> DEFINE n == copy[c] + 1
           rec == [row[holds[c]] EXCEPT !.status = "dead", !.attempts = n]
<1>1. pc[c] = "held" /\ Leave(c) /\ Update(holds[c], rec) /\ UNCHANGED <<uniqueKey, now, history>>
  BY DEF MoveToDeadLetter
<1>2. ASSUME Present(holds[c]) PROVE rec \in Row /\ rec.status = "dead"
  <2>1. row[holds[c]] \in Row /\ n \in Nat
    BY <1>1, <1>2 DEF IInv, TypeOK, ConsumerInv, Present
  <2> HIDE DEF n
  <2> QED BY <2>1, StatusAttemptsFacts DEF Statuses
<1> HIDE DEF rec
<1> QED BY <1>1, <1>2, OutcomeIInv DEF history

\* A dead row is in nobody's hands, and starts again from nothing.
LEMMA RetryDeadJobIInv ==
  ASSUME IInv, NEW j \in Jobs, RetryDeadJob(j)
  PROVE  IInv'
<1> DEFINE rec == [status |-> "pending", attempts |-> 0, processAt |-> now]
<1>1. /\ upsets < MaxUpsets /\ upsets' = upsets + 1
      /\ Present(j) /\ row[j].status = "dead" /\ Admits(j, "pending") /\ ~Locked(j)
      /\ runs' = [runs EXCEPT ![j] = 0]
      /\ UNCHANGED <<uniqueKey, now, claimVars, born, succeeded, deleted, orphaned>>
  BY DEF RetryDeadJob, Update
<1>2. row' = [row EXCEPT ![j] = rec]
  BY <1>1 DEF RetryDeadJob, Update
<1>3. rec \in Row /\ rec.status = "pending" /\ rec.attempts = 0
  BY DEF IInv, TypeOK, Row, Statuses
<1> HIDE DEF rec
<1>4. /\ row' \in [Jobs -> Row \cup {NoRow}] /\ row'[j] = rec
      /\ \A k \in Jobs \ {j} : row'[k] = row[k]
      /\ TableFinite' /\ OneLivePerKey'
  BY <1>1, <1>2, <1>3, OneRow
<1>5. TypeOK'
  <2>1. runs' \in [Jobs -> Nat] /\ upsets' \in 0..MaxUpsets
    BY <1>1, PostgresAssumption DEF IInv, TypeOK
  <2> QED BY <1>1, <1>4, <2>1 DEF IInv, TypeOK, claimVars
<1>6. ASSUME NEW c \in Consumers PROVE ConsumerInv(c)'
  <2>1. pc[c] = "locked" => holds[c] # j
    BY <1>1 DEF Locked
  <2>2. pc[c] = "held" /\ holds[c] \notin deleted => holds[c] # j
    BY <1>1 DEF IInv, ConsumerInv
  <2> QED BY <1>1, <1>4, <2>1, <2>2 DEF IInv, ConsumerInv, Waiting, Present, claimVars
<1>7. LockedOnce' /\ ClaimedOnce'
  BY <1>1 DEF IInv, LockedOnce, ClaimedOnce, Owns, claimVars
<1>8. ASSUME NEW k \in Jobs PROVE Budget(k)'
  <2>1. CASE k = j
    <3>1. runs'[j] = 0
      BY <1>1 DEF IInv, TypeOK
    <3>2. MaxAttempts[j] \in Nat /\ MaxAttempts[j] > 0
      BY PostgresAssumption
    <3> QED BY <1>3, <1>4, <2>1, <3>1, <3>2 DEF Budget, Waiting, Present
  <2>2. CASE k # j
    BY <1>1, <1>4, <2>2 DEF IInv, TypeOK, Budget, Waiting, Present
  <2> QED BY <2>1, <2>2
<1>9. CompletedForGood'
  <2>1. j \notin succeeded \ deleted
    BY <1>1 DEF IInv, CompletedForGood
  <2> QED BY <1>1, <1>4, <2>1 DEF IInv, TypeOK, CompletedForGood, Present
<1> QED BY <1>4, <1>5, <1>6, <1>7, <1>8, <1>9 DEF IInv

LEMMA DeleteJobIInv ==
  ASSUME IInv, NEW j \in Jobs, DeleteJob(j)
  PROVE  IInv'
<1>1. /\ upsets < MaxUpsets /\ upsets' = upsets + 1 /\ ~Locked(j)
      /\ row' = [row EXCEPT ![j] = NoRow]
      /\ found' = [c \in Consumers |-> RemoveFirst(found[c], j)]
      /\ deleted' = deleted \cup {j} /\ orphaned' = orphaned \ {j}
      /\ UNCHANGED <<uniqueKey, now, pc, stmtNow, holds, copy, born, runs, succeeded>>
  BY DEF DeleteJob
<1>2. /\ row' \in [Jobs -> Row \cup {NoRow}] /\ row'[j] = NoRow
      /\ \A k \in Jobs \ {j} : row'[k] = row[k]
  BY <1>1 DEF IInv, TypeOK
<1>3. found' \in [Consumers -> Seq(Jobs)]
  <2>1. \A c \in Consumers : RemoveFirst(found[c], j) \in Seq(Jobs)
    BY RemoveFirstType DEF IInv, TypeOK
  <2> QED BY <1>1, <2>1
<1>4. TypeOK'
  BY <1>1, <1>2, <1>3, PostgresAssumption DEF IInv, TypeOK
<1>5. TableFinite'
  <2> DEFINE P == {k \in Jobs : row[k] # NoRow}
             Q == {k \in Jobs : row'[k] # NoRow}
  <2>1. IsFiniteSet(P) /\ Q \subseteq P
    BY <1>2 DEF IInv, TableFinite, Present
  <2>2. IsFiniteSet(Q)
    <3> HIDE DEF P, Q
    <3> QED BY <2>1, FS_Subset
  <2> QED BY <2>2 DEF TableFinite, Present
<1>6. ASSUME NEW c \in Consumers PROVE ConsumerInv(c)'
  <2>1. pc[c] = "locked" => holds[c] # j
    BY <1>1 DEF Locked
  <2> QED BY <1>1, <1>2, <2>1 DEF IInv, ConsumerInv, Waiting, Present
<1>7. LockedOnce' /\ ClaimedOnce'
  BY <1>1 DEF IInv, LockedOnce, ClaimedOnce, Owns
<1>8. ASSUME NEW k \in Jobs PROVE Budget(k)'
  BY <1>1, <1>2 DEF IInv, Budget, Waiting, Present
<1>9. CompletedForGood'
  BY <1>1, <1>2 DEF IInv, TypeOK, CompletedForGood, Present
<1>10. OneLivePerKey'
  BY <1>1, <1>2 DEF IInv, OneLivePerKey, Present
<1> QED BY <1>4, <1>5, <1>6, <1>7, <1>8, <1>9, <1>10 DEF IInv

\* Time passes: what was due stays due.
LEMMA TickIInv ==
  ASSUME IInv, Tick
  PROVE  IInv'
<1>1. now' = now + 1 /\ UNCHANGED <<row, uniqueKey, claimVars, history>>
  BY DEF Tick
<1> USE DEF claimVars, history
<1>2. TypeOK'
  BY <1>1 DEF IInv, TypeOK
<1>3. TableFinite' /\ OneLivePerKey'
  BY <1>1, SameRows
<1>4. ASSUME NEW c \in Consumers PROVE ConsumerInv(c)'
  <2>1. now \in Nat /\ stmtNow[c] \in Nat
    BY DEF IInv, TypeOK
  <2>2. pc[c] = "locked" => row[holds[c]].processAt \in Nat
    BY RowFacts DEF IInv, TypeOK, ConsumerInv, Waiting, Present
  <2> QED BY <1>1, <2>1, <2>2 DEF IInv, ConsumerInv, Waiting, Present
<1>5. LockedOnce' /\ ClaimedOnce' /\ CompletedForGood' /\ \A j \in Jobs : Budget(j)'
  BY <1>1 DEF IInv, LockedOnce, ClaimedOnce, Owns, CompletedForGood, Budget, Waiting, Present
<1> QED BY <1>2, <1>3, <1>4, <1>5 DEF IInv

LEMMA NextIInv == IInv /\ [Next]_vars => IInv'
<1> SUFFICES ASSUME IInv, [Next]_vars PROVE IInv'
  OBVIOUS
<1>1. ASSUME NEW j \in Jobs, Enqueue(j) \/ EnqueueAgain(j) \/ RetryDeadJob(j) \/ DeleteJob(j)
      PROVE  IInv'
  BY <1>1, EnqueueIInv, EnqueueAgainIInv, RetryDeadJobIInv, DeleteJobIInv
<1>2. ASSUME NEW c \in Consumers, ConsumerStep(c) PROVE IInv'
  BY <1>2, ClaimScanIInv, ClaimLockIInv, ClaimNothingIInv, ClaimUpdateIInv, NoHandlerIInv,
     AcknowledgeIInv, RequeueIInv, MoveToDeadLetterIInv
  DEF ConsumerStep
<1>3. ASSUME NEW c \in Consumers, Drop(c) PROVE IInv'
  BY <1>3, DropIInv
<1>4. CASE Tick
  BY <1>4, TickIInv
<1>5. CASE UNCHANGED vars
  <2> USE <1>5 DEF vars, claimVars, history
  <2>1. TypeOK' /\ TableFinite' /\ OneLivePerKey'
    BY SameRows DEF IInv, TypeOK
  <2> QED
    BY <2>1
    DEF IInv, ConsumerInv, LockedOnce, ClaimedOnce, Owns, CompletedForGood, Budget, Waiting, Present
<1> QED BY <1>1, <1>2, <1>3, <1>4, <1>5 DEF Next

-----------------------------------------------------------------------------
(* Theorems                                                                *)

\* IInv is an invariant of the Postgres broker.
THEOREM Invariance == Spec => []IInv
BY InitIInv, NextIInv, PTL DEF Spec

\* Every variable keeps its type; in particular the SELECT of a claim always
\* yields a sequence, since the table has finitely many rows.
THEOREM TypeCorrect == Spec => []TypeOK
<1>1. IInv => TypeOK
  BY DEF IInv
<1> QED BY <1>1, Invariance, PTL

\* SKIP LOCKED and the second look at the row's latest version together keep
\* any number of consumers apart.
THEOREM ExclusiveClaim == Spec => []ClaimedOnce
<1>1. IInv => ClaimedOnce
  BY DEF IInv
<1> QED BY <1>1, Invariance, PTL

\* A claim locks no row before its process_at, however old its snapshot.
THEOREM ClaimedWhenDue == Spec => []NeverEarly
<1>1. IInv => NeverEarly
  BY DEF IInv, ConsumerInv, NeverEarly
<1> QED BY <1>1, Invariance, PTL

\* An acknowledged job stays completed until it is deleted.
THEOREM CompletedStays == Spec => []CompletedForGood
<1>1. IInv => CompletedForGood
  BY DEF IInv
<1> QED BY <1>1, Invariance, PTL

\* The partial unique index leaves at most one live row per key, whichever
\* statements meet.
THEOREM UniqueKeyRespected == Spec => []OneLivePerKey
<1>1. IInv => OneLivePerKey
  BY DEF IInv
<1> QED BY <1>1, Invariance, PTL

\* No job is handed out more often than its MaxAttempts.
THEOREM BudgetKept == Spec => []AttemptsWithinBudget
<1>1. IInv => AttemptsWithinBudget
  BY DEF IInv, Budget, AttemptsWithinBudget
<1> QED BY <1>1, Invariance, PTL

-----------------------------------------------------------------------------
(* What a step does to the row of one job                                  *)

\* The row of j after a step, in terms of the row before: the method that was
\* called for it, if any, with what its caller knew.
RowStep(j) ==
  \/ row'[j] = row[j]
  \/ /\ row[j] = NoRow /\ row'[j] \in Row
     /\ row'[j] = [status |-> "pending", attempts |-> 0, processAt |-> born'[j]]
  \/ row'[j] = NoRow /\ j \in deleted'
  \/ /\ row[j] \in Row /\ row'[j] \in Row
     /\ \/ /\ row[j].status \in {"pending", "retry"} /\ row[j].processAt <= now
           /\ row'[j].status = "active" /\ row'[j].attempts = row[j].attempts
        \/ /\ j \notin deleted => row[j].status = "active"
           /\ \/ row'[j].status = "completed"
              \/ /\ row'[j].status = "retry" /\ row'[j].processAt > now
                 /\ j \notin deleted => /\ row'[j].attempts = row[j].attempts + 1
                                        /\ row'[j].attempts < MaxAttempts[j]
              \/ /\ row'[j].status = "dead"
                 /\ j \notin deleted =>
                      \/ row'[j].attempts = row[j].attempts
                      \/ /\ row'[j].attempts = row[j].attempts + 1
                         /\ row'[j].attempts >= MaxAttempts[j]
        \/ /\ row[j].status = "dead"
           /\ row'[j].status = "pending" /\ row'[j].attempts = 0 /\ row'[j].processAt = now

\* A consumer records the outcome of its job.
LEMMA OutcomeRowStep ==
  ASSUME IInv, NEW c \in Consumers,
         NoHandler(c) \/ Acknowledge(c) \/ MoveToDeadLetter(c)
           \/ \E delay \in RetryDelays : Requeue(c, delay),
         NEW j \in Jobs
  PROVE  RowStep(j)
<1>1. pc[c] = "held" /\ holds[c] \in Jobs /\ copy[c] \in Nat
  BY DEF NoHandler, Acknowledge, MoveToDeadLetter, Requeue, IInv, ConsumerInv, TypeOK
<1>2. ASSUME NEW rec, Update(holds[c], rec), row'[j] # row[j]
      PROVE  j = holds[c] /\ row'[j] = rec /\ row[j] \in Row /\ row[holds[c]] \in Row
  BY <1>1, <1>2 DEF Update, IInv, TypeOK, Present
<1>3. ASSUME row'[j] # row[j], j = holds[c], j \notin deleted
      PROVE  row[j].status = "active" /\ row[j].attempts = copy[c]
  BY <1>1, <1>3 DEF IInv, ConsumerInv
<1> SUFFICES ASSUME row'[j] # row[j] PROVE RowStep(j)
  BY DEF RowStep
<1>4. CASE NoHandler(c)
  <2> DEFINE n == copy[c]
             rec == [row[holds[c]] EXCEPT !.status = "dead", !.attempts = n]
  <2>1. j = holds[c] /\ row'[j] = rec /\ row[j] \in Row /\ row[holds[c]] \in Row
    BY <1>2, <1>4 DEF NoHandler
  <2>2. row[holds[c]] \in Row /\ n \in Nat
    BY <1>1, <2>1
  <2>3. rec \in Row /\ rec.status = "dead" /\ rec.attempts = n
    <3> HIDE DEF n
    <3> QED BY <2>2, StatusAttemptsFacts DEF Statuses
  <2> HIDE DEF rec
  <2> QED BY <1>3, <2>1, <2>3 DEF RowStep
<1>5. CASE Acknowledge(c)
  <2> DEFINE rec == [row[holds[c]] EXCEPT !.status = "completed"]
  <2>1. j = holds[c] /\ row'[j] = rec /\ row[j] \in Row /\ row[holds[c]] \in Row
    BY <1>2, <1>5 DEF Acknowledge
  <2>2. rec \in Row /\ rec.status = "completed"
    BY <2>1, StatusFacts DEF Statuses
  <2> QED BY <1>3, <2>1, <2>2 DEF RowStep
<1>6. CASE MoveToDeadLetter(c)
  <2> DEFINE n == copy[c] + 1
             rec == [row[holds[c]] EXCEPT !.status = "dead", !.attempts = n]
  <2>1. j = holds[c] /\ row'[j] = rec /\ row[j] \in Row /\ row[holds[c]] \in Row /\ n \in Nat /\ n >= MaxAttempts[j]
    BY <1>1, <1>2, <1>6 DEF MoveToDeadLetter, Exhausted
  <2>2. rec \in Row /\ rec.status = "dead" /\ rec.attempts = n /\ n = copy[c] + 1
    <3> HIDE DEF n
    <3>1. rec \in Row /\ rec.status = "dead" /\ rec.attempts = n
      BY <2>1, StatusAttemptsFacts DEF Statuses
    <3> QED BY <3>1 DEF n
  <2> HIDE DEF n, rec
  <2> QED BY <1>3, <2>1, <2>2 DEF RowStep
<1>7. ASSUME NEW delay \in RetryDelays, Requeue(c, delay) PROVE RowStep(j)
  <2> DEFINE rec == [status |-> "retry", attempts |-> copy[c] + 1, processAt |-> now + delay]
  <2>1. j = holds[c] /\ row'[j] = rec /\ row[j] \in Row /\ row[holds[c]] \in Row /\ ~Exhausted(c)
    BY <1>2, <1>7 DEF Requeue
  <2>2. now \in Nat /\ delay \in Nat /\ delay > 0 /\ MaxAttempts[j] \in Nat
    BY PostgresAssumption DEF IInv, TypeOK
  <2>3. rec \in Row /\ rec.status = "retry" /\ rec.attempts = copy[c] + 1 /\ rec.processAt > now
    BY <1>1, <2>2 DEF Row, Statuses
  <2>4. copy[c] + 1 < MaxAttempts[j]
    BY <1>1, <2>1, <2>2 DEF Exhausted
  <2> HIDE DEF rec
  <2> QED BY <1>3, <2>1, <2>3, <2>4 DEF RowStep
<1> QED BY <1>4, <1>5, <1>6, <1>7

LEMMA InsertRowStep ==
  ASSUME IInv, NEW k \in Jobs, Enqueue(k) \/ EnqueueAgain(k), NEW j \in Jobs
  PROVE  RowStep(j)
<1>1. Insert(k, born'[k])
  BY DEF Enqueue, EnqueueAgain, IInv, TypeOK
<1>2. CASE row'[j] = row[j]
  BY <1>2 DEF RowStep
<1>3. CASE row'[j] # row[j]
  <2>1. j = k /\ row[k] = NoRow
    BY <1>1, <1>3 DEF Insert, IInv, TypeOK, Present
  <2>2. row'[k] = [status |-> "pending", attempts |-> 0, processAt |-> born'[k]]
    BY <1>1, <1>3, <2>1 DEF Insert, IInv, TypeOK
  <2>3. born'[k] \in Nat
    BY PostgresAssumption DEF Enqueue, EnqueueAgain, IInv, TypeOK
  <2>4. row'[k] \in Row
    BY <2>2, <2>3 DEF Row, Statuses
  <2> QED BY <2>1, <2>2, <2>4 DEF RowStep
<1> QED BY <1>2, <1>3

LEMMA ClaimRowStep ==
  ASSUME IInv, NEW c \in Consumers, ClaimUpdate(c), NEW j \in Jobs
  PROVE  RowStep(j)
<1> DEFINE rec == [row[holds[c]] EXCEPT !.status = "active"]
<1>1. /\ holds[c] \in Jobs /\ row[holds[c]] \in Row
      /\ row[holds[c]].status \in {"pending", "retry"} /\ row[holds[c]].processAt <= now
      /\ row' = [row EXCEPT ![holds[c]] = rec]
  BY DEF ClaimUpdate, IInv, TypeOK, ConsumerInv, Waiting, Present
<1>2. rec \in Row /\ rec.status = "active" /\ rec.attempts = row[holds[c]].attempts
  BY <1>1, StatusFacts DEF Statuses
<1> HIDE DEF rec
<1>3. CASE j = holds[c]
  <2>1. row'[j] = rec
    BY <1>1, <1>3 DEF IInv, TypeOK
  <2> QED BY <1>1, <1>2, <1>3, <2>1 DEF RowStep
<1>4. CASE j # holds[c]
  BY <1>1, <1>4 DEF IInv, TypeOK, RowStep
<1> QED BY <1>3, <1>4

LEMMA RetryDeadRowStep ==
  ASSUME IInv, NEW k \in Jobs, RetryDeadJob(k), NEW j \in Jobs
  PROVE  RowStep(j)
<1> DEFINE rec == [status |-> "pending", attempts |-> 0, processAt |-> now]
<1>1. /\ row[k] # NoRow /\ row[k].status = "dead"
      /\ row' = [row EXCEPT ![k] = rec]
  BY DEF RetryDeadJob, Update, Present
<1>2. /\ row[k] \in Row /\ rec \in Row
      /\ rec.status = "pending" /\ rec.attempts = 0 /\ rec.processAt = now
  BY <1>1 DEF IInv, TypeOK, Row, Statuses
<1> HIDE DEF rec
<1>3. CASE j = k
  <2>1. row'[j] = rec
    BY <1>1, <1>3 DEF IInv, TypeOK
  <2> QED BY <1>1, <1>2, <1>3, <2>1 DEF RowStep
<1>4. CASE j # k
  BY <1>1, <1>4 DEF IInv, TypeOK, RowStep
<1> QED BY <1>3, <1>4

\* Every step does to every row what one method of the broker does, or nothing.
LEMMA NextRowStep ==
  ASSUME IInv, Next, NEW j \in Jobs
  PROVE  RowStep(j)
<1>1. ASSUME UNCHANGED row PROVE RowStep(j)
  BY <1>1 DEF RowStep
<1>2. ASSUME NEW k \in Jobs, DeleteJob(k) PROVE RowStep(j)
  BY <1>2 DEF DeleteJob, IInv, TypeOK, RowStep
<1>3. ASSUME NEW c \in Consumers, ConsumerStep(c) \/ Drop(c) PROVE RowStep(j)
  BY <1>1, <1>3, OutcomeRowStep, ClaimRowStep
  DEF ConsumerStep, ClaimScan, ClaimLock, ClaimNothing, Drop
<1>4. CASE Tick
  BY <1>1, <1>4 DEF Tick
<1> QED BY <1>2, <1>3, <1>4, InsertRowStep, RetryDeadRowStep DEF Next

\* A row appears only as Enqueue makes it: late outcomes bring no deleted job
\* back.
THEOREM OutcomesCreateNoRow == Spec => NoResurrection
<1> DEFINE A == \A j \in Jobs : row[j] = NoRow /\ row'[j] # NoRow =>
                  row'[j] = [status |-> "pending", attempts |-> 0, processAt |-> born'[j]]
<1>1. IInv /\ [Next]_vars => [A]_vars
  <2> SUFFICES ASSUME IInv, Next, NEW j \in Jobs, row[j] = NoRow, row'[j] # NoRow
               PROVE  row'[j] = [status |-> "pending", attempts |-> 0, processAt |-> born'[j]]
    OBVIOUS
  <2>1. row[j] \notin Row
    BY PostgresAssumption
  <2>2. RowStep(j)
    BY NextRowStep
  <2> QED BY <2>1, <2>2 DEF RowStep
<1> QED BY <1>1, Invariance, PTL DEF Spec, NoResurrection

-----------------------------------------------------------------------------
(* The contract of the Broker interface                                    *)

\* Where each row stands in the life the contract describes.
LEMMA PhaseFacts ==
  ASSUME NEW j
  PROVE  /\ row[j] = NoRow => Phase(j) = "unborn" /\ Used(j) = 0
         /\ row[j] # NoRow =>
              /\ row[j].status \in {"pending", "retry"} =>
                   /\ Phase(j) = IF row[j].processAt > now THEN "later" ELSE "ready"
                   /\ Used(j) = row[j].attempts
              /\ row[j].status = "active" => Phase(j) = "active" /\ Used(j) = row[j].attempts
              /\ row[j].status = "dead" => Phase(j) = "dead" /\ Used(j) = row[j].attempts
              /\ row[j].status = "completed" => Phase(j) = "done" /\ Used(j) = 0
BY DEF Phase, Used, Present

\* The moves that the contract allows a job.
ContractMove(j) ==
  \/ Phase(j)' = Phase(j) /\ Used(j)' = Used(j)
  \/ Phase(j) = "unborn" /\ Phase(j)' \in {"later", "ready"} /\ Used(j)' = 0
  \/ Phase(j) = "later" /\ Phase(j)' = "ready" /\ Used(j)' = Used(j)
  \/ Phase(j) = "ready" /\ Phase(j)' = "active" /\ Used(j)' = Used(j)
  \/ Phase(j) = "active" /\ Phase(j)' = "done" /\ Used(j)' = 0
  \/ /\ Phase(j) = "active" /\ Phase(j)' = "later"
     /\ Used(j)' = Used(j) + 1 /\ Used(j) + 1 < MaxAttempts[j]
  \/ /\ Phase(j) = "active" /\ Phase(j)' = "dead"
     /\ \/ Used(j)' = Used(j)
        \/ Used(j)' = Used(j) + 1 /\ Used(j) + 1 >= MaxAttempts[j]
  \/ Phase(j) = "dead" /\ Phase(j)' = "ready" /\ Used(j)' = 0

LEMMA ContractMoves ==
  ASSUME NEW j, ContractMove(j)
  PROVE  Contract(j)!BrokerStep
<1> USE DEF Contract!BrokerStep, Contract!BrokerNext, Contract!Move
<1>1. CASE Phase(j)' = Phase(j) /\ Used(j)' = Used(j)
  BY <1>1 DEF Contract!brokerVars
<1>2. CASE Phase(j) = "unborn" /\ Phase(j)' \in {"later", "ready"} /\ Used(j)' = 0
  BY <1>2 DEF Contract!Enqueue
<1>3. CASE Phase(j) = "later" /\ Phase(j)' = "ready" /\ Used(j)' = Used(j)
  BY <1>3 DEF Contract!PromoteDueJob
<1>4. CASE Phase(j) = "ready" /\ Phase(j)' = "active" /\ Used(j)' = Used(j)
  BY <1>4 DEF Contract!Dequeue
<1>5. CASE Phase(j) = "active" /\ Phase(j)' = "done" /\ Used(j)' = 0
  BY <1>5 DEF Contract!Acknowledge
<1>6. CASE /\ Phase(j) = "active" /\ Phase(j)' = "later"
           /\ Used(j)' = Used(j) + 1 /\ Used(j) + 1 < MaxAttempts[j]
  BY <1>6 DEF Contract!Requeue
<1>7. CASE /\ Phase(j) = "active" /\ Phase(j)' = "dead"
           /\ \/ Used(j)' = Used(j)
              \/ Used(j)' = Used(j) + 1 /\ Used(j) + 1 >= MaxAttempts[j]
  BY <1>7 DEF Contract!MoveToDeadLetter
<1>8. CASE Phase(j) = "dead" /\ Phase(j)' = "ready" /\ Used(j)' = 0
  BY <1>8 DEF Contract!RetryDeadJob
<1> QED BY <1>1, <1>2, <1>3, <1>4, <1>5, <1>6, <1>7, <1>8 DEF ContractMove

\* Without the clock every row makes one of these moves, with the clock a row
\* can only become due.
LEMMA NextContractMove ==
  ASSUME IInv, Next, NEW j \in Jobs, j \notin deleted'
  PROVE  ContractMove(j)
<1>1. row[j] \in Row \cup {NoRow} /\ now \in Nat
  BY DEF IInv, TypeOK
<1>2. /\ row'[j] = NoRow => Phase(j)' = "unborn" /\ Used(j)' = 0
      /\ row'[j] # NoRow =>
           /\ row'[j].status \in {"pending", "retry"} =>
                /\ Phase(j)' = IF row'[j].processAt > now' THEN "later" ELSE "ready"
                /\ Used(j)' = row'[j].attempts
           /\ row'[j].status = "active" => Phase(j)' = "active" /\ Used(j)' = row'[j].attempts
           /\ row'[j].status = "dead" => Phase(j)' = "dead" /\ Used(j)' = row'[j].attempts
           /\ row'[j].status = "completed" => Phase(j)' = "done" /\ Used(j)' = 0
  BY DEF Phase, Used, Present
<1>3. CASE Tick
  <2>1. UNCHANGED row /\ now' = now + 1
    BY <1>3 DEF Tick
  <2>2. CASE row[j] = NoRow
    BY <1>2, <2>1, <2>2, PhaseFacts DEF ContractMove
  <2>3. CASE row[j] # NoRow
    <3>1. row[j].status \in Statuses /\ row[j].processAt \in Nat
      BY <1>1, <2>3, RowFacts
    <3>2. CASE row[j].status \in {"pending", "retry"}
      BY <1>1, <1>2, <2>1, <2>3, <3>1, <3>2, PhaseFacts DEF ContractMove
    <3>3. CASE row[j].status \in {"active", "dead", "completed"}
      BY <1>2, <2>1, <2>3, <3>3, PhaseFacts DEF ContractMove
    <3> QED BY <3>1, <3>2, <3>3 DEF Statuses
  <2> QED BY <2>2, <2>3
<1>4. CASE ~Tick
  <2>1. now' = now /\ deleted \subseteq deleted'
    BY <1>4
    DEF Next, Enqueue, EnqueueAgain, RetryDeadJob, DeleteJob, ConsumerStep, ClaimScan, ClaimLock,
        ClaimNothing, ClaimUpdate, NoHandler, Acknowledge, Requeue, MoveToDeadLetter, Drop, history
  <2>2. RowStep(j) /\ j \notin deleted
    BY <2>1, NextRowStep
  <2>3. CASE row'[j] = row[j]
    BY <2>1, <2>3 DEF ContractMove, Phase, Used, Present
  <2>4. CASE /\ row[j] = NoRow /\ row'[j] \in Row
             /\ row'[j] = [status |-> "pending", attempts |-> 0, processAt |-> born'[j]]
    <3>1. row'[j] # NoRow /\ row'[j].status = "pending" /\ row'[j].attempts = 0
      BY <2>4, RowFacts
    <3> QED BY <1>2, <2>4, <3>1, PhaseFacts DEF ContractMove
  <2>5. CASE row[j] \in Row /\ row'[j] \in Row /\ row'[j] # row[j]
    <3>1. /\ row[j] # NoRow /\ row[j].attempts \in Nat /\ row[j].processAt \in Nat
          /\ row'[j] # NoRow /\ row'[j].attempts \in Nat /\ row'[j].processAt \in Nat
      BY <2>5, RowFacts
    <3>2. CASE /\ row[j].status \in {"pending", "retry"} /\ row[j].processAt <= now
               /\ row'[j].status = "active" /\ row'[j].attempts = row[j].attempts
      BY <1>1, <1>2, <3>1, <3>2, PhaseFacts DEF ContractMove
    <3>3. CASE row[j].status = "active" /\ row'[j].status = "completed"
      BY <1>2, <3>1, <3>3, PhaseFacts DEF ContractMove
    <3>4. CASE /\ row[j].status = "active" /\ row'[j].status = "retry" /\ row'[j].processAt > now
               /\ row'[j].attempts = row[j].attempts + 1 /\ row'[j].attempts < MaxAttempts[j]
      BY <1>2, <2>1, <3>1, <3>4, PhaseFacts DEF ContractMove
    <3>5. CASE /\ row[j].status = "active" /\ row'[j].status = "dead"
               /\ \/ row'[j].attempts = row[j].attempts
                  \/ row'[j].attempts = row[j].attempts + 1 /\ row'[j].attempts >= MaxAttempts[j]
      BY <1>2, <3>1, <3>5, PhaseFacts DEF ContractMove
    <3>6. CASE /\ row[j].status = "dead"
               /\ row'[j].status = "pending" /\ row'[j].attempts = 0 /\ row'[j].processAt = now
      BY <1>1, <1>2, <2>1, <3>1, <3>6, PhaseFacts DEF ContractMove
    <3> QED BY <2>2, <2>5, <3>1, <3>2, <3>3, <3>4, <3>5, <3>6 DEF RowStep
  <2> QED BY <2>2, <2>3, <2>4, <2>5 DEF RowStep
<1> QED BY <1>3, <1>4

\* The Postgres broker keeps the contract of the Broker interface: each of its
\* steps moves each job as one method says, or not at all.
THEOREM ContractKept == Spec => ImplementsContract
<1>1. IInv /\ [Next]_vars => [\A j \in Jobs \ deleted' : Contract(j)!BrokerStep]_vars
  BY NextContractMove, ContractMoves
<1> QED BY <1>1, Invariance, PTL DEF Spec, ImplementsContract
-----------------------------------------------------------------------------
(* Active rows                                                             *)

\* While the row of its job is active, the outcome of a worker is written.
LEMMA OutcomeEndsActive ==
  ASSUME IInv, NEW c \in Consumers,
         NoHandler(c) \/ Acknowledge(c) \/ MoveToDeadLetter(c)
           \/ \E delay \in RetryDelays : Requeue(c, delay)
  PROVE  ~(row'[holds[c]] # NoRow /\ row'[holds[c]].status = "active")
<1>1. PICK j \in Jobs : j = holds[c] /\ copy[c] \in Nat
  BY DEF NoHandler, Acknowledge, MoveToDeadLetter, Requeue, IInv, ConsumerInv, TypeOK
<1> SUFFICES ASSUME row'[j] # NoRow, row'[j].status = "active" PROVE FALSE
  BY <1>1
<1>2. ASSUME NEW rec, Update(j, rec), rec.status # "active" PROVE FALSE
  <2>1. row'[j] # rec
    BY <1>2
  <2>2. row[j] # NoRow /\ row[j].status = "active"
    BY <1>2, <2>1 DEF Update, IInv, TypeOK
  <2>3. Admits(j, rec.status)
    BY <2>2, LiveAdmits DEF Present
  <2> QED BY <1>2, <2>1, <2>2, <2>3 DEF Update, IInv, TypeOK, Present
<1>3. ASSUME row[j] = NoRow PROVE FALSE
  <2>1. UNCHANGED row
    BY <1>1, <1>3 DEF NoHandler, Acknowledge, MoveToDeadLetter, Requeue, Update, Present
  <2> QED BY <1>3, <2>1
<1>4. row[j] \in Row
  BY <1>3 DEF IInv, TypeOK
<1>5. CASE NoHandler(c)
  <2>1. [row[j] EXCEPT !.status = "dead", !.attempts = copy[c]].status = "dead"
    BY <1>1, <1>4, StatusAttemptsFacts DEF Statuses
  <2> QED BY <1>1, <1>2, <1>5, <2>1 DEF NoHandler
<1>6. CASE Acknowledge(c)
  <2>1. [row[j] EXCEPT !.status = "completed"].status = "completed"
    BY <1>4, StatusFacts DEF Statuses
  <2> QED BY <1>1, <1>2, <1>6, <2>1 DEF Acknowledge
<1>7. CASE MoveToDeadLetter(c)
  <2>1. [row[j] EXCEPT !.status = "dead", !.attempts = copy[c] + 1].status = "dead"
    BY <1>4 DEF Row
  <2> QED BY <1>1, <1>2, <1>7, <2>1 DEF MoveToDeadLetter
<1>8. ASSUME NEW delay \in RetryDelays, Requeue(c, delay) PROVE FALSE
  <2> DEFINE rec == [status |-> "retry", attempts |-> copy[c] + 1, processAt |-> now + delay]
  <2>1. Update(j, rec) /\ rec.status = "retry"
    BY <1>1, <1>8 DEF Requeue
  <2>2. rec.status # "active"
    BY <2>1
  <2> HIDE DEF rec
  <2> QED BY <1>2, <2>1, <2>2
<1> QED BY <1>5, <1>6, <1>7, <1>8

LEMMA NextActive ==
  ASSUME IInv, NoRowForgotten, [Next]_vars
  PROVE  NoRowForgotten'
<1> DEFINE Held(j) == \E c \in Consumers : pc[c] = "held" /\ holds[c] = j
<1> SUFFICES ASSUME NEW j \in Jobs, row'[j] # NoRow, row'[j].status = "active"
             PROVE  j \in orphaned' \/ Held(j)'
  BY DEF NoRowForgotten, Present
<1>1. row[j] # NoRow /\ row[j].status = "active" => j \in orphaned \/ Held(j)
  BY DEF NoRowForgotten, Present
<1>2. ASSUME UNCHANGED <<row, orphaned>>, \A c \in Consumers : pc[c] = "held" => pc'[c] = "held" /\ holds'[c] = holds[c]
      PROVE  j \in orphaned' \/ Held(j)'
  BY <1>1, <1>2
<1>3. ASSUME NEW k \in Jobs, Enqueue(k) \/ EnqueueAgain(k) PROVE j \in orphaned' \/ Held(j)'
  <2>1. row'[j] = row[j]
    BY <1>3 DEF Enqueue, EnqueueAgain, Insert, IInv, TypeOK
  <2> QED BY <1>1, <1>3, <2>1 DEF Enqueue, EnqueueAgain, claimVars
<1>4. ASSUME NEW k \in Jobs, RetryDeadJob(k) PROVE j \in orphaned' \/ Held(j)'
  <2>1. row'[j] = row[j]
    BY <1>4 DEF RetryDeadJob, Update, IInv, TypeOK
  <2> QED BY <1>1, <1>4, <2>1 DEF RetryDeadJob, claimVars
<1>5. ASSUME NEW k \in Jobs, DeleteJob(k) PROVE j \in orphaned' \/ Held(j)'
  <2>1. j # k /\ row'[j] = row[j]
    BY <1>5 DEF DeleteJob, IInv, TypeOK
  <2> QED BY <1>1, <1>5, <2>1 DEF DeleteJob
<1>6. ASSUME NEW c \in Consumers, (\E q \in Queues : ClaimScan(c, q)) \/ ClaimLock(c) \/ ClaimNothing(c)
      PROVE  j \in orphaned' \/ Held(j)'
  <2>1. UNCHANGED <<row, orphaned>> /\ pc[c] # "held"
    BY <1>6 DEF ClaimScan, ClaimLock, ClaimNothing, history
  <2>2. \A d \in Consumers \ {c} : pc'[d] = pc[d] /\ holds'[d] = holds[d]
    BY <1>6 DEF ClaimScan, ClaimLock, ClaimNothing, Leave, IInv, TypeOK
  <2> QED BY <1>2, <2>1, <2>2
<1>7. ASSUME NEW c \in Consumers, ClaimUpdate(c) PROVE j \in orphaned' \/ Held(j)'
  <2>1. /\ pc[c] = "locked" /\ pc'[c] = "held" /\ UNCHANGED <<holds, orphaned>>
        /\ \A d \in Consumers \ {c} : pc'[d] = pc[d]
    BY <1>7 DEF ClaimUpdate, IInv, TypeOK
  <2>2. CASE holds[c] = j
    BY <2>1, <2>2
  <2>3. CASE holds[c] # j
    <3>1. row'[j] = row[j]
      BY <1>7, <2>3 DEF ClaimUpdate, IInv, TypeOK
    <3> QED BY <1>1, <2>1, <3>1
  <2> QED BY <2>2, <2>3
<1>8. ASSUME NEW c \in Consumers,
             NoHandler(c) \/ Acknowledge(c) \/ MoveToDeadLetter(c)
               \/ \E delay \in RetryDelays : Requeue(c, delay)
      PROVE  j \in orphaned' \/ Held(j)'
  <2>1. holds[c] # j
    BY <1>8, OutcomeEndsActive
  <2>2. row'[j] = row[j] /\ orphaned' = orphaned
    BY <1>8, <2>1 DEF NoHandler, Acknowledge, MoveToDeadLetter, Requeue, Update, history, IInv, TypeOK
  <2>3. \A d \in Consumers \ {c} : pc'[d] = pc[d] /\ holds'[d] = holds[d]
    BY <1>8 DEF NoHandler, Acknowledge, MoveToDeadLetter, Requeue, Leave, IInv, TypeOK
  <2> QED BY <1>1, <2>1, <2>2, <2>3
<1>9. ASSUME NEW c \in Consumers, Drop(c) PROVE j \in orphaned' \/ Held(j)'
  <2>1. /\ row' = row
        /\ orphaned' = IF pc[c] = "held" THEN orphaned \cup {holds[c]} ELSE orphaned
        /\ \A d \in Consumers \ {c} : pc'[d] = pc[d] /\ holds'[d] = holds[d]
    BY <1>9 DEF Drop, Leave, IInv, TypeOK
  <2> QED BY <1>1, <2>1
<1>10. CASE Tick \/ UNCHANGED vars
  BY <1>2, <1>10 DEF Tick, vars, claimVars, history
<1> QED BY <1>3, <1>4, <1>5, <1>6, <1>7, <1>8, <1>9, <1>10 DEF Next, ConsumerStep

\* No row is left active by a worker that goes on: only a lost consumer leaves
\* one behind, for any number of jobs, keys and consumers.
THEOREM ActiveRowsAccounted == Spec => []NoRowForgotten
<1>1. Init => NoRowForgotten
  BY DEF Init, NoRowForgotten, Present
<1>2. IInv /\ NoRowForgotten /\ [Next]_vars => NoRowForgotten'
  BY NextActive
<1> QED BY <1>1, <1>2, Invariance, PTL DEF Spec
==============================================================================
