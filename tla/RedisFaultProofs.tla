-------------------------- MODULE RedisFaultProofs --------------------------
(***************************************************************************)
(* The Redis broker when jobs are deleted while they move (DeleteSpec) and *)
(* when commands are sent again after a lost reply (ResendSpec).  Re-sent  *)
(* commands copy IDs, so that IInv of RedisBrokerProofs is lost; what      *)
(* survives is here.                                                       *)
(***************************************************************************)
EXTENDS RedisBrokerProofs

FaultNext == DeleteNext \/ ResendNext

\* A consumer past its Dequeue has a job, and a record to write back.
HandsFull(c) ==
  /\ pc[c] # "idle" => holds[c] \in Jobs
  /\ pc[c] \in {"held", "running", "resend"} => copy[c] \in JobRecord
  /\ pc[c] = "acking" => holds[c] \in succeeded

CallBegun(a) ==
  /\ call[a] = "retry" => target[a] \in Jobs /\ reset[a] \in JobRecord
  /\ call[a] = "delete" => target[a] \in Jobs /\ target[a] \in deleteBegun

KeepInv ==
  /\ TypeOK
  /\ \A c \in Consumers : HandsFull(c)
  /\ \A a \in Admins : CallBegun(a)
  /\ NoJobLost

\* Who owns a job knows that nobody else can find it, not even when it has
\* been deleted from the in-flight set.
Alone(j) ==
  /\ born[j] # Absent
  /\ ~InQueue(j) /\ scheduled[j] = Absent /\ retry[j] = Absent /\ dead[j] = 0

Own == {"popped", "held", "running"}
OwnedAlone(c) == \A j \in Jobs : pc[c] \in Own /\ holds[c] = j => Alone(j)

PlaceInv ==
  /\ \A q \in Queues : QueueInv(q)
  /\ \A j \in Jobs : OnePlace(j) /\ (born[j] = Absent => ~Located(j))
  /\ \A c \in Consumers : OwnedAlone(c)
  /\ OneOwner

-----------------------------------------------------------------------------
(* Queues, whose IDs may now occur more than once                          *)

Kept(s, e, h, m) ==
  /\ h[0] = <<>>
  /\ \A n \in 1..m : h[n] = IF s[n] = e THEN h[n - 1] ELSE Append(h[n - 1], s[n])

\* LREM's loop has a result, by induction on the elements it has passed.
LEMMA KeptExists ==
  ASSUME NEW S, NEW s \in Seq(S), NEW e
  PROVE  \E h \in [0..Len(s) -> Seq(S)] : Kept(s, e, h, Len(s))
<1> DEFINE T == {m \in Nat : m <= Len(s) => \E h \in [0..m -> Seq(S)] : Kept(s, e, h, m)}
<1>1. 0 \in T
  <2> DEFINE h == [n \in 0..0 |-> <<>>]
  <2>1. h \in [0..0 -> Seq(S)] /\ Kept(s, e, h, 0)
    BY DEF Kept
  <2> QED BY <2>1
<1>2. ASSUME NEW m \in 0..(Len(s) - 1), m \in T PROVE m + 1 \in T
  <2>1. PICK h \in [0..m -> Seq(S)] : Kept(s, e, h, m)
    BY <1>2
  <2> DEFINE r == IF s[m + 1] = e THEN h[m] ELSE Append(h[m], s[m + 1])
             g == [n \in 0..(m + 1) |-> IF n = m + 1 THEN r ELSE h[n]]
  <2>2. r \in Seq(S)
    <3>1. h[m] \in Seq(S) /\ s[m + 1] \in S
      BY <2>1
    <3> QED BY <3>1
  <2>3. g \in [0..(m + 1) -> Seq(S)] /\ g[0] = <<>>
    <3> HIDE DEF r
    <3> QED BY <2>1, <2>2 DEF Kept
  <2>4. ASSUME NEW n \in 1..(m + 1)
        PROVE  g[n] = IF s[n] = e THEN g[n - 1] ELSE Append(g[n - 1], s[n])
    <3>1. CASE n = m + 1
      <4>1. g[n] = r /\ g[n - 1] = h[m]
        <5> HIDE DEF r
        <5> QED BY <3>1
      <4> QED BY <3>1, <4>1
    <3>2. CASE n # m + 1
      <4>1. g[n] = h[n] /\ g[n - 1] = h[n - 1] /\ n \in 1..m
        <5> HIDE DEF r
        <5> QED BY <3>2
      <4> QED BY <2>1, <4>1 DEF Kept
    <3> QED BY <3>1, <3>2
  <2> HIDE DEF g
  <2>5. Kept(s, e, g, m + 1)
    BY <2>3, <2>4 DEF Kept
  <2>6. m + 1 \in Nat
    OBVIOUS
  <2> QED BY <2>3, <2>5, <2>6
<1>3. Len(s) \in Nat
  OBVIOUS
<1>4. \A n \in 0..Len(s) : n \in T
  <2> HIDE DEF T
  <2> QED BY <1>1, <1>2, <1>3, InductionUpTo
<1> QED BY <1>3, <1>4

\* LREM removes every occurrence of its argument and nothing else.
LEMMA LRemFacts ==
  ASSUME NEW S, NEW s \in Seq(S), NEW e
  PROVE  /\ LRem(s, e) \in Seq(S)
         /\ Elems(LRem(s, e)) = Elems(s) \ {e}
         /\ Distinct(s) => Distinct(LRem(s, e))
<1> DEFINE N == Len(s)
           Body(h) == [n \in 0..N |-> IF n = 0 THEN <<>>
                                      ELSE IF s[n] = e THEN h[n - 1] ELSE Append(h[n - 1], s[n])]
           up == CHOOSE h : h = Body(h)
           First(n) == {s[i] : i \in 1..n}
<1>1. LRem(s, e) = up[N]
  BY DEF LRem
<1>2. N \in Nat /\ \A i \in 1..N : s[i] \in S
  OBVIOUS
<1>3. PICK k \in [0..N -> Seq(S)] : Kept(s, e, k, N)
  BY KeptExists
<1>4. k = Body(k)
  <2>1. ASSUME NEW n \in 0..N PROVE k[n] = Body(k)[n]
    <3>1. CASE n = 0
      BY <1>3, <3>1 DEF Kept
    <3>2. CASE n # 0
      <4>1. n \in 1..N
        BY <3>2
      <4> QED BY <1>3, <3>2, <4>1 DEF Kept
    <3> QED BY <3>1, <3>2
  <2> QED BY <1>3, <2>1
<1>5. up = Body(up)
  <2> HIDE DEF Body
  <2> QED BY <1>4
<1> HIDE DEF up, N
<1>6. /\ up[0] = <<>>
      /\ \A n \in 0..(N - 1) :
           /\ s[n + 1] = e => up[n + 1] = up[n]
           /\ s[n + 1] # e => up[n + 1] = Append(up[n], s[n + 1])
  <2>1. Body(up)[0] = <<>>
    BY <1>2
  <2>2. ASSUME NEW n \in 0..(N - 1)
        PROVE  Body(up)[n + 1] = IF s[n + 1] = e THEN up[n] ELSE Append(up[n], s[n + 1])
    <3>1. n + 1 \in 0..N /\ n + 1 # 0 /\ (n + 1) - 1 = n
      BY <1>2
    <3> QED BY <3>1
  <2> HIDE DEF Body
  <2> QED BY <1>5, <2>1, <2>2
<1> HIDE DEF Body
<1> DEFINE T == {n \in Nat : n <= N => /\ up[n] \in Seq(S)
                                       /\ Elems(up[n]) = First(n) \ {e}
                                       /\ Distinct(s) => Distinct(up[n])}
<1>7. 0 \in T
  <2>1. <<>> \in Seq(S) /\ Elems(<<>>) = {} /\ Distinct(<<>>)
    BY DEF Elems, Distinct
  <2>2. First(0) = {}
    OBVIOUS
  <2> HIDE DEF First
  <2> QED BY <1>6, <2>1, <2>2
<1>8. ASSUME NEW n \in 0..(N - 1), n \in T PROVE n + 1 \in T
  <2>1. n + 1 \in Nat /\ n + 1 <= N /\ n + 1 \in 1..N /\ n <= N /\ n \in Nat
    BY <1>2
  <2>2. /\ up[n] \in Seq(S) /\ Elems(up[n]) = First(n) \ {e}
        /\ Distinct(s) => Distinct(up[n])
    BY <1>8, <2>1
  <2>3. First(n + 1) = First(n) \cup {s[n + 1]}
    <3>1. \A i : i \in 1..(n + 1) <=> (i \in 1..n \/ i = n + 1)
      BY <2>1
    <3> QED BY <3>1
  <2>4. ASSUME Distinct(s) PROVE s[n + 1] \notin First(n)
    <3> SUFFICES ASSUME NEW i \in 1..n, s[i] = s[n + 1] PROVE FALSE
      OBVIOUS
    <3>1. DOMAIN s = 1..N
      BY DEF N
    <3>2. i \in 1..N /\ i # n + 1
      BY <1>2, <2>1
    <3> QED BY <2>1, <2>4, <3>1, <3>2 DEF Distinct
  <2>5. CASE s[n + 1] = e
    BY <1>6, <2>1, <2>2, <2>3, <2>5
  <2>6. CASE s[n + 1] # e
    <3> DEFINE x == s[n + 1]
               u == up[n]
    <3>1. x \in S /\ u \in Seq(S) /\ up[n + 1] = Append(u, x)
      BY <1>2, <1>6, <2>1, <2>2, <2>6
    <3>2. Distinct(s) => Distinct(u) /\ x \notin Elems(u)
      BY <2>2, <2>4
    <3> HIDE DEF x, u, First
    <3>3. Append(u, x) \in Seq(S) /\ Elems(Append(u, x)) = Elems(u) \cup {x}
      BY <3>1, AppendElems
    <3>4. Distinct(s) => Distinct(Append(u, x))
      BY <3>1, <3>2, AppendFacts
    <3>5. Elems(Append(u, x)) = First(n + 1) \ {e}
      BY <2>2, <2>3, <2>6, <3>3 DEF x, u
    <3> QED BY <2>1, <3>1, <3>3, <3>4, <3>5
  <2> QED BY <2>5, <2>6
<1>9. N \in T
  <2>1. \A n \in 0..N : n \in T
    <3> HIDE DEF T
    <3> QED BY <1>2, <1>7, <1>8, InductionUpTo
  <2> HIDE DEF T
  <2> QED BY <1>2, <2>1
<1>10. First(N) = Elems(s)
  BY DEF Elems, N
<1> QED BY <1>1, <1>2, <1>9, <1>10

LEMMA LPushKeeps ==
  ASSUME StoreTypeOK, NEW j \in Jobs, LPush(j)
  PROVE  /\ queue' \in [Queues -> Seq(Jobs)]
         /\ InQueue(j)'
         /\ \A k \in Jobs : InQueue(k) => InQueue(k)'
<1> DEFINE s == queue[QueueOf[j]]
<1>1. QueueOf[j] \in Queues /\ s \in Seq(Jobs)
  BY StoreAssumption DEF StoreTypeOK
<1>2. Append(s, j) \in Seq(Jobs) /\ Elems(Append(s, j)) = Elems(s) \cup {j}
  BY <1>1, AppendElems
<1>3. /\ queue' = [queue EXCEPT ![QueueOf[j]] = Append(s, j)]
      /\ queue'[QueueOf[j]] = Append(s, j)
      /\ \A q \in Queues : q # QueueOf[j] => queue'[q] = queue[q]
  BY <1>1 DEF LPush, StoreTypeOK
<1>4. queue' \in [Queues -> Seq(Jobs)]
  BY <1>1, <1>2, <1>3 DEF StoreTypeOK
<1>5. ASSUME NEW k \in Jobs
      PROVE  /\ InQueue(k)' <=> k \in Elems(queue'[QueueOf[k]])
             /\ InQueue(k) <=> k \in Elems(queue[QueueOf[k]])
             /\ QueueOf[k] \in Queues
  BY StoreAssumption DEF InQueue, Elems
<1> QED BY <1>2, <1>3, <1>4, <1>5

LEMMA RPopKeeps ==
  ASSUME StoreTypeOK, NEW r \in Queues, RpopZadd(r)
  PROVE  /\ queue' \in [Queues -> Seq(Jobs)]
         /\ Head(queue[r]) \in Jobs
         /\ \A k \in Jobs : InQueue(k) /\ k # Head(queue[r]) => InQueue(k)'
<1> DEFINE s == queue[r]
<1>1. s \in Seq(Jobs) /\ s # <<>>
  BY DEF StoreTypeOK, RpopZadd
<1>2. Tail(s) \in Seq(Jobs) /\ Head(s) \in Jobs /\ Elems(s) = Elems(Tail(s)) \cup {Head(s)}
  BY <1>1, TailElems
<1>3. /\ queue' = [queue EXCEPT ![r] = Tail(s)]
      /\ queue'[r] = Tail(s)
      /\ \A q \in Queues : q # r => queue'[q] = queue[q]
  BY DEF RpopZadd, StoreTypeOK
<1>4. queue' \in [Queues -> Seq(Jobs)]
  BY <1>2, <1>3 DEF StoreTypeOK
<1>5. ASSUME NEW k \in Jobs
      PROVE  /\ InQueue(k)' <=> k \in Elems(queue'[QueueOf[k]])
             /\ InQueue(k) <=> k \in Elems(queue[QueueOf[k]])
             /\ QueueOf[k] \in Queues
  BY StoreAssumption DEF InQueue, Elems
<1> QED BY <1>2, <1>3, <1>4, <1>5

LEMMA LRemKeeps ==
  ASSUME StoreTypeOK, NEW j \in Jobs, DeleteCommand(1, j)
  PROVE  /\ queue' \in [Queues -> Seq(Jobs)]
         /\ \A k \in Jobs : InQueue(k)' <=> (InQueue(k) /\ k # j)
         /\ (\A q \in Queues : QueueInv(q)) => \A q \in Queues : QueueInv(q)'
<1> DEFINE s == queue[QueueOf[j]]
<1>1. QueueOf[j] \in Queues /\ s \in Seq(Jobs)
  BY StoreAssumption DEF StoreTypeOK
<1>2. /\ LRem(s, j) \in Seq(Jobs) /\ Elems(LRem(s, j)) = Elems(s) \ {j}
      /\ Distinct(s) => Distinct(LRem(s, j))
  BY <1>1, LRemFacts
<1>3. /\ queue' = [queue EXCEPT ![QueueOf[j]] = LRem(s, j)]
      /\ queue'[QueueOf[j]] = LRem(s, j)
      /\ \A q \in Queues : q # QueueOf[j] => queue'[q] = queue[q]
  BY <1>1 DEF DeleteCommand, StoreTypeOK
<1>4. queue' \in [Queues -> Seq(Jobs)]
  BY <1>1, <1>2, <1>3 DEF StoreTypeOK
<1>5. ASSUME NEW k \in Jobs
      PROVE  /\ InQueue(k)' <=> k \in Elems(queue'[QueueOf[k]])
             /\ InQueue(k) <=> k \in Elems(queue[QueueOf[k]])
             /\ QueueOf[k] \in Queues
  BY StoreAssumption DEF InQueue, Elems
<1>6. ASSUME \A q \in Queues : QueueInv(q), NEW q \in Queues PROVE QueueInv(q)'
  <2>1. CASE q = QueueOf[j]
    BY <1>2, <1>3, <1>6, <2>1 DEF QueueInv
  <2>2. CASE q # QueueOf[j]
    BY <1>3, <1>6, <2>2 DEF QueueInv
  <2> QED BY <2>1, <2>2
<1> QED BY <1>2, <1>3, <1>4, <1>5, <1>6

-----------------------------------------------------------------------------
(* No job is lost                                                          *)

\* The step does no harm to a job; it puts a job, with its record, somewhere;
\* it gives a reason why the job need not be anywhere.
Unharmed(j) ==
  /\ born'[j] = born[j]
  /\ j \in succeeded => j \in succeeded'
  /\ j \in deleteBegun => j \in deleteBegun'
  /\ record[j] # NoRecord => record'[j] # NoRecord
  /\ Located(j) => Located(j)'
Placed(j) == record'[j] # NoRecord /\ Located(j)'
Excused(j) == j \in succeeded' \/ j \in deleteBegun'

LEMMA NoJobLostKept ==
  ASSUME NoJobLost, \A j \in Jobs : Unharmed(j) \/ Placed(j) \/ Excused(j)
  PROVE  NoJobLost'
BY DEF NoJobLost, Unharmed, Placed, Excused

\* The script has put job j somewhere and left the others where they were.
PutAway(j) ==
  /\ StoreTypeOK'
  /\ Placed(j)
  /\ \A k \in Jobs \ {j} : record'[k] = record[k] /\ (Located(k) => Located(k)')

LEMMA EnqueuePuts ==
  ASSUME StoreTypeOK, NEW j \in Jobs, NEW t \in Nat, UNCHANGED now,
         SetBranchLpushZadd(j, NewJob(t))
  PROVE  PutAway(j)
<1> DEFINE rec == NewJob(t)
<1>1. rec \in JobRecord /\ rec # NoRecord /\ rec.processAt = t
  BY NewJobFacts
<1>2. Unix(t) \in Nat /\ Unix(t) # Absent
  BY UnixNat
<1> HIDE DEF rec
<1>3. /\ record' = [record EXCEPT ![j] = rec] /\ UNCHANGED <<now, retry, dead, active>>
      /\ \/ scheduled' = scheduled /\ LPush(j)
         \/ queue' = queue /\ scheduled' = [scheduled EXCEPT ![j] = Unix(t)]
  BY <1>1 DEF SetBranchLpushZadd, Set, rec
<1>4. /\ record' \in [Jobs -> JobRecord \cup {NoRecord}] /\ record'[j] = rec
      /\ \A k \in Jobs \ {j} : record'[k] = record[k]
  BY <1>1, <1>3 DEF StoreTypeOK
<1>5. CASE scheduled' = scheduled /\ LPush(j)
  BY <1>1, <1>3, <1>4, <1>5, LPushKeeps DEF PutAway, Placed, Located, StoreTypeOK
<1>6. CASE queue' = queue /\ scheduled' = [scheduled EXCEPT ![j] = Unix(t)]
  <2>1. /\ scheduled' \in [Jobs -> Nat \cup {Absent}] /\ scheduled'[j] # Absent
        /\ \A k \in Jobs \ {j} : scheduled'[k] = scheduled[k]
    BY <1>2, <1>6 DEF StoreTypeOK
  <2>2. \A k \in Jobs : InQueue(k)' <=> InQueue(k)
    BY <1>6, SameQueues
  <2>3. StoreTypeOK'
    BY <1>3, <1>4, <1>6, <2>1 DEF StoreTypeOK
  <2> QED BY <1>1, <1>3, <1>4, <2>1, <2>2, <2>3 DEF PutAway, Placed, Located
<1> QED BY <1>3, <1>5, <1>6

LEMMA DeadLetterPuts ==
  ASSUME StoreTypeOK, NEW j \in Jobs, NEW rec \in JobRecord, UNCHANGED now, SetLpushZrem(j, rec)
  PROVE  PutAway(j)
<1>1. /\ record' = [record EXCEPT ![j] = rec] /\ UNCHANGED <<now, queue, scheduled, retry>>
      /\ dead' = [dead EXCEPT ![j] = @ + 1] /\ active' = active \ {j}
  BY DEF SetLpushZrem, Set
<1>2. rec # NoRecord
  BY StoreAssumption
<1>3. /\ dead' \in [Jobs -> Nat] /\ dead'[j] > 0
      /\ \A k \in Jobs \ {j} : dead'[k] = dead[k]
  BY <1>1 DEF StoreTypeOK
<1>4. /\ record' \in [Jobs -> JobRecord \cup {NoRecord}] /\ record'[j] = rec
      /\ \A k \in Jobs \ {j} : record'[k] = record[k]
  BY <1>1 DEF StoreTypeOK
<1>5. StoreTypeOK'
  BY <1>1, <1>3, <1>4 DEF StoreTypeOK
<1>6. \A k \in Jobs : InQueue(k)' <=> InQueue(k)
  BY <1>1, SameQueues
<1> QED BY <1>1, <1>2, <1>3, <1>4, <1>5, <1>6 DEF PutAway, Placed, Located

LEMMA RequeuePuts ==
  ASSUME StoreTypeOK, NEW j \in Jobs, NEW rec \in JobRecord, NEW t \in Nat, UNCHANGED now,
         SetZaddZrem(j, rec, t)
  PROVE  PutAway(j)
<1>1. /\ record' = [record EXCEPT ![j] = rec] /\ UNCHANGED <<now, queue, scheduled, dead>>
      /\ retry' = [retry EXCEPT ![j] = Unix(t)] /\ active' = active \ {j}
  BY DEF SetZaddZrem, Set
<1>2. rec # NoRecord /\ Unix(t) \in Nat /\ Unix(t) # Absent
  BY StoreAssumption, UnixNat
<1>3. /\ retry' \in [Jobs -> Nat \cup {Absent}] /\ retry'[j] # Absent
      /\ \A k \in Jobs \ {j} : retry'[k] = retry[k]
  BY <1>1, <1>2 DEF StoreTypeOK
<1>4. /\ record' \in [Jobs -> JobRecord \cup {NoRecord}] /\ record'[j] = rec
      /\ \A k \in Jobs \ {j} : record'[k] = record[k]
  BY <1>1 DEF StoreTypeOK
<1>5. StoreTypeOK'
  BY <1>1, <1>3, <1>4 DEF StoreTypeOK
<1>6. \A k \in Jobs : InQueue(k)' <=> InQueue(k)
  BY <1>1, SameQueues
<1> QED BY <1>1, <1>2, <1>3, <1>4, <1>5, <1>6 DEF PutAway, Placed, Located

LEMMA PutAwayKeeps ==
  ASSUME NoJobLost, NEW j \in Jobs, PutAway(j),
         \A k \in Jobs \ {j} : born'[k] = born[k],
         succeeded \subseteq succeeded', deleteBegun \subseteq deleteBegun'
  PROVE  NoJobLost'
<1>1. ASSUME NEW k \in Jobs PROVE Unharmed(k) \/ Placed(k)
  <2>1. CASE k = j
    BY <2>1 DEF PutAway
  <2>2. CASE k # j
    BY <2>2 DEF PutAway, Unharmed
  <2> QED BY <2>1, <2>2
<1> QED BY <1>1, NoJobLostKept

\* Nothing happens to the store.
LEMMA StoreSame ==
  ASSUME NoJobLost, UNCHANGED <<store, born>>,
         succeeded \subseteq succeeded', deleteBegun \subseteq deleteBegun'
  PROVE  NoJobLost'
<1>1. ASSUME NEW j \in Jobs PROVE Unharmed(j)
  BY DEF store, Unharmed, Located, InQueue
<1> QED BY <1>1, NoJobLostKept

\* What Leave leaves.
LEMMA LeaveFacts ==
  ASSUME TypeOK, \A d \in Consumers : HandsFull(d), NEW c \in Consumers, Leave(c),
         succeeded \subseteq succeeded'
  PROVE  /\ pc' \in [Consumers -> {"idle", "popped", "held", "running", "acking", "resend"}]
         /\ holds' \in [Consumers -> Jobs \cup {NoJob}]
         /\ copy' \in [Consumers -> JobRecord \cup {NoRecord}]
         /\ \A d \in Consumers : HandsFull(d)'
<1>1. /\ pc' = [pc EXCEPT ![c] = "idle"]
      /\ holds' = [holds EXCEPT ![c] = NoJob]
      /\ copy' = [copy EXCEPT ![c] = NoRecord]
  BY DEF Leave, Goto
<1>2. /\ pc' \in [Consumers -> {"idle", "popped", "held", "running", "acking", "resend"}]
      /\ holds' \in [Consumers -> Jobs \cup {NoJob}]
      /\ copy' \in [Consumers -> JobRecord \cup {NoRecord}]
  BY <1>1 DEF TypeOK
<1>3. /\ pc'[c] = "idle"
      /\ \A d \in Consumers : d # c => pc'[d] = pc[d] /\ holds'[d] = holds[d] /\ copy'[d] = copy[d]
  BY <1>1 DEF TypeOK
<1>4. ASSUME NEW d \in Consumers PROVE HandsFull(d)'
  <2>1. CASE d = c
    BY <1>3, <2>1 DEF HandsFull
  <2>2. CASE d # c
    BY <1>3, <2>2 DEF HandsFull
  <2> QED BY <2>1, <2>2
<1> QED BY <1>2, <1>4

\* A consumer hands its job back with one script, and leaves.
LEMMA HandBackKeeps ==
  ASSUME KeepInv, NEW c \in Consumers, NEW j \in Jobs, PutAway(j), Leave(c),
         dueAt' \in [Jobs -> Nat \cup {Absent}],
         UNCHANGED <<schedulerVars, adminVars, born, runs, succeeded, deleteBegun, deleteDone, resends>>
  PROVE  KeepInv'
<1>1. /\ pc' \in [Consumers -> {"idle", "popped", "held", "running", "acking", "resend"}]
      /\ holds' \in [Consumers -> Jobs \cup {NoJob}]
      /\ copy' \in [Consumers -> JobRecord \cup {NoRecord}]
      /\ \A d \in Consumers : HandsFull(d)'
  BY LeaveFacts DEF KeepInv
<1>2. TypeOK'
  BY <1>1 DEF KeepInv, TypeOK, PutAway, schedulerVars, adminVars
<1>3. \A a \in Admins : CallBegun(a)'
  BY DEF KeepInv, CallBegun, adminVars
<1>4. NoJobLost'
  BY PutAwayKeeps DEF KeepInv
<1> QED BY <1>1, <1>2, <1>3, <1>4 DEF KeepInv

\* The store, the consumers and the admins are left alone.
LEMMA AsideKeeps ==
  ASSUME KeepInv, TypeOK', UNCHANGED <<store, consumerVars, adminVars, born, succeeded, deleteBegun>>
  PROVE  KeepInv'
<1>1. \A c \in Consumers : HandsFull(c)'
  BY DEF KeepInv, HandsFull, consumerVars
<1>2. \A a \in Admins : CallBegun(a)'
  BY DEF KeepInv, CallBegun, adminVars
<1>3. NoJobLost'
  BY StoreSame DEF KeepInv
<1> QED BY <1>1, <1>2, <1>3 DEF KeepInv

LEMMA EnqueueKeeps ==
  ASSUME KeepInv, NEW j \in Jobs,
         (\E delay \in EnqueueDelays : Enqueue(j, delay)) \/ EnqueueResend(j)
  PROVE  KeepInv'
<1>1. PICK t \in Nat : /\ SetBranchLpushZadd(j, NewJob(t))
                       /\ born' = [born EXCEPT ![j] = t] \/ born' = born
                       /\ dueAt' = [dueAt EXCEPT ![j] = t] \/ dueAt' = dueAt
  <2>1. CASE \E delay \in EnqueueDelays : Enqueue(j, delay)
    <3>1. PICK delay \in EnqueueDelays : Enqueue(j, delay)
      BY <2>1
    <3>2. now + delay \in Nat
      BY BrokerAssumption DEF KeepInv, TypeOK, StoreTypeOK
    <3> QED BY <3>1, <3>2 DEF Enqueue
  <2>2. CASE EnqueueResend(j)
    <3>1. born[j] \in Nat
      BY <2>2 DEF EnqueueResend, KeepInv, TypeOK
    <3> QED BY <2>2, <3>1 DEF EnqueueResend
  <2> QED BY <2>1, <2>2
<1>2. /\ UNCHANGED <<now, consumerVars, schedulerVars, adminVars,
                     runs, succeeded, deleteBegun, deleteDone>>
      /\ resends' \in Nat
  BY DEF Enqueue, EnqueueResend, KeepInv, TypeOK
<1>3. PutAway(j)
  BY <1>1, <1>2, EnqueuePuts DEF KeepInv, TypeOK
<1>4. /\ born' \in [Jobs -> Nat \cup {Absent}] /\ dueAt' \in [Jobs -> Nat \cup {Absent}]
      /\ \A k \in Jobs \ {j} : born'[k] = born[k]
  BY <1>1 DEF KeepInv, TypeOK
<1>5. TypeOK'
  BY <1>2, <1>3, <1>4 DEF KeepInv, TypeOK, PutAway, consumerVars, schedulerVars, adminVars
<1>6. \A c \in Consumers : HandsFull(c)'
  BY <1>2 DEF KeepInv, HandsFull, consumerVars
<1>7. \A a \in Admins : CallBegun(a)'
  BY <1>2 DEF KeepInv, CallBegun, adminVars
<1>8. NoJobLost'
  BY <1>2, <1>3, <1>4, PutAwayKeeps DEF KeepInv
<1> QED BY <1>5, <1>6, <1>7, <1>8 DEF KeepInv

LEMMA DequeueKeeps ==
  ASSUME KeepInv, NEW c \in Consumers, NEW q \in Queues, DequeuePop(c, q)
  PROVE  KeepInv'
<1>1. PICK j \in Jobs : j = Head(queue[q])
  BY RPopKeeps DEF DequeuePop, KeepInv, TypeOK
<1>2. /\ active' = active \cup {j} /\ holds' = [holds EXCEPT ![c] = j]
      /\ pc' = [pc EXCEPT ![c] = "popped"]
      /\ UNCHANGED <<record, scheduled, retry, dead, now, copy, schedulerVars, adminVars, history>>
  BY <1>1 DEF DequeuePop, RpopZadd, Goto
<1>3. queue' \in [Queues -> Seq(Jobs)] /\ \A k \in Jobs : InQueue(k) /\ k # j => InQueue(k)'
  BY <1>1, RPopKeeps DEF DequeuePop, KeepInv, TypeOK
<1>4. TypeOK'
  BY <1>2, <1>3 DEF KeepInv, TypeOK, StoreTypeOK, schedulerVars, adminVars, history
<1>5. ASSUME NEW d \in Consumers PROVE HandsFull(d)'
  <2>1. CASE d = c
    <3>1. pc'[c] = "popped" /\ holds'[c] = j
      BY <1>2 DEF KeepInv, TypeOK
    <3> QED BY <2>1, <3>1 DEF HandsFull
  <2>2. CASE d # c
    <3>1. pc'[d] = pc[d] /\ holds'[d] = holds[d] /\ copy'[d] = copy[d] /\ succeeded' = succeeded
      BY <1>2, <2>2 DEF KeepInv, TypeOK, history
    <3> QED BY <3>1 DEF HandsFull, KeepInv
  <2> QED BY <2>1, <2>2
<1>6. \A a \in Admins : CallBegun(a)'
  BY <1>2 DEF KeepInv, CallBegun, adminVars, history
<1>7. ASSUME NEW k \in Jobs PROVE Unharmed(k)
  <2>1. Located(k) => Located(k)'
    BY <1>2, <1>3 DEF Located
  <2> QED BY <1>2, <2>1 DEF Unharmed, history
<1>8. NoJobLost'
  BY <1>7, NoJobLostKept DEF KeepInv
<1> QED BY <1>4, <1>5, <1>6, <1>8 DEF KeepInv

\* A consumer moves on; the job it holds and the store are left alone.
LEMMA HandKeeps ==
  ASSUME KeepInv, NEW c \in Consumers, NEW p \in {"held", "running"}, NEW rec \in JobRecord,
         pc[c] # "idle", pc' = [pc EXCEPT ![c] = p], copy' = [copy EXCEPT ![c] = rec],
         runs' \in [Jobs -> Nat],
         UNCHANGED <<store, now, holds, schedulerVars, adminVars,
                     born, dueAt, succeeded, deleteBegun, deleteDone, resends>>
  PROVE  KeepInv'
<1>1. TypeOK'
  BY DEF KeepInv, TypeOK, StoreTypeOK, store, schedulerVars, adminVars
<1>2. ASSUME NEW d \in Consumers PROVE HandsFull(d)'
  <2>1. CASE d = c
    <3>1. pc'[c] = p /\ copy'[c] = rec /\ holds'[c] \in Jobs
      BY DEF KeepInv, TypeOK, HandsFull
    <3> QED BY <2>1, <3>1 DEF HandsFull
  <2>2. CASE d # c
    <3>1. pc'[d] = pc[d] /\ holds'[d] = holds[d] /\ copy'[d] = copy[d]
      BY <2>2 DEF KeepInv, TypeOK
    <3> QED BY <3>1 DEF HandsFull, KeepInv
  <2> QED BY <2>1, <2>2
<1>3. \A a \in Admins : CallBegun(a)'
  BY DEF KeepInv, CallBegun, adminVars
<1>4. NoJobLost'
  BY StoreSame DEF KeepInv
<1> QED BY <1>1, <1>2, <1>3, <1>4 DEF KeepInv

LEMMA AcknowledgeKeeps ==
  ASSUME KeepInv, NEW c \in Consumers, AcknowledgeZrem(c) \/ AcknowledgeDel(c)
  PROVE  KeepInv'
<1>1. PICK j \in Jobs : j = holds[c]
  BY DEF KeepInv, HandsFull, AcknowledgeZrem, AcknowledgeDel
<1>2. CASE AcknowledgeZrem(c)
  <2>1. /\ active' = active \ {j} /\ succeeded' = succeeded \cup {j}
        /\ pc' = [pc EXCEPT ![c] = "acking"]
        /\ UNCHANGED <<record, queue, scheduled, retry, dead, now, holds, copy, schedulerVars,
                       adminVars, born, dueAt, runs, deleteBegun, deleteDone, resends>>
    BY <1>1, <1>2 DEF AcknowledgeZrem, Goto
  <2>2. TypeOK'
    BY <2>1 DEF KeepInv, TypeOK, StoreTypeOK, schedulerVars, adminVars
  <2>3. ASSUME NEW d \in Consumers PROVE HandsFull(d)'
    <3>1. CASE d = c
      <4>1. pc'[c] = "acking" /\ holds'[c] = j
        BY <1>1, <2>1 DEF KeepInv, TypeOK
      <4> QED BY <2>1, <3>1, <4>1 DEF HandsFull
    <3>2. CASE d # c
      <4>1. pc'[d] = pc[d] /\ holds'[d] = holds[d] /\ copy'[d] = copy[d]
        BY <2>1, <3>2 DEF KeepInv, TypeOK
      <4> QED BY <2>1, <4>1 DEF HandsFull, KeepInv
    <3> QED BY <3>1, <3>2
  <2>4. \A a \in Admins : CallBegun(a)'
    BY <2>1 DEF KeepInv, CallBegun, adminVars
  <2>5. ASSUME NEW k \in Jobs PROVE Unharmed(k) \/ Excused(k)
    <3>1. CASE k = j
      BY <2>1, <3>1 DEF Excused
    <3>2. CASE k # j
      BY <2>1, <3>2, SameQueues DEF Unharmed, Located
    <3> QED BY <3>1, <3>2
  <2>6. NoJobLost'
    BY <2>5, NoJobLostKept DEF KeepInv
  <2> QED BY <2>2, <2>3, <2>4, <2>6 DEF KeepInv
<1>3. CASE AcknowledgeDel(c)
  <2>1. /\ record' = [record EXCEPT ![j] = NoRecord] /\ Leave(c)
        /\ UNCHANGED <<queue, scheduled, retry, dead, active, now,
                       schedulerVars, adminVars, history>>
    BY <1>1, <1>3 DEF AcknowledgeDel, Set
  <2>2. j \in succeeded'
    BY <1>1, <1>3, <2>1 DEF AcknowledgeDel, KeepInv, HandsFull, history
  <2>3. /\ pc' \in [Consumers -> {"idle", "popped", "held", "running", "acking", "resend"}]
        /\ holds' \in [Consumers -> Jobs \cup {NoJob}]
        /\ copy' \in [Consumers -> JobRecord \cup {NoRecord}]
        /\ \A d \in Consumers : HandsFull(d)'
    BY <2>1, LeaveFacts DEF KeepInv, history
  <2>4. TypeOK'
    BY <2>1, <2>3 DEF KeepInv, TypeOK, StoreTypeOK, schedulerVars, adminVars, history
  <2>5. \A a \in Admins : CallBegun(a)'
    BY <2>1 DEF KeepInv, CallBegun, adminVars, history
  <2>6. ASSUME NEW k \in Jobs PROVE Unharmed(k) \/ Excused(k)
    <3>1. CASE k = j
      BY <2>2, <3>1 DEF Excused
    <3>2. CASE k # j
      <4>1. record'[k] = record[k]
        BY <2>1, <3>2 DEF KeepInv, TypeOK, StoreTypeOK
      <4> QED BY <2>1, <4>1, SameQueues DEF Unharmed, Located, history
    <3> QED BY <3>1, <3>2
  <2>7. NoJobLost'
    BY <2>6, NoJobLostKept DEF KeepInv
  <2> QED BY <2>3, <2>4, <2>5, <2>7 DEF KeepInv
<1> QED BY <1>2, <1>3

\* MoveToDeadLetter is applied and its answer lost: the consumer keeps the job.
LEMMA UnansweredKeeps ==
  ASSUME KeepInv, NEW c \in Consumers, DeadLetterUnanswered(c)
  PROVE  KeepInv'
<1>1. PICK j \in Jobs : j = holds[c]
  BY DEF KeepInv, HandsFull, DeadLetterUnanswered
<1>2. PICK rec \in JobRecord : Unanswered(c, rec)
  <2>1. copy[c] \in JobRecord
    BY DEF KeepInv, HandsFull, DeadLetterUnanswered
  <2>2. "dead" \in Status
    BY DEF Status
  <2>3. Failed(c, "dead") \in JobRecord /\ [copy[c] EXCEPT !.status = "dead"] \in JobRecord
    BY <2>1, <2>2, FailedFacts, MarkedDeadFacts
  <2> QED BY <2>3 DEF DeadLetterUnanswered
<1>3. /\ SetLpushZrem(j, rec) /\ copy' = [copy EXCEPT ![c] = rec]
      /\ pc' = [pc EXCEPT ![c] = "resend"] /\ resends' = resends + 1
      /\ UNCHANGED <<now, holds, schedulerVars, adminVars,
                     born, dueAt, runs, succeeded, deleteBegun, deleteDone>>
  BY <1>1, <1>2 DEF Unanswered, Goto
<1>4. PutAway(j)
  BY <1>3, DeadLetterPuts DEF KeepInv, TypeOK
<1>5. TypeOK'
  BY <1>3, <1>4 DEF KeepInv, TypeOK, PutAway, schedulerVars, adminVars
<1>6. ASSUME NEW d \in Consumers PROVE HandsFull(d)'
  <2>1. CASE d = c
    <3>1. pc'[c] = "resend" /\ copy'[c] = rec /\ holds'[c] = j
      BY <1>1, <1>3 DEF KeepInv, TypeOK
    <3> QED BY <2>1, <3>1 DEF HandsFull
  <2>2. CASE d # c
    <3>1. pc'[d] = pc[d] /\ holds'[d] = holds[d] /\ copy'[d] = copy[d]
      BY <1>3, <2>2 DEF KeepInv, TypeOK
    <3> QED BY <1>3, <3>1 DEF HandsFull, KeepInv
  <2> QED BY <2>1, <2>2
<1>7. \A a \in Admins : CallBegun(a)'
  BY <1>3 DEF KeepInv, CallBegun, adminVars
<1>8. NoJobLost'
  BY <1>3, <1>4, PutAwayKeeps DEF KeepInv
<1> QED BY <1>5, <1>6, <1>7, <1>8 DEF KeepInv

LEMMA ConsumerKeeps ==
  ASSUME KeepInv, NEW c \in Consumers,
         ConsumerNext(c) \/ DeadLetterUnanswered(c) \/ DeadLetterResend(c)
  PROVE  KeepInv'
<1>1. "dead" \in Status /\ "retry" \in Status
  BY DEF Status
<1>2. CASE \E q \in Queues : DequeuePop(c, q)
  BY <1>2, DequeueKeeps
<1>3. CASE DequeueGet(c)
  <2>1. PICK rec \in JobRecord : rec = record[holds[c]]
    BY <1>3 DEF DequeueGet, KeepInv, HandsFull, TypeOK, StoreTypeOK
  <2> QED BY <1>3, <2>1, HandKeeps DEF DequeueGet, Goto, history, KeepInv, TypeOK
<1>4. CASE StartHandler(c)
  <2>1. PICK rec \in JobRecord : rec = copy[c]
    BY <1>4 DEF StartHandler, KeepInv, HandsFull
  <2>2. copy' = [copy EXCEPT ![c] = rec]
    BY <1>4, <2>1 DEF StartHandler, KeepInv, TypeOK
  <2>3. PICK j \in Jobs : j = holds[c]
    BY <1>4 DEF StartHandler, KeepInv, HandsFull
  <2>4. runs' \in [Jobs -> Nat]
    BY <1>4, <2>3 DEF StartHandler, KeepInv, TypeOK
  <2> QED BY <1>4, <2>2, <2>4, HandKeeps DEF StartHandler, Goto
<1>5. CASE NoHandler(c) \/ FailDead(c) \/ DeadLetterResend(c)
  <2>1. PICK j \in Jobs : j = holds[c]
    BY <1>5 DEF KeepInv, HandsFull, NoHandler, FailDead, DeadLetterResend
  <2>2. copy[c] \in JobRecord
    BY <1>5 DEF KeepInv, HandsFull, NoHandler, FailDead, DeadLetterResend
  <2>3. Failed(c, "dead") \in JobRecord /\ [copy[c] EXCEPT !.status = "dead"] \in JobRecord
    BY <1>1, <2>2, FailedFacts, MarkedDeadFacts
  <2>4. PICK rec \in JobRecord : SetLpushZrem(j, rec)
    BY <1>5, <2>1, <2>2, <2>3 DEF NoHandler, FailDead, DeadLetterResend
  <2>5. Leave(c) /\ UNCHANGED <<now, schedulerVars, adminVars, history>>
    BY <1>5 DEF NoHandler, FailDead, DeadLetterResend
  <2>6. PutAway(j)
    BY <2>4, <2>5, DeadLetterPuts DEF KeepInv, TypeOK
  <2>7. dueAt' \in [Jobs -> Nat \cup {Absent}]
    BY <2>5 DEF history, KeepInv, TypeOK
  <2> QED BY <2>5, <2>6, <2>7, HandBackKeeps DEF history
<1>6. CASE \E delay \in RetryDelays : FailRequeue(c, delay)
  <2>1. PICK delay \in RetryDelays : FailRequeue(c, delay)
    BY <1>6
  <2>2. PICK j \in Jobs : j = holds[c]
    BY <2>1 DEF KeepInv, HandsFull, FailRequeue
  <2>3. PICK rec \in JobRecord : rec = Failed(c, "retry")
    <3>1. copy[c] \in JobRecord
      BY <2>1 DEF KeepInv, HandsFull, FailRequeue
    <3> QED BY <1>1, <3>1, FailedFacts
  <2>4. PICK t \in Nat : t = now + delay
    BY BrokerAssumption DEF KeepInv, TypeOK, StoreTypeOK
  <2>5. /\ SetZaddZrem(j, rec, t) /\ dueAt' = [dueAt EXCEPT ![j] = t] /\ Leave(c)
        /\ UNCHANGED <<now, schedulerVars, adminVars,
                       born, runs, succeeded, deleteBegun, deleteDone, resends>>
    BY <2>1, <2>2, <2>3, <2>4 DEF FailRequeue
  <2>6. PutAway(j)
    BY <2>5, RequeuePuts DEF KeepInv, TypeOK
  <2>7. dueAt' \in [Jobs -> Nat \cup {Absent}]
    BY <2>5 DEF KeepInv, TypeOK
  <2> QED BY <2>5, <2>6, <2>7, HandBackKeeps
<1>7. CASE AcknowledgeZrem(c) \/ AcknowledgeDel(c)
  BY <1>7, AcknowledgeKeeps
<1>8. CASE Drop(c)
  <2>1. Leave(c) /\ UNCHANGED <<store, now, schedulerVars, adminVars, history>>
    BY <1>8 DEF Drop
  <2>2. /\ pc' \in [Consumers -> {"idle", "popped", "held", "running", "acking", "resend"}]
        /\ holds' \in [Consumers -> Jobs \cup {NoJob}]
        /\ copy' \in [Consumers -> JobRecord \cup {NoRecord}]
        /\ \A d \in Consumers : HandsFull(d)'
    BY <2>1, LeaveFacts DEF KeepInv, history
  <2>3. TypeOK'
    BY <2>1, <2>2 DEF KeepInv, TypeOK, StoreTypeOK, store, schedulerVars, adminVars, history
  <2>4. \A a \in Admins : CallBegun(a)'
    BY <2>1 DEF KeepInv, CallBegun, adminVars, history
  <2>5. NoJobLost'
    BY <2>1, StoreSame DEF KeepInv, history
  <2> QED BY <2>2, <2>3, <2>4, <2>5 DEF KeepInv
<1>9. CASE DeadLetterUnanswered(c)
  BY <1>9, UnansweredKeeps
<1> QED BY <1>2, <1>3, <1>4, <1>5, <1>6, <1>7, <1>8, <1>9 DEF ConsumerNext

LEMMA SchedulerKeeps ==
  ASSUME KeepInv, NEW s \in Schedulers, SchedulerNext(s)
  PROVE  KeepInv'
<1>1. CASE PromoteStart(s)
  <2>1. TypeOK'
    BY <1>1 DEF PromoteStart, KeepInv, TypeOK, StoreTypeOK, store, consumerVars, adminVars, history
  <2> QED BY <1>1, <2>1, AsideKeeps DEF PromoteStart, history
<1>2. CASE \E src \in Sources : PromoteList(s, src)
  <2>1. PICK src \in Sources : PromoteList(s, src)
    BY <1>2
  <2>2. PICK L \in SUBSET Jobs : ids' = [ids EXCEPT ![s] = L]
    BY <2>1 DEF PromoteList
  <2>3. TypeOK'
    BY <2>1, <2>2
    DEF PromoteList, KeepInv, TypeOK, StoreTypeOK, store, consumerVars, adminVars, history
  <2> QED BY <2>1, <2>3, AsideKeeps DEF PromoteList, history
<1>3. CASE PromoteAbort(s)
  <2>1. TypeOK'
    BY <1>3 DEF PromoteAbort, KeepInv, TypeOK, StoreTypeOK, store, consumerVars, adminVars, history
  <2> QED BY <1>3, <2>1, AsideKeeps DEF PromoteAbort, history
<1>4. CASE \E j \in Jobs : PromoteOne(s, j)
  <2>1. PICK j \in Jobs : PromoteOne(s, j)
    BY <1>4
  <2>2. /\ PromoteJob(source[s], j) /\ ids' = [ids EXCEPT ![s] = ids[s] \ {j}]
        /\ UNCHANGED <<now, consumerVars, listedAt, todo, source, adminVars, history>>
    BY <2>1 DEF PromoteOne
  <2>3. ids' \in [Schedulers -> SUBSET Jobs]
    BY <2>2 DEF KeepInv, TypeOK
  <2>4. CASE UNCHANGED store
    <3>1. TypeOK'
      BY <2>2, <2>3, <2>4
      DEF KeepInv, TypeOK, StoreTypeOK, store, consumerVars, adminVars, history
    <3> QED BY <2>2, <2>4, <3>1, AsideKeeps DEF history
  <2>5. CASE ~(UNCHANGED store)
    <3>1. /\ ZremFrom(source[s], j) /\ UNCHANGED <<record, dead, active>>
          /\ \/ record[j] = NoRecord /\ UNCHANGED queue
             \/ record[j] # NoRecord /\ LPush(j)
      BY <2>2, <2>5 DEF PromoteJob
    <3>2. /\ scheduled' \in [Jobs -> Nat \cup {Absent}] /\ retry' \in [Jobs -> Nat \cup {Absent}]
          /\ \A k \in Jobs \ {j} : scheduled'[k] = scheduled[k] /\ retry'[k] = retry[k]
      BY <3>1 DEF ZremFrom, KeepInv, TypeOK, StoreTypeOK
    <3>3. /\ queue' \in [Queues -> Seq(Jobs)]
          /\ \A k \in Jobs : InQueue(k) => InQueue(k)'
          /\ record[j] # NoRecord => InQueue(j)'
      <4>1. CASE UNCHANGED queue /\ record[j] = NoRecord
        BY <4>1, SameQueues DEF KeepInv, TypeOK, StoreTypeOK
      <4>2. CASE LPush(j)
        BY <4>2, LPushKeeps DEF KeepInv, TypeOK
      <4> QED BY <3>1, <4>1, <4>2
    <3>4. TypeOK'
      BY <2>2, <2>3, <3>1, <3>2, <3>3
      DEF KeepInv, TypeOK, StoreTypeOK, consumerVars, adminVars, history
    <3>5. \A c \in Consumers : HandsFull(c)'
      BY <2>2 DEF KeepInv, HandsFull, consumerVars, history
    <3>6. \A a \in Admins : CallBegun(a)'
      BY <2>2 DEF KeepInv, CallBegun, adminVars, history
    <3>7. ASSUME NEW k \in Jobs, k # j PROVE Unharmed(k)
      BY <2>2, <3>1, <3>2, <3>3, <3>7 DEF Unharmed, Located, history
    <3>8. Placed(j) \/ record[j] = NoRecord
      BY <3>1, <3>3 DEF Placed, Located
    <3>9. NoJobLost'
      <4> SUFFICES ASSUME NEW k \in Jobs, born'[k] # Absent, k \notin succeeded', k \notin deleteBegun'
                   PROVE  record'[k] # NoRecord /\ Located(k)'
        BY DEF NoJobLost
      <4>1. record[k] # NoRecord /\ Located(k)
        BY <2>2 DEF KeepInv, NoJobLost, history
      <4>2. CASE k = j
        BY <3>8, <4>1, <4>2 DEF Placed
      <4>3. CASE k # j
        BY <3>7, <4>1, <4>3 DEF Unharmed
      <4> QED BY <4>2, <4>3
    <3> QED BY <3>4, <3>5, <3>6, <3>9 DEF KeepInv
  <2> QED BY <2>4, <2>5
<1> QED BY <1>1, <1>2, <1>3, <1>4 DEF SchedulerNext

\* What EndCall leaves.
LEMMA EndCallFacts ==
  ASSUME TypeOK, \A b \in Admins : CallBegun(b), NEW a \in Admins, EndCall(a),
         deleteBegun \subseteq deleteBegun'
  PROVE  /\ call' \in [Admins -> {"none", "retry", "delete"}]
         /\ target' \in [Admins -> Jobs \cup {NoJob}]
         /\ reset' \in [Admins -> JobRecord \cup {NoRecord}]
         /\ step' \in [Admins -> 1..DeleteCommands]
         /\ \A b \in Admins : CallBegun(b)'
<1>1. /\ call' = [call EXCEPT ![a] = "none"] /\ target' = [target EXCEPT ![a] = NoJob]
      /\ reset' = [reset EXCEPT ![a] = NoRecord] /\ step' = [step EXCEPT ![a] = 1]
  BY DEF EndCall
<1>2. /\ call' \in [Admins -> {"none", "retry", "delete"}]
      /\ target' \in [Admins -> Jobs \cup {NoJob}]
      /\ reset' \in [Admins -> JobRecord \cup {NoRecord}]
  BY <1>1 DEF TypeOK
<1>3. step' \in [Admins -> 1..DeleteCommands]
  BY <1>1 DEF TypeOK, DeleteCommands
<1>4. /\ call'[a] = "none"
      /\ \A b \in Admins : b # a =>
           call'[b] = call[b] /\ target'[b] = target[b] /\ reset'[b] = reset[b]
  BY <1>1 DEF TypeOK
<1>5. ASSUME NEW b \in Admins PROVE CallBegun(b)'
  <2>1. CASE b = a
    BY <1>4, <2>1 DEF CallBegun
  <2>2. CASE b # a
    BY <1>4, <2>2 DEF CallBegun
  <2> QED BY <2>1, <2>2
<1> QED BY <1>2, <1>3, <1>5

LEMMA AdminReadKeeps ==
  ASSUME KeepInv, NEW a \in Admins, NEW j \in Jobs, RetryDeadRead(a, j) \/ DeleteRead(a, j)
  PROVE  KeepInv'
<1>1. record[j] \in JobRecord /\ now \in Nat
  BY DEF RetryDeadRead, DeleteRead, KeepInv, TypeOK, StoreTypeOK
<1>2. /\ UNCHANGED <<store, now, consumerVars, schedulerVars, step,
                     born, dueAt, runs, succeeded, deleteDone, resends>>
      /\ target' = [target EXCEPT ![a] = j]
      /\ deleteBegun \subseteq deleteBegun' /\ deleteBegun' \in SUBSET Jobs
  BY DEF RetryDeadRead, DeleteRead, history, KeepInv, TypeOK
<1>3. \/ /\ call' = [call EXCEPT ![a] = "retry"]
         /\ \E rec \in JobRecord : reset' = [reset EXCEPT ![a] = rec]
      \/ /\ call' = [call EXCEPT ![a] = "delete"]
         /\ reset' = reset /\ j \in deleteBegun'
  <2>1. CASE RetryDeadRead(a, j)
    <3> DEFINE rec == [record[j] EXCEPT !.status = "pending", !.attempts = 0, !.processAt = now]
    <3>1. rec \in JobRecord
      BY <1>1, ResetFacts
    <3> QED BY <2>1, <3>1 DEF RetryDeadRead
  <2>2. CASE DeleteRead(a, j)
    BY <2>2 DEF DeleteRead
  <2> QED BY <2>1, <2>2
<1>4. /\ call' \in [Admins -> {"none", "retry", "delete"}]
      /\ target' \in [Admins -> Jobs \cup {NoJob}]
      /\ reset' \in [Admins -> JobRecord \cup {NoRecord}]
  BY <1>2, <1>3 DEF KeepInv, TypeOK
<1>5. TypeOK'
  BY <1>2, <1>4 DEF KeepInv, TypeOK, StoreTypeOK, store, consumerVars, schedulerVars
<1>6. \A c \in Consumers : HandsFull(c)'
  BY <1>2 DEF KeepInv, HandsFull, consumerVars
<1>7. ASSUME NEW b \in Admins PROVE CallBegun(b)'
  <2>1. CASE b = a
    <3>1. target'[a] = j
      BY <1>2 DEF KeepInv, TypeOK
    <3>2. \/ call'[a] = "retry" /\ reset'[a] \in JobRecord
          \/ call'[a] = "delete" /\ j \in deleteBegun'
      BY <1>3 DEF KeepInv, TypeOK
    <3> QED BY <2>1, <3>1, <3>2 DEF CallBegun
  <2>2. CASE b # a
    <3>1. call'[b] = call[b] /\ target'[b] = target[b] /\ reset'[b] = reset[b]
      BY <1>2, <1>3, <2>2 DEF KeepInv, TypeOK
    <3> QED BY <1>2, <3>1 DEF KeepInv, CallBegun
  <2> QED BY <2>1, <2>2
<1>8. NoJobLost'
  BY <1>2, StoreSame DEF KeepInv
<1> QED BY <1>5, <1>6, <1>7, <1>8 DEF KeepInv

LEMMA RetryKeeps ==
  ASSUME KeepInv, NEW a \in Admins, RetryDeadScript(a)
  PROVE  KeepInv'
<1>1. PICK j \in Jobs, rec \in JobRecord : j = target[a] /\ rec = reset[a]
  BY DEF RetryDeadScript, KeepInv, CallBegun
<1>2. /\ RetryDeadJob(j, rec) /\ EndCall(a)
      /\ UNCHANGED <<now, consumerVars, schedulerVars,
                     born, succeeded, deleteBegun, deleteDone, resends>>
      /\ dueAt' = [dueAt EXCEPT ![j] = now] \/ dueAt' = dueAt
      /\ runs' = [runs EXCEPT ![j] = 0] \/ runs' = runs
  BY <1>1 DEF RetryDeadScript
<1>3. dueAt' \in [Jobs -> Nat \cup {Absent}] /\ runs' \in [Jobs -> Nat]
  <2>1. /\ dueAt \in [Jobs -> Nat \cup {Absent}] /\ now \in Nat \cup {Absent}
        /\ runs \in [Jobs -> Nat]
    BY DEF KeepInv, TypeOK, StoreTypeOK
  <2>2. dueAt' \in [Jobs -> Nat \cup {Absent}]
    BY <1>2, <2>1
  <2>3. runs' \in [Jobs -> Nat]
    BY <1>2, <2>1
  <2> QED BY <2>2, <2>3
<1>4. /\ call' \in [Admins -> {"none", "retry", "delete"}]
      /\ target' \in [Admins -> Jobs \cup {NoJob}]
      /\ reset' \in [Admins -> JobRecord \cup {NoRecord}]
      /\ step' \in [Admins -> 1..DeleteCommands]
      /\ \A b \in Admins : CallBegun(b)'
  BY <1>2, EndCallFacts DEF KeepInv
<1>5. \A c \in Consumers : HandsFull(c)'
  BY <1>2 DEF KeepInv, HandsFull, consumerVars
<1>6. StoreTypeOK' /\ NoJobLost'
  <2>1. CASE UNCHANGED store
    BY <1>2, <2>1, StoreSame DEF KeepInv, TypeOK, StoreTypeOK, store
  <2>2. CASE ~(UNCHANGED store)
    <3>1. /\ dead[j] > 0 /\ dead' = [dead EXCEPT ![j] = @ - 1]
          /\ record' = [record EXCEPT ![j] = rec] /\ LPush(j)
          /\ UNCHANGED <<scheduled, retry, active>>
      BY <1>2, <2>2 DEF RetryDeadJob, Set
    <3>2. /\ dead' \in [Jobs -> Nat]
          /\ \A k \in Jobs \ {j} : dead'[k] = dead[k]
      BY <3>1 DEF KeepInv, TypeOK, StoreTypeOK
    <3>3. /\ record' \in [Jobs -> JobRecord \cup {NoRecord}] /\ record'[j] = rec
          /\ \A k \in Jobs \ {j} : record'[k] = record[k]
      BY <3>1 DEF KeepInv, TypeOK, StoreTypeOK
    <3>4. /\ queue' \in [Queues -> Seq(Jobs)] /\ InQueue(j)'
          /\ \A k \in Jobs : InQueue(k) => InQueue(k)'
      BY <3>1, LPushKeeps DEF KeepInv, TypeOK
    <3>5. StoreTypeOK'
      BY <1>2, <3>1, <3>2, <3>3, <3>4 DEF KeepInv, TypeOK, StoreTypeOK
    <3>6. PutAway(j)
      BY <3>1, <3>2, <3>3, <3>4, <3>5, StoreAssumption DEF PutAway, Placed, Located
    <3> QED BY <1>2, <3>5, <3>6, PutAwayKeeps DEF KeepInv
  <2> QED BY <2>1, <2>2
<1>7. TypeOK'
  BY <1>2, <1>3, <1>4, <1>6 DEF KeepInv, TypeOK, consumerVars, schedulerVars
<1> QED BY <1>4, <1>5, <1>6, <1>7 DEF KeepInv

\* A command of DeleteJob's pipeline touches the deleted job only.
LEMMA DeleteStepKeeps ==
  ASSUME KeepInv, NEW a \in Admins, DeleteStep(a)
  PROVE  KeepInv'
<1>1. PICK j \in Jobs : j = target[a] /\ j \in deleteBegun
  BY DEF DeleteStep, KeepInv, CallBegun
<1>2. /\ DeleteCommand(step[a], j)
      /\ UNCHANGED <<now, consumerVars, schedulerVars,
                     born, dueAt, runs, succeeded, deleteBegun, resends>>
      /\ deleteDone' \in SUBSET Jobs
  BY <1>1 DEF DeleteStep, KeepInv, TypeOK
<1>3. /\ call' \in [Admins -> {"none", "retry", "delete"}]
      /\ target' \in [Admins -> Jobs \cup {NoJob}]
      /\ reset' \in [Admins -> JobRecord \cup {NoRecord}]
      /\ step' \in [Admins -> 1..DeleteCommands]
      /\ \A b \in Admins : CallBegun(b)'
  <2>1. CASE EndCall(a)
    BY <1>2, <2>1, EndCallFacts DEF KeepInv
  <2>2. CASE /\ step[a] < DeleteCommands /\ step' = [step EXCEPT ![a] = @ + 1]
             /\ UNCHANGED <<call, target, reset>>
    <3>1. step' \in [Admins -> 1..DeleteCommands]
      BY <2>2 DEF KeepInv, TypeOK, DeleteCommands
    <3> QED BY <1>2, <2>2, <3>1 DEF KeepInv, TypeOK, CallBegun
  <2> QED BY <2>1, <2>2 DEF DeleteStep
<1>4. \A c \in Consumers : HandsFull(c)'
  BY <1>2 DEF KeepInv, HandsFull, consumerVars
<1>5. StoreTypeOK' /\ \A k \in Jobs \ {j} : record'[k] = record[k] /\ (Located(k) => Located(k)')
  <2>1. StoreTypeOK
    BY DEF KeepInv, TypeOK
  <2>2. CASE DeleteCommand(1, j) /\ step[a] = 1
    BY <1>2, <2>1, <2>2, LRemKeeps DEF DeleteCommand, StoreTypeOK, Located
  <2>3. CASE step[a] # 1
    <3>1. UNCHANGED <<now, queue>>
      BY <1>2, <2>3 DEF DeleteCommand
    <3>2. /\ retry' \in [Jobs -> Nat \cup {Absent}] /\ scheduled' \in [Jobs -> Nat \cup {Absent}]
          /\ dead' \in [Jobs -> Nat] /\ active' \in SUBSET Jobs
          /\ \A k \in Jobs \ {j} : /\ retry'[k] = retry[k] /\ scheduled'[k] = scheduled[k]
                                   /\ dead'[k] = dead[k] /\ (k \in active' <=> k \in active)
      <4>1. /\ retry' = [retry EXCEPT ![j] = Absent] \/ retry' = retry
            /\ scheduled' = [scheduled EXCEPT ![j] = Absent] \/ scheduled' = scheduled
            /\ dead' = [dead EXCEPT ![j] = 0] \/ dead' = dead
            /\ active' = active \ {j} \/ active' = active
        BY <1>2, <2>3 DEF DeleteCommand
      <4>2. /\ retry' \in [Jobs -> Nat \cup {Absent}]
            /\ \A k \in Jobs \ {j} : retry'[k] = retry[k]
        BY <2>1, <4>1 DEF StoreTypeOK
      <4>3. /\ scheduled' \in [Jobs -> Nat \cup {Absent}]
            /\ \A k \in Jobs \ {j} : scheduled'[k] = scheduled[k]
        BY <2>1, <4>1 DEF StoreTypeOK
      <4>4. dead' \in [Jobs -> Nat] /\ \A k \in Jobs \ {j} : dead'[k] = dead[k]
        BY <2>1, <4>1 DEF StoreTypeOK
      <4>5. active' \in SUBSET Jobs /\ \A k \in Jobs \ {j} : (k \in active' <=> k \in active)
        BY <2>1, <4>1 DEF StoreTypeOK
      <4> QED BY <4>2, <4>3, <4>4, <4>5
    <3>3. /\ record' \in [Jobs -> JobRecord \cup {NoRecord}]
          /\ \A k \in Jobs \ {j} : record'[k] = record[k]
      BY <1>2, <2>1, <2>3 DEF DeleteCommand, StoreTypeOK, Set
    <3>4. \A k \in Jobs : InQueue(k)' <=> InQueue(k)
      BY <3>1, SameQueues
    <3>5. StoreTypeOK'
      BY <2>1, <3>1, <3>2, <3>3 DEF StoreTypeOK
    <3> QED BY <3>2, <3>3, <3>4, <3>5 DEF Located
  <2> QED BY <1>2, <2>2, <2>3
<1>6. TypeOK'
  BY <1>2, <1>3, <1>5 DEF KeepInv, TypeOK, consumerVars, schedulerVars
<1>7. ASSUME NEW k \in Jobs PROVE Unharmed(k) \/ Excused(k)
  <2>1. CASE k = j
    BY <1>1, <1>2, <2>1 DEF Excused
  <2>2. CASE k # j
    BY <1>2, <1>5, <2>2 DEF Unharmed
  <2> QED BY <2>1, <2>2
<1>8. NoJobLost'
  BY <1>7, NoJobLostKept DEF KeepInv
<1> QED BY <1>3, <1>4, <1>6, <1>8 DEF KeepInv

LEMMA InitKeepInv == Init => KeepInv
<1> SUFFICES ASSUME Init PROVE KeepInv
  OBVIOUS
<1>1. TypeOK
  BY InitIInv DEF IInv
<1>2. NoJobLost
  BY DEF Init, NoJobLost
<1>3. \A c \in Consumers : HandsFull(c)
  BY DEF Init, HandsFull
<1>4. \A a \in Admins : CallBegun(a)
  BY DEF Init, CallBegun
<1> QED BY <1>1, <1>2, <1>3, <1>4 DEF KeepInv

LEMMA NextKeepInv == KeepInv /\ [FaultNext]_vars => KeepInv'
<1> SUFFICES ASSUME KeepInv, [FaultNext]_vars PROVE KeepInv'
  OBVIOUS
<1>1. CASE \E j \in Jobs : (\E delay \in EnqueueDelays : Enqueue(j, delay)) \/ EnqueueResend(j)
  BY <1>1, EnqueueKeeps
<1>2. CASE \E c \in Consumers : ConsumerNext(c) \/ DeadLetterUnanswered(c) \/ DeadLetterResend(c)
  BY <1>2, ConsumerKeeps
<1>3. CASE \E s \in Schedulers : SchedulerNext(s)
  BY <1>3, SchedulerKeeps
<1>4. CASE \E a \in Admins, j \in Jobs : RetryDeadRead(a, j) \/ DeleteRead(a, j)
  BY <1>4, AdminReadKeeps
<1>5. CASE \E a \in Admins : RetryDeadScript(a)
  BY <1>5, RetryKeeps
<1>6. CASE \E a \in Admins : DeleteStep(a)
  BY <1>6, DeleteStepKeeps
<1>7. CASE \E a \in Admins : AdminAbort(a)
  <2>1. PICK a \in Admins : AdminAbort(a)
    BY <1>7
  <2>2. EndCall(a) /\ UNCHANGED <<store, now, consumerVars, schedulerVars, history>>
    BY <2>1 DEF AdminAbort
  <2>3. /\ call' \in [Admins -> {"none", "retry", "delete"}]
        /\ target' \in [Admins -> Jobs \cup {NoJob}]
        /\ reset' \in [Admins -> JobRecord \cup {NoRecord}]
        /\ step' \in [Admins -> 1..DeleteCommands]
        /\ \A b \in Admins : CallBegun(b)'
    BY <2>2, EndCallFacts DEF KeepInv, history
  <2>4. TypeOK'
    BY <2>2, <2>3 DEF KeepInv, TypeOK, StoreTypeOK, store, consumerVars, schedulerVars, history
  <2>5. \A c \in Consumers : HandsFull(c)'
    BY <2>2 DEF KeepInv, HandsFull, consumerVars, history
  <2>6. NoJobLost'
    BY <2>2, StoreSame DEF KeepInv, history
  <2> QED BY <2>3, <2>4, <2>5, <2>6 DEF KeepInv
<1>8. CASE Tick
  <2>1. TypeOK'
    BY <1>8 DEF Tick, KeepInv, TypeOK, StoreTypeOK, store, consumerVars, schedulerVars, adminVars, history
  <2> QED BY <1>8, <2>1, AsideKeeps DEF Tick, history
<1>9. CASE UNCHANGED vars
  <2>1. TypeOK'
    BY <1>9 DEF vars, KeepInv, TypeOK, StoreTypeOK, store, consumerVars, schedulerVars, adminVars, history
  <2> QED BY <1>9, <2>1, AsideKeeps DEF vars, history
<1>10. CASE FaultNext
  BY <1>1, <1>2, <1>3, <1>4, <1>5, <1>6, <1>7, <1>8, <1>10
  DEF FaultNext, DeleteNext, ResendNext, Next, AdminNext
<1> QED BY <1>9, <1>10

\* At-least-once delivery survives deletions: a job that nobody asked to delete
\* is not lost, whatever deletions run, or stop half-way, next to it (the
\* pipeline of DeleteJob names its own job only).
THEOREM AtLeastOnceNextToDeletes == DeleteSpec => []NoJobLost
<1>1. DeleteNext => FaultNext
  BY DEF FaultNext
<1>2. KeepInv => NoJobLost
  BY DEF KeepInv
<1> QED BY <1>1, <1>2, InitKeepInv, NextKeepInv, PTL DEF DeleteSpec

\* At-least-once delivery survives lost replies: commands that are sent again
\* copy an ID but never lose it, because every script that takes a job out of
\* one structure puts it, with its record, into another.
THEOREM AtLeastOnceWithResends == ResendSpec => []NoJobLost
<1>1. ResendNext => FaultNext
  BY DEF FaultNext
<1>2. KeepInv => NoJobLost
  BY DEF KeepInv
<1> QED BY <1>1, <1>2, InitKeepInv, NextKeepInv, PTL DEF ResendSpec

-----------------------------------------------------------------------------
(* Deletions copy nothing                                                  *)

PlacesSame(k) ==
  /\ InQueue(k)' <=> InQueue(k)
  /\ scheduled'[k] = scheduled[k] /\ retry'[k] = retry[k] /\ dead'[k] = dead[k]
  /\ k \in active' <=> k \in active
  /\ born'[k] = born[k]

Orderly(k) == OnePlace(k) /\ (born[k] = Absent => ~Located(k))

LEMMA PlacesSameOrderly ==
  ASSUME NEW k \in Jobs, Orderly(k), PlacesSame(k)
  PROVE  Orderly(k)'
BY DEF Orderly, OnePlace, Located, PlacesSame

\* A step after which nobody owns a job who did not own it before.
LEMMA NoNewOwner ==
  ASSUME PlaceInv, TypeOK, \A q \in Queues : QueueInv(q)', \A k \in Jobs : Orderly(k)',
         \A d \in Consumers : pc'[d] \in Own => pc[d] \in Own /\ holds'[d] = holds[d],
         \A k \in Jobs : \/ PlacesSame(k)
                         \/ Alone(k)'
                         \/ \A d \in Consumers : pc'[d] \in Own => holds'[d] # k
  PROVE  PlaceInv'
<1>1. ASSUME NEW d \in Consumers PROVE OwnedAlone(d)'
  <2> SUFFICES ASSUME NEW k \in Jobs, pc'[d] \in Own, holds'[d] = k PROVE Alone(k)'
    BY DEF OwnedAlone
  <2>1. pc[d] \in Own /\ holds[d] = k
    OBVIOUS
  <2>2. Alone(k)
    BY <2>1 DEF PlaceInv, OwnedAlone
  <2> QED BY <2>2 DEF PlacesSame, Alone
<1>2. OneOwner'
  BY DEF PlaceInv, OneOwner, Owns, Own
<1> QED BY <1>1, <1>2 DEF PlaceInv, Orderly

\* A step that touches no structure.
LEMMA PlacesUntouched ==
  ASSUME PlaceInv, TypeOK, UNCHANGED <<queue, scheduled, retry, dead, active, born>>,
         \A d \in Consumers : pc'[d] \in Own => pc[d] \in Own /\ holds'[d] = holds[d]
  PROVE  PlaceInv'
<1>1. ASSUME NEW k \in Jobs PROVE PlacesSame(k)
  BY SameQueues DEF PlacesSame
<1>2. \A k \in Jobs : Orderly(k)'
  BY <1>1, PlacesSameOrderly DEF PlaceInv, Orderly
<1>3. \A q \in Queues : QueueInv(q)'
  BY SameQueues DEF PlaceInv
<1> QED BY <1>1, <1>2, <1>3, NoNewOwner

\* A step that moves one job, which nobody owns afterwards.
LEMMA MovedToOnePlace ==
  ASSUME PlaceInv, TypeOK, NEW j \in Jobs, \A q \in Queues : QueueInv(q)', Orderly(j)',
         \A k \in Jobs \ {j} : PlacesSame(k),
         \A d \in Consumers : pc'[d] \in Own => pc[d] \in Own /\ holds'[d] = holds[d],
         \A d \in Consumers : pc'[d] \in Own => holds'[d] # j
  PROVE  PlaceInv'
<1>1. \A k \in Jobs \ {j} : Orderly(k)'
  BY PlacesSameOrderly DEF PlaceInv, Orderly
<1> QED BY <1>1, NoNewOwner

\* What a job's owner knows, and that it is the only one.
LEMMA OwnerFacts ==
  ASSUME PlaceInv, KeepInv, NEW c \in Consumers, pc[c] \in Own
  PROVE  /\ holds[c] \in Jobs
         /\ Alone(holds[c])
         /\ \A d \in Consumers : d # c /\ pc[d] \in Own => holds[d] # holds[c]
<1>1. PICK j \in Jobs : j = holds[c]
  BY DEF KeepInv, HandsFull, Own
<1>2. Alone(j)
  BY <1>1 DEF PlaceInv, OwnedAlone
<1>3. \A d \in Consumers : d # c /\ pc[d] \in Own => holds[d] # j
  BY <1>1 DEF PlaceInv, OneOwner, Owns, Own
<1> QED BY <1>1, <1>2, <1>3

\* A job that is somewhere waiting has no owner.
LEMMA WaitingHasNoOwner ==
  ASSUME PlaceInv, NEW j \in Jobs, ~Alone(j), NEW d \in Consumers, pc[d] \in Own
  PROVE  holds[d] # j
BY DEF PlaceInv, OwnedAlone

LEMMA EnqueuePlaces ==
  ASSUME PlaceInv, KeepInv, NEW j \in Jobs, NEW delay \in EnqueueDelays, Enqueue(j, delay)
  PROVE  PlaceInv'
<1> DEFINE t == now + delay
<1>1. t \in Nat
  BY BrokerAssumption DEF KeepInv, TypeOK, StoreTypeOK
<1> HIDE DEF t
<1>2. NewJob(t).processAt = t /\ Unix(t) # Absent /\ t # Absent
  BY <1>1, NewJobFacts, UnixNat DEF Absent
<1>3. /\ born[j] = Absent /\ born' = [born EXCEPT ![j] = t]
      /\ UNCHANGED <<retry, dead, active, consumerVars>>
      /\ \/ scheduled' = scheduled /\ LPush(j)
         \/ queue' = queue /\ scheduled' = [scheduled EXCEPT ![j] = Unix(t)]
  BY <1>2 DEF Enqueue, SetBranchLpushZadd, t
<1>4. TypeOK /\ StoreTypeOK /\ OnePlace(j) /\ ~Located(j)
  BY <1>3 DEF PlaceInv, KeepInv, TypeOK
<1>5. /\ ~InQueue(j) /\ scheduled[j] = Absent /\ retry[j] = Absent /\ dead[j] = 0 /\ j \notin active
      /\ ~Alone(j)
  BY <1>3, <1>4 DEF Located, StoreTypeOK, Alone
<1>6. born'[j] # Absent /\ \A k \in Jobs \ {j} : born'[k] = born[k]
  BY <1>2, <1>3, <1>4 DEF TypeOK
<1>7. (\A q \in Queues : QueueInv(q)') /\ Orderly(j)' /\ \A k \in Jobs \ {j} : PlacesSame(k)
  <2>1. CASE scheduled' = scheduled /\ LPush(j)
    <3>1. /\ \A q \in Queues : QueueInv(q)'
          /\ \A k \in Jobs : InQueue(k)' <=> (InQueue(k) \/ k = j)
      BY <1>4, <1>5, <2>1, LPushFacts DEF PlaceInv
    <3> QED BY <1>3, <1>5, <1>6, <2>1, <3>1 DEF Orderly, OnePlace, PlacesSame
  <2>2. CASE queue' = queue /\ scheduled' = [scheduled EXCEPT ![j] = Unix(t)]
    <3>1. /\ \A q \in Queues : QueueInv(q)'
          /\ \A k \in Jobs : InQueue(k)' <=> InQueue(k)
      BY <2>2, SameQueues DEF PlaceInv
    <3>2. \A k \in Jobs \ {j} : scheduled'[k] = scheduled[k]
      BY <1>4, <2>2 DEF StoreTypeOK
    <3> QED BY <1>3, <1>5, <1>6, <3>1, <3>2 DEF Orderly, OnePlace, PlacesSame
  <2> QED BY <1>3, <2>1, <2>2
<1>8. \A d \in Consumers : /\ pc'[d] \in Own => pc[d] \in Own /\ holds'[d] = holds[d]
                           /\ pc'[d] \in Own => holds'[d] # j
  BY <1>3, <1>5, WaitingHasNoOwner DEF consumerVars
<1> QED BY <1>4, <1>7, <1>8, MovedToOnePlace

\* The popped job goes into flight, to an owner of its own.
LEMMA DequeuePlaces ==
  ASSUME PlaceInv, KeepInv, NEW c \in Consumers, NEW q \in Queues, DequeuePop(c, q)
  PROVE  PlaceInv'
<1>1. TypeOK /\ StoreTypeOK
  BY DEF KeepInv, TypeOK
<1>2. RpopZadd(q)
  BY DEF DequeuePop
<1>3. PICK j \in Jobs : /\ j = Head(queue[q]) /\ InQueue(j)
                        /\ \A k \in Jobs : InQueue(k)' <=> (InQueue(k) /\ k # j)
  BY <1>1, <1>2, RPopFacts DEF PlaceInv
<1>4. \A r \in Queues : QueueInv(r)'
  BY <1>1, <1>2, RPopFacts DEF PlaceInv
<1>5. /\ active' = active \cup {j} /\ UNCHANGED <<scheduled, retry, dead, born>>
      /\ pc' = [pc EXCEPT ![c] = "popped"] /\ holds' = [holds EXCEPT ![c] = j]
  BY <1>3 DEF DequeuePop, RpopZadd, Goto, history
<1>6. /\ pc'[c] = "popped" /\ holds'[c] = j
      /\ \A d \in Consumers \ {c} : pc'[d] = pc[d] /\ holds'[d] = holds[d]
  BY <1>1, <1>5 DEF TypeOK
<1>7. OnePlace(j) /\ Located(j) /\ Orderly(j)
  BY <1>3 DEF PlaceInv, Located, Orderly
<1>8. /\ scheduled[j] = Absent /\ retry[j] = Absent /\ dead[j] = 0 /\ born[j] # Absent
      /\ ~Alone(j)
  BY <1>3, <1>7 DEF OnePlace, Orderly, Alone
<1>9. Alone(j)' /\ Orderly(j)'
  BY <1>3, <1>5, <1>8 DEF Alone, Orderly, OnePlace
<1>10. \A k \in Jobs \ {j} : PlacesSame(k) /\ Orderly(k)'
  <2>1. \A k \in Jobs \ {j} : PlacesSame(k)
    BY <1>3, <1>5 DEF PlacesSame
  <2> QED BY <2>1, PlacesSameOrderly DEF PlaceInv, Orderly
<1>11. \A d \in Consumers \ {c} : pc'[d] \in Own => holds'[d] # j
  BY <1>6, <1>8, WaitingHasNoOwner
<1>12. ASSUME NEW d \in Consumers PROVE OwnedAlone(d)'
  <2> SUFFICES ASSUME NEW k \in Jobs, pc'[d] \in Own, holds'[d] = k PROVE Alone(k)'
    BY DEF OwnedAlone
  <2>1. CASE k = j
    BY <1>9, <2>1
  <2>2. CASE k # j
    <3>1. d # c /\ pc[d] \in Own /\ holds[d] = k
      BY <1>6, <2>2
    <3>2. Alone(k)
      BY <3>1 DEF PlaceInv, OwnedAlone
    <3> QED BY <1>10, <2>2, <3>2 DEF PlacesSame, Alone
  <2> QED BY <2>1, <2>2
<1>13. OneOwner'
  <2> SUFFICES ASSUME NEW d \in Consumers, NEW e \in Consumers, NEW k \in Jobs,
                      pc'[d] \in Own, pc'[e] \in Own, holds'[d] = k, holds'[e] = k
               PROVE  d = e
    BY DEF OneOwner, Owns, Own
  <2>1. CASE d = c \/ e = c
    BY <1>6, <1>11, <2>1
  <2>2. CASE d # c /\ e # c
    BY <1>6, <2>2 DEF PlaceInv, OneOwner, Owns, Own
  <2> QED BY <2>1, <2>2
<1> QED BY <1>4, <1>9, <1>10, <1>12, <1>13 DEF PlaceInv, Orderly

\* A consumer hands its job back: to the retry set, to the dead letters, or to
\* nobody.
LEMMA HandBackPlaces ==
  ASSUME PlaceInv, KeepInv, NEW c \in Consumers, pc[c] \in Own,
         UNCHANGED <<queue, scheduled, born>>, active' = active \ {holds[c]},
         \/ UNCHANGED <<retry, dead>>
         \/ UNCHANGED dead /\ \E at \in Nat : retry' = [retry EXCEPT ![holds[c]] = at]
         \/ UNCHANGED retry /\ dead' = [dead EXCEPT ![holds[c]] = @ + 1],
         pc'[c] \notin Own, \A d \in Consumers \ {c} : pc'[d] = pc[d] /\ holds'[d] = holds[d]
  PROVE  PlaceInv'
<1>1. PICK j \in Jobs : /\ j = holds[c] /\ Alone(j)
                        /\ \A d \in Consumers : d # c /\ pc[d] \in Own => holds[d] # j
  BY OwnerFacts
<1>2. TypeOK /\ StoreTypeOK
  BY DEF KeepInv, TypeOK
<1>3. \A k \in Jobs : InQueue(k)' <=> InQueue(k)
  BY SameQueues
<1>4. \/ retry'[j] = Absent /\ dead'[j] = 0
      \/ retry'[j] # Absent /\ dead'[j] = 0
      \/ retry'[j] = Absent /\ dead'[j] = 1
  <2>1. CASE UNCHANGED <<retry, dead>>
    BY <1>1, <2>1 DEF Alone
  <2>2. CASE UNCHANGED dead /\ \E at \in Nat : retry' = [retry EXCEPT ![holds[c]] = at]
    BY <1>1, <1>2, <2>2 DEF Alone, StoreTypeOK, Absent
  <2>3. CASE UNCHANGED retry /\ dead' = [dead EXCEPT ![holds[c]] = @ + 1]
    BY <1>1, <1>2, <2>3 DEF Alone, StoreTypeOK
  <2> QED BY <2>1, <2>2, <2>3
<1>5. Orderly(j)'
  BY <1>1, <1>3, <1>4 DEF Alone, Orderly, OnePlace
<1>6. ASSUME NEW k \in Jobs \ {j} PROVE PlacesSame(k)
  <2>1. retry'[k] = retry[k] /\ dead'[k] = dead[k]
    BY <1>1, <1>2 DEF StoreTypeOK
  <2> QED BY <1>1, <1>3, <2>1 DEF PlacesSame
<1>7. \A q \in Queues : QueueInv(q)'
  BY SameQueues DEF PlaceInv
<1>8. \A d \in Consumers : /\ pc'[d] \in Own => pc[d] \in Own /\ holds'[d] = holds[d]
                           /\ pc'[d] \in Own => holds'[d] # j
  BY <1>1
<1> QED BY <1>2, <1>5, <1>6, <1>7, <1>8, MovedToOnePlace

LEMMA ConsumerPlaces ==
  ASSUME PlaceInv, KeepInv, NEW c \in Consumers, ConsumerNext(c)
  PROVE  PlaceInv'
<1>1. TypeOK /\ StoreTypeOK
  BY DEF KeepInv, TypeOK
<1>2. CASE \E q \in Queues : DequeuePop(c, q)
  BY <1>2, DequeuePlaces
<1>3. CASE DequeueGet(c) \/ StartHandler(c)
  <2>1. /\ UNCHANGED <<queue, scheduled, retry, dead, active, born, holds>>
        /\ pc[c] \in Own /\ \A d \in Consumers \ {c} : pc'[d] = pc[d]
    BY <1>1, <1>3 DEF DequeueGet, StartHandler, Goto, store, history, Own, TypeOK
  <2> QED BY <1>1, <2>1, PlacesUntouched
<1>4. CASE AcknowledgeDel(c) \/ Drop(c)
  <2>1. /\ UNCHANGED <<queue, scheduled, retry, dead, active, born>> /\ Leave(c)
    BY <1>4 DEF AcknowledgeDel, Drop, store, history
  <2>2. pc'[c] = "idle" /\ \A d \in Consumers \ {c} : pc'[d] = pc[d] /\ holds'[d] = holds[d]
    BY <1>1, <2>1 DEF Leave, Goto, TypeOK
  <2> QED BY <1>1, <2>1, <2>2, PlacesUntouched DEF Own
<1>5. CASE AcknowledgeZrem(c)
  <2>1. /\ pc[c] \in Own /\ active' = active \ {holds[c]} /\ pc' = [pc EXCEPT ![c] = "acking"]
        /\ UNCHANGED <<queue, scheduled, retry, dead, born, holds>>
    BY <1>5 DEF AcknowledgeZrem, Goto, Own
  <2>2. pc'[c] \notin Own /\ \A d \in Consumers \ {c} : pc'[d] = pc[d] /\ holds'[d] = holds[d]
    BY <1>1, <2>1 DEF TypeOK, Own
  <2> QED BY <2>1, <2>2, HandBackPlaces
<1>6. CASE NoHandler(c) \/ FailDead(c) \/ \E delay \in RetryDelays : FailRequeue(c, delay)
  <2>1. pc[c] \in Own /\ Leave(c)
    BY <1>6 DEF NoHandler, FailDead, FailRequeue, Own
  <2>2. pc'[c] \notin Own /\ \A d \in Consumers \ {c} : pc'[d] = pc[d] /\ holds'[d] = holds[d]
    BY <1>1, <2>1 DEF Leave, Goto, TypeOK, Own
  <2>3. CASE NoHandler(c) \/ FailDead(c)
    <3>1. /\ UNCHANGED <<queue, scheduled, born, retry>> /\ active' = active \ {holds[c]}
          /\ dead' = [dead EXCEPT ![holds[c]] = @ + 1]
      BY <2>3 DEF NoHandler, FailDead, SetLpushZrem, history
    <3> QED BY <2>1, <2>2, <3>1, HandBackPlaces
  <2>4. CASE \E delay \in RetryDelays : FailRequeue(c, delay)
    <3>1. PICK delay \in RetryDelays : FailRequeue(c, delay)
      BY <2>4
    <3>2. now + delay \in Nat
      BY <1>1, BrokerAssumption DEF StoreTypeOK
    <3>3. Unix(now + delay) \in Nat
      BY <3>2, UnixNat
    <3>4. /\ UNCHANGED <<queue, scheduled, born, dead>> /\ active' = active \ {holds[c]}
          /\ retry' = [retry EXCEPT ![holds[c]] = Unix(now + delay)]
      BY <3>1 DEF FailRequeue, SetZaddZrem
    <3>5. \E at \in Nat : retry' = [retry EXCEPT ![holds[c]] = at]
      BY <3>3, <3>4
    <3> QED BY <2>1, <2>2, <3>4, <3>5, HandBackPlaces
  <2> QED BY <1>6, <2>3, <2>4
<1> QED BY <1>2, <1>3, <1>4, <1>5, <1>6 DEF ConsumerNext

\* The claim takes an ID out of a sorted set and puts it into its queue.
LEMMA SchedulerPlaces ==
  ASSUME PlaceInv, KeepInv, NEW s \in Schedulers, SchedulerNext(s)
  PROVE  PlaceInv'
<1>1. TypeOK /\ StoreTypeOK
  BY DEF KeepInv, TypeOK
<1>2. UNCHANGED <<pc, holds, born>>
  BY DEF SchedulerNext, PromoteStart, PromoteList, PromoteOne, PromoteAbort, consumerVars, history
<1>3. CASE UNCHANGED store
  BY <1>1, <1>2, <1>3, PlacesUntouched DEF store
<1>4. CASE ~(UNCHANGED store)
  <2>1. PICK j \in Jobs : PromoteOne(s, j)
    BY <1>4 DEF SchedulerNext, PromoteStart, PromoteList, PromoteAbort
  <2>2. /\ Score(source[s], j) # Absent /\ ZremFrom(source[s], j)
        /\ UNCHANGED <<dead, active>>
        /\ UNCHANGED queue \/ LPush(j)
    BY <1>4, <2>1 DEF PromoteOne, PromoteJob
  <2>3. scheduled[j] # Absent \/ retry[j] # Absent
    BY <2>2 DEF Score
  <2>4. ~Alone(j) /\ OnePlace(j) /\ Orderly(j) /\ dead[j] \in Nat
    BY <1>1, <2>3 DEF Alone, PlaceInv, Orderly, StoreTypeOK
  <2>5. ~InQueue(j) /\ dead[j] = 0 /\ j \notin active /\ born[j] # Absent
    BY <2>3, <2>4 DEF OnePlace, Orderly, Located
  <2>6. /\ scheduled'[j] = Absent /\ retry'[j] = Absent
        /\ \A k \in Jobs \ {j} : scheduled'[k] = scheduled[k] /\ retry'[k] = retry[k]
    BY <1>1, <2>2, <2>4 DEF ZremFrom, Score, OnePlace, StoreTypeOK
  <2>7. /\ \A q \in Queues : QueueInv(q)'
        /\ \A k \in Jobs \ {j} : InQueue(k)' <=> InQueue(k)
    <3>1. CASE UNCHANGED queue
      BY <3>1, SameQueues DEF PlaceInv
    <3>2. CASE LPush(j)
      BY <1>1, <2>5, <3>2, LPushFacts DEF PlaceInv
    <3> QED BY <2>2, <3>1, <3>2
  <2>8. Orderly(j)' /\ \A k \in Jobs \ {j} : PlacesSame(k)
    BY <1>2, <2>2, <2>5, <2>6, <2>7 DEF Orderly, OnePlace, PlacesSame
  <2>9. \A d \in Consumers : /\ pc'[d] \in Own => pc[d] \in Own /\ holds'[d] = holds[d]
                             /\ pc'[d] \in Own => holds'[d] # j
    BY <1>2, <2>4, WaitingHasNoOwner
  <2> QED BY <1>1, <2>7, <2>8, <2>9, MovedToOnePlace
<1> QED BY <1>3, <1>4

\* The claim takes an ID out of the dead letters and puts it into its queue.
LEMMA RetryPlaces ==
  ASSUME PlaceInv, KeepInv, NEW a \in Admins, RetryDeadScript(a)
  PROVE  PlaceInv'
<1>1. TypeOK /\ StoreTypeOK
  BY DEF KeepInv, TypeOK
<1>2. PICK j \in Jobs, rec \in JobRecord : j = target[a] /\ rec = reset[a]
  BY DEF RetryDeadScript, KeepInv, CallBegun
<1>3. RetryDeadJob(j, rec) /\ UNCHANGED <<pc, holds, born>>
  BY <1>2 DEF RetryDeadScript, consumerVars
<1>4. CASE UNCHANGED store
  BY <1>1, <1>3, <1>4, PlacesUntouched DEF store
<1>5. CASE ~(UNCHANGED store)
  <2>1. /\ dead[j] > 0 /\ dead' = [dead EXCEPT ![j] = @ - 1] /\ LPush(j)
        /\ UNCHANGED <<scheduled, retry, active>>
    BY <1>3, <1>5 DEF RetryDeadJob
  <2>2. ~Alone(j) /\ OnePlace(j) /\ Orderly(j) /\ dead[j] \in Nat
    BY <1>1, <2>1 DEF Alone, PlaceInv, Orderly, StoreTypeOK
  <2>3. /\ ~InQueue(j) /\ scheduled[j] = Absent /\ retry[j] = Absent /\ j \notin active
        /\ dead[j] = 1 /\ born[j] # Absent
    BY <2>1, <2>2 DEF OnePlace, Orderly, Located
  <2>4. dead'[j] = 0 /\ \A k \in Jobs \ {j} : dead'[k] = dead[k]
    BY <1>1, <2>1, <2>3 DEF StoreTypeOK
  <2>5. /\ \A q \in Queues : QueueInv(q)'
        /\ \A k \in Jobs : InQueue(k)' <=> (InQueue(k) \/ k = j)
    BY <1>1, <2>1, <2>3, LPushFacts DEF PlaceInv
  <2>6. Orderly(j)' /\ \A k \in Jobs \ {j} : PlacesSame(k)
    BY <1>3, <2>1, <2>3, <2>4, <2>5 DEF Orderly, OnePlace, PlacesSame
  <2>7. \A d \in Consumers : /\ pc'[d] \in Own => pc[d] \in Own /\ holds'[d] = holds[d]
                             /\ pc'[d] \in Own => holds'[d] # j
    BY <1>3, <2>2, WaitingHasNoOwner
  <2> QED BY <1>1, <2>5, <2>6, <2>7, MovedToOnePlace
<1> QED BY <1>4, <1>5

\* A command of DeleteJob takes the ID out of one structure, and leaves the
\* consumer that owns it its owner.
LEMMA DeletePlaces ==
  ASSUME PlaceInv, KeepInv, NEW a \in Admins, DeleteStep(a)
  PROVE  PlaceInv'
<1>1. TypeOK /\ StoreTypeOK
  BY DEF KeepInv, TypeOK
<1>2. PICK j \in Jobs : j = target[a]
  BY DEF DeleteStep, KeepInv, CallBegun
<1>3. DeleteCommand(step[a], j) /\ UNCHANGED <<pc, holds, born>>
  BY <1>2 DEF DeleteStep, consumerVars
<1>4. /\ \A q \in Queues : QueueInv(q)'
      /\ InQueue(j)' => InQueue(j)
      /\ \A k \in Jobs \ {j} : InQueue(k)' <=> InQueue(k)
  <2>1. CASE step[a] = 1
    BY <1>1, <1>3, <2>1, LRemKeeps DEF PlaceInv
  <2>2. CASE step[a] # 1
    <3>1. UNCHANGED queue
      BY <1>3, <2>2 DEF DeleteCommand
    <3> QED BY <3>1, SameQueues DEF PlaceInv
  <2> QED BY <2>1, <2>2
<1>5. /\ retry' = [retry EXCEPT ![j] = Absent] \/ retry' = retry
      /\ scheduled' = [scheduled EXCEPT ![j] = Absent] \/ scheduled' = scheduled
      /\ dead' = [dead EXCEPT ![j] = 0] \/ dead' = dead
      /\ active' = active \ {j} \/ active' = active
  BY <1>3 DEF DeleteCommand
<1>6. /\ retry'[j] = Absent \/ retry'[j] = retry[j]
      /\ \A k \in Jobs \ {j} : retry'[k] = retry[k]
  BY <1>1, <1>5 DEF StoreTypeOK
<1>7. /\ scheduled'[j] = Absent \/ scheduled'[j] = scheduled[j]
      /\ \A k \in Jobs \ {j} : scheduled'[k] = scheduled[k]
  BY <1>1, <1>5 DEF StoreTypeOK
<1>8. /\ dead'[j] = 0 \/ dead'[j] = dead[j]
      /\ \A k \in Jobs \ {j} : dead'[k] = dead[k]
  BY <1>1, <1>5 DEF StoreTypeOK
<1>9. /\ j \in active' => j \in active
      /\ \A k \in Jobs \ {j} : k \in active' <=> k \in active
  BY <1>5
<1>10. Orderly(j)'
  <2>1. Orderly(j)
    BY DEF PlaceInv, Orderly
  <2> QED BY <1>3, <1>4, <1>6, <1>7, <1>8, <1>9, <2>1 DEF Orderly, OnePlace, Located
<1>11. \A k \in Jobs \ {j} : PlacesSame(k)
  BY <1>3, <1>4, <1>6, <1>7, <1>8, <1>9 DEF PlacesSame
<1>12. \A k \in Jobs : Orderly(k)'
  BY <1>10, <1>11, PlacesSameOrderly DEF PlaceInv, Orderly
<1>13. Alone(j) => Alone(j)'
  BY <1>3, <1>4, <1>6, <1>7, <1>8 DEF Alone
<1>14. Alone(j)' \/ \A d \in Consumers : pc'[d] \in Own => holds'[d] # j
  BY <1>3, <1>13, WaitingHasNoOwner
<1> QED BY <1>1, <1>3, <1>4, <1>11, <1>12, <1>14, NoNewOwner

LEMMA InitPlaceInv == Init => PlaceInv
<1> SUFFICES ASSUME Init PROVE PlaceInv
  OBVIOUS
<1>1. /\ \A q \in Queues : QueueInv(q)
      /\ \A j \in Jobs : OnePlace(j) /\ Lifecycle(j)
      /\ OneOwner
  BY InitIInv DEF IInv
<1>2. \A c \in Consumers : OwnedAlone(c)
  BY DEF Init, OwnedAlone, Own
<1> QED BY <1>1, <1>2 DEF PlaceInv, Lifecycle

LEMMA NextPlaceInv == KeepInv /\ PlaceInv /\ [DeleteNext]_vars => PlaceInv'
<1> SUFFICES ASSUME KeepInv, PlaceInv, [DeleteNext]_vars PROVE PlaceInv'
  OBVIOUS
<1>1. TypeOK
  BY DEF KeepInv
<1>2. CASE \E j \in Jobs, delay \in EnqueueDelays : Enqueue(j, delay)
  BY <1>2, EnqueuePlaces
<1>3. CASE \E c \in Consumers : ConsumerNext(c)
  BY <1>3, ConsumerPlaces
<1>4. CASE \E s \in Schedulers : SchedulerNext(s)
  BY <1>4, SchedulerPlaces
<1>5. CASE \E a \in Admins : RetryDeadScript(a)
  BY <1>5, RetryPlaces
<1>6. CASE \E a \in Admins : DeleteStep(a)
  BY <1>6, DeletePlaces
<1>7. CASE \/ \E a \in Admins : AdminAbort(a) \/ \E j \in Jobs : RetryDeadRead(a, j) \/ DeleteRead(a, j)
           \/ Tick
           \/ UNCHANGED vars
  <2>1. UNCHANGED <<queue, scheduled, retry, dead, active, born, pc, holds>>
    BY <1>7 DEF AdminAbort, RetryDeadRead, DeleteRead, Tick, vars, store, consumerVars, history
  <2> QED BY <1>1, <2>1, PlacesUntouched
<1>8. CASE DeleteNext
  BY <1>2, <1>3, <1>4, <1>5, <1>6, <1>7, <1>8 DEF DeleteNext, Next, AdminNext
<1> QED BY <1>7, <1>8

LEMMA DeleteInvariance == DeleteSpec => [](KeepInv /\ PlaceInv)
<1>1. DeleteNext => FaultNext
  BY DEF FaultNext
<1>2. KeepInv /\ PlaceInv /\ [DeleteNext]_vars => (KeepInv /\ PlaceInv)'
  BY <1>1, NextKeepInv, NextPlaceInv
<1> QED BY <1>2, InitKeepInv, InitPlaceInv, PTL DEF DeleteSpec

\* Jobs are moved and never copied, also while DeleteJob takes them out of one
\* structure after the other: a command that comes late finds the ID gone or
\* removes it where it is by then, and a consumer that hands back a job that
\* was deleted under it puts it into one place.
THEOREM MovedNotCopiedNextToDeletes == DeleteSpec => []SinglePlace
<1>1. ASSUME PlaceInv, NEW j \in Jobs, NEW p1 \in Places, NEW p2 \in Places,
             InPlace(p1, j), InPlace(p2, j)
      PROVE  p1 = p2
  <2>1. OnePlace(j)
    BY <1>1 DEF PlaceInv
  <2> QED BY <1>1, <2>1 DEF OnePlace, InPlace, Places
<1>2. ASSUME PlaceInv, NEW j \in Jobs, NEW q \in Queues, NEW i \in DOMAIN queue[q],
             NEW k \in DOMAIN queue[q], queue[q][i] = j, queue[q][k] = j
      PROVE  i = k
  BY <1>2 DEF PlaceInv, QueueInv, Distinct
<1>3. PlaceInv => SinglePlace
  BY <1>1, <1>2 DEF SinglePlace, PlaceInv, OnePlace
<1> QED BY <1>3, DeleteInvariance, PTL

\* Mutual exclusion holds next to deletions: a deleted job may still be held
\* by the consumer that took it, but by no other.
THEOREM ExclusiveOwnerNextToDeletes == DeleteSpec => []OneOwner
<1>1. PlaceInv => OneOwner
  BY DEF PlaceInv
<1> QED BY <1>1, DeleteInvariance, PTL
=============================================================================
