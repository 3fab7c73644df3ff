---------------------------- MODULE ServerProofs ----------------------------
(***************************************************************************)
(* Safety of the worker server for any number of jobs, queues and workers, *)
(* any weights and any size of the channel: Spec keeps IInv, and IInv      *)
(* implies the safety invariants that Server.cfg checks on a small         *)
(* instance.                                                               *)
(***************************************************************************)
EXTENDS Server, ProofLemmas

\* A queue lists a job once, and only ready jobs that name this queue.
QueueInv(q) ==
  /\ Distinct(queue[q])
  /\ \A j \in Elems(queue[q]) : QueueOf[j] = q /\ phase[j] = "ready"

InHand(j) == j = taken \/ j \in Elems(jobCh) \/ \E w \in Workers : wjob[w] = j

\* The dispatcher has a job from Dequeue to the end of Submit, a worker while
\* it processes one, and no job is in two hands.
HandsInv ==
  /\ taken # NoJob <=> dpc \in {"get", "submit"}
  /\ taken \notin Elems(jobCh)
  /\ Distinct(jobCh)
  /\ \A w \in Workers :
       /\ wjob[w] # NoJob <=> wpc[w] = "process"
       /\ wjob[w] \notin Elems(jobCh)
       /\ wjob[w] # NoJob => wjob[w] # taken
       /\ \A v \in Workers : wjob[v] = wjob[w] /\ wjob[w] # NoJob => v = w

\* The broker has a job in flight as long as it is in somebody's hands, and for
\* ever when the one who had it left it behind.
JobInv(j) ==
  /\ InHand(j) => phase[j] = "active" /\ j \notin abandoned
  /\ j \in abandoned => phase[j] = "active"
  /\ phase[j] = "active" /\ ~cancelled => InHand(j) \/ j \in abandoned
  /\ phase[j] = "active" /\ j \in received =>
       j \in abandoned \/ \E w \in Workers : wjob[w] = j

\* The order of shutdown.
RunInv ==
  /\ rpc # "serving" => cancelled
  /\ rpc \in {"draining", "closed"} => dpc = "stopped" /\ spc = "stopped"
  /\ rpc = "closed" => \A w \in Workers : wpc[w] = "exited"

IInv ==
  /\ TypeOK
  /\ ScheduleMatchesWeights
  /\ dpc = "dequeue" => schedule # <<>>
  /\ \A q \in Queues : QueueInv(q)
  /\ HandsInv
  /\ \A j \in Jobs : JobInv(j)
  /\ RunInv

-----------------------------------------------------------------------------
(* The poll schedule                                                       *)

\* The turns of one queue, and the schedules of the first queues of an order.
Turns(q) == [i \in 1..Weight[q] |-> q]
IsRound(o, f, m) == f[0] = <<>> /\ \A n \in 1..m : f[n] = f[n - 1] \o Turns(o[n])

LEMMA TurnsType == ASSUME NEW q \in Queues PROVE Turns(q) \in Seq(Queues)
BY ServerAssumption DEF Turns

\* By induction on the number of queues.
LEMMA RoundExists ==
  ASSUME NEW o \in Seq(Queues)
  PROVE \E f \in [0..Len(o) -> Seq(Queues)] : IsRound(o, f, Len(o))
<1> DEFINE T == {m \in Nat : m <= Len(o) => \E f \in [0..m -> Seq(Queues)] : IsRound(o, f, m)}
<1>1. 0 \in T
  <2> DEFINE f == [n \in 0..0 |-> <<>>]
  <2>1. f \in [0..0 -> Seq(Queues)] /\ IsRound(o, f, 0) BY DEF IsRound
  <2> QED BY <2>1
<1>2. ASSUME NEW m \in 0..(Len(o) - 1), m \in T PROVE m + 1 \in T
  <2>1. PICK f \in [0..m -> Seq(Queues)] : IsRound(o, f, m) BY <1>2
  <2>2. o[m + 1] \in Queues OBVIOUS
  <2> DEFINE t == Turns(o[m + 1])
             r == f[m] \o t
             g == [n \in 0..(m + 1) |-> IF n = m + 1 THEN r ELSE f[n]]
  <2>3. t \in Seq(Queues)
    BY <2>2, TurnsType
  <2>4. r \in Seq(Queues)
    <3> HIDE DEF t
    <3> QED BY <2>1, <2>3
  <2>5. g \in [0..(m + 1) -> Seq(Queues)]
    <3> HIDE DEF r
    <3> QED BY <2>4
  <2>6. g[0] = <<>>
    <3> HIDE DEF r
    <3> QED BY <2>1 DEF IsRound
  <2>7. ASSUME NEW n \in 1..(m + 1) PROVE g[n] = g[n - 1] \o Turns(o[n])
    <3>1. CASE n = m + 1
      <4>1. g[n] = r /\ g[n - 1] = f[m]
        <5> HIDE DEF r
        <5> QED BY <3>1
      <4> QED BY <3>1, <4>1
    <3>2. CASE n # m + 1
      <4>1. g[n] = f[n] /\ g[n - 1] = f[n - 1] /\ n \in 1..m
        <5> HIDE DEF r
        <5> QED BY <3>2
      <4> QED BY <2>1, <4>1 DEF IsRound
    <3> QED BY <3>1, <3>2
  <2> HIDE DEF g
  <2>8. IsRound(o, g, m + 1)
    BY <2>6, <2>7 DEF IsRound
  <2>9. m + 1 \in Nat
    OBVIOUS
  <2> QED BY <2>5, <2>8, <2>9
<1>3. Len(o) \in Nat OBVIOUS
<1>4. \A n \in 0..Len(o) : n \in T 
  <2> HIDE DEF T
  <2> QED BY <1>1, <1>2, <1>3, InductionUpTo
<1> QED BY <1>3, <1>4

\* buildPollSchedule is what its loop says: a recursive function is one for
\* which its equation has a solution, and the solution is unique.
LEMMA PollScheduleFacts ==
  ASSUME NEW o \in Seq(Queues)
  PROVE \E f \in [0..Len(o) -> Seq(Queues)] : IsRound(o, f, Len(o)) /\ buildPollSchedule(o) = f[Len(o)]
<1> DEFINE Body(f) == [n \in 0..Len(o) |-> IF n = 0 THEN <<>> ELSE f[n - 1] \o Turns(o[n])]
   up == CHOOSE f : f = Body(f)
<1>1. buildPollSchedule(o) = up[Len(o)]
  BY DEF buildPollSchedule, Turns
<1>2. PICK f \in [0..Len(o) -> Seq(Queues)] : IsRound(o, f, Len(o))
  BY RoundExists
<1>3. f = Body(f)
  <2>1. ASSUME NEW n \in 0..Len(o) PROVE f[n] = Body(f)[n]
    <3>1. CASE n = 0
      BY <1>2, <3>1 DEF IsRound
    <3>2. CASE n # 0
      <4>1. n \in 1..Len(o)
        BY <3>2
      <4>2. f[n] = f[n - 1] \o Turns(o[n])
        BY <1>2, <4>1 DEF IsRound
      <4> QED BY <3>2, <4>2
    <3> QED BY <3>1, <3>2
  <2> QED BY <1>2, <2>1
<1>4. up = Body(up)
  <2> HIDE DEF Body
  <2> QED BY <1>3
<1> HIDE DEF up
<1> DEFINE T == {n \in Nat : n <= Len(o) => up[n] = f[n]}
<1>5. Len(o) \in Nat
  OBVIOUS
<1>6. 0 \in T
  BY <1>2, <1>4 DEF IsRound
<1>7. ASSUME NEW n \in 0..(Len(o) - 1), n \in T PROVE n + 1 \in T
  <2>1. n + 1 \in 1..Len(o) /\ (n + 1) - 1 = n /\ n <= Len(o) /\ n + 1 \in Nat
    BY <1>5
  <2>2. up[n] = f[n]
    BY <1>7, <2>1
  <2>3. f[n + 1] = f[n] \o Turns(o[n + 1])
    BY <1>2, <2>1 DEF IsRound
  <2>4. Body(up)[n + 1] = up[(n + 1) - 1] \o Turns(o[n + 1])
    BY <2>1
  <2>5. up[n + 1] = up[n] \o Turns(o[n + 1])
    <3> HIDE DEF Body
    <3> QED BY <1>4, <2>1, <2>4
  <2> QED BY <2>1, <2>2, <2>3, <2>5
<1>8. \A n \in 0..Len(o) : n \in T
  <2> HIDE DEF T
  <2> QED BY <1>5, <1>6, <1>7, InductionUpTo
<1>9. up[Len(o)] = f[Len(o)]
  BY <1>5, <1>8
<1> QED BY <1>1, <1>2, <1>9

\* The positions of a queue in a schedule.
At(s, q) == {i \in DOMAIN s : s[i] = q}

\* A block of turns of p leaves the turns of other queues alone, and p's own
\* turns are the block, when p had none before.
LEMMA BlockFacts ==
  ASSUME NEW S, NEW s \in Seq(S), NEW p \in S, NEW W \in Nat,
         NEW t \in Seq(S), t = [i \in 1..W |-> p]
  PROVE  /\ \A q : q # p => At(s \o t, q) = At(s, q)
         /\ At(s, p) = {} => At(s \o t, p) = (Len(s) + 1)..(Len(s) + W)
<1> DEFINE r == s \o t
<1>1. Len(s) \in Nat /\ Len(t) = W /\ DOMAIN s = 1..Len(s)
  OBVIOUS
<1>2. /\ DOMAIN r = 1..(Len(s) + W)
      /\ \A i \in 1..Len(s) : r[i] = s[i]
      /\ \A i \in (Len(s) + 1)..(Len(s) + W) : r[i] = p
  BY <1>1
<1> HIDE DEF r
<1>3. ASSUME NEW q, q # p PROVE At(r, q) = At(s, q)
  <2>1. ASSUME NEW i \in At(r, q) PROVE i \in At(s, q)
    <3>1. i \in 1..(Len(s) + W) /\ r[i] = q
      BY <1>2 DEF At
    <3>2. i \in 1..Len(s)
      BY <1>1, <1>2, <1>3, <3>1
    <3> QED BY <1>1, <1>2, <3>1, <3>2 DEF At
  <2>2. ASSUME NEW i \in At(s, q) PROVE i \in At(r, q)
    BY <1>1, <1>2 DEF At
  <2> QED BY <2>1, <2>2
<1>4. ASSUME At(s, p) = {} PROVE At(r, p) = (Len(s) + 1)..(Len(s) + W)
  <2>1. ASSUME NEW i \in At(r, p) PROVE i \in (Len(s) + 1)..(Len(s) + W)
    <3>1. i \in 1..(Len(s) + W) /\ r[i] = p
      BY <1>2 DEF At
    <3>2. i \notin 1..Len(s)
      BY <1>1, <1>2, <1>4, <3>1 DEF At
    <3> QED BY <1>1, <3>1, <3>2
  <2>2. ASSUME NEW i \in (Len(s) + 1)..(Len(s) + W) PROVE i \in At(r, p)
    <3>1. i \in 1..(Len(s) + W)
      BY <1>1
    <3> QED BY <1>2, <3>1 DEF At
  <2> QED BY <2>1, <2>2
<1> QED BY <1>3, <1>4 DEF r

\* An order of the queues names each of them once.
LEMMA QueueOrderFacts ==
  ASSUME NEW o \in QueueOrders
  PROVE  /\ o \in Seq(Queues)
         /\ \A q \in Queues : \E i \in 1..Len(o) : o[i] = q
         /\ \A i, k \in 1..Len(o) : o[i] = o[k] => i = k
<1> DEFINE N == Cardinality(Queues)
<1>1. N \in Nat
  BY ServerAssumption, FS_CardinalityType
<1>2. o \in [1..N -> Queues] /\ \A q \in Queues : \E i \in 1..N : o[i] = q
  BY DEF QueueOrders
<1>3. IsFiniteSet(1..N) /\ Cardinality(1..N) = N
  <2> HIDE DEF N
  <2>1. IsFiniteSet(1..N) /\ Cardinality(1..N) = IF 1 > N THEN 0 ELSE N - 1 + 1
    BY <1>1, FS_Interval
  <2> QED BY <1>1, <2>1
<1>4. o \in Injection(1..N, Queues)
  <2>1. o \in Surjection(1..N, Queues)
    BY <1>2 DEF Surjection
  <2>2. Cardinality(1..N) = Cardinality(Queues)
    BY <1>3
  <2> QED BY <1>3, <2>1, <2>2, FS_SurjSameCardinalityImpliesInj
<1>5. \A i, k \in 1..N : o[i] = o[k] => i = k
  BY <1>2, <1>4 DEF Injection, IsInjective
<1>6. o \in Seq(Queues) /\ Len(o) = N
  <2> HIDE DEF N
  <2> QED BY <1>1, <1>2
<1> QED BY <1>2, <1>5, <1>6

\* In the schedule of the first n queues, each of these has its turns in one
\* block, as many as its weight says, and the others have none.
Blocks(o, s, n) ==
  \A q \in Queues :
    /\ (\E i \in 1..n : o[i] = q) => \E a \in Nat : At(s, q) = (a + 1)..(a + Weight[q])
    /\ (~\E i \in 1..n : o[i] = q) => At(s, q) = {}

LEMMA BlocksStep ==
  ASSUME NEW o \in QueueOrders, NEW n \in 0..(Len(o) - 1), NEW s \in Seq(Queues), Blocks(o, s, n)
  PROVE  Blocks(o, s \o Turns(o[n + 1]), n + 1)
<1> DEFINE p == o[n + 1]
           t == Turns(p)
<1>1. /\ o \in Seq(Queues) /\ Len(o) \in Nat /\ n + 1 \in 1..Len(o) /\ n \in Nat
      /\ \A i, k \in 1..Len(o) : o[i] = o[k] => i = k
  BY QueueOrderFacts
<1>2. p \in Queues /\ Weight[p] \in Nat
  BY <1>1, ServerAssumption
<1>3. t \in Seq(Queues) /\ t = [i \in 1..Weight[p] |-> p]
  BY <1>2, TurnsType DEF Turns
<1>4. ~\E i \in 1..n : o[i] = p
  <2> SUFFICES ASSUME NEW i \in 1..n, o[i] = p PROVE FALSE
    OBVIOUS
  <2>1. i \in 1..Len(o) /\ i # n + 1
    BY <1>1
  <2> QED BY <1>1, <2>1
<1>5. At(s, p) = {}
  BY <1>2, <1>4 DEF Blocks
<1> HIDE DEF t
<1>6. /\ \A q : q # p => At(s \o t, q) = At(s, q)
      /\ At(s \o t, p) = (Len(s) + 1)..(Len(s) + Weight[p])
  <2>1. PICK x \in Queues : x = p /\ Weight[x] \in Nat /\ t = [i \in 1..Weight[x] |-> x] /\ At(s, x) = {}
    BY <1>2, <1>3, <1>5
  <2>2. /\ \A q : q # x => At(s \o t, q) = At(s, q)
        /\ At(s \o t, x) = (Len(s) + 1)..(Len(s) + Weight[x])
    BY <1>3, <2>1, BlockFacts
  <2> QED BY <2>1, <2>2
<1> SUFFICES ASSUME NEW q \in Queues
             PROVE  /\ (\E i \in 1..(n + 1) : o[i] = q) =>
                         \E a \in Nat : At(s \o t, q) = (a + 1)..(a + Weight[q])
                    /\ (~\E i \in 1..(n + 1) : o[i] = q) => At(s \o t, q) = {}
  BY DEF Blocks, t
<1>7. CASE q = p
  <2>1. Len(s) \in Nat
    OBVIOUS
  <2>2. \E a \in Nat : At(s \o t, q) = (a + 1)..(a + Weight[q])
    BY <1>6, <1>7, <2>1
  <2>3. \E i \in 1..(n + 1) : o[i] = q
    BY <1>1, <1>7
  <2> QED BY <2>2, <2>3
<1>8. CASE q # p
  <2>1. At(s \o t, q) = At(s, q)
    BY <1>6, <1>8
  <2>2. (\E i \in 1..(n + 1) : o[i] = q) <=> (\E i \in 1..n : o[i] = q)
    BY <1>1, <1>8
  <2> HIDE DEF p
  <2> QED BY <2>1, <2>2 DEF Blocks
<1> QED BY <1>7, <1>8

\* Whatever order the map gives the queues in, each has as many turns as its
\* weight says.
LEMMA ScheduleInit ==
  ASSUME NEW o \in QueueOrders, schedule = buildPollSchedule(o)
  PROVE  schedule \in Seq(Queues) /\ ScheduleMatchesWeights
<1>1. o \in Seq(Queues) /\ Len(o) \in Nat /\ \A q \in Queues : \E i \in 1..Len(o) : o[i] = q
  BY QueueOrderFacts
<1>2. PICK f \in [0..Len(o) -> Seq(Queues)] :
        IsRound(o, f, Len(o)) /\ buildPollSchedule(o) = f[Len(o)]
  BY <1>1, PollScheduleFacts
<1> DEFINE T == {n \in Nat : n <= Len(o) => Blocks(o, f[n], n)}
<1>3. 0 \in T
  <2>1. f[0] = <<>>
    BY <1>2 DEF IsRound
  <2>2. Blocks(o, <<>>, 0)
    BY DEF Blocks, At
  <2> QED BY <2>1, <2>2
<1>4. ASSUME NEW n \in 0..(Len(o) - 1), n \in T PROVE n + 1 \in T
  <2>1. n + 1 \in 1..Len(o) /\ (n + 1) - 1 = n /\ n <= Len(o) /\ n + 1 \in Nat /\ n \in 0..Len(o)
    BY <1>1
  <2>2. Blocks(o, f[n], n) /\ f[n] \in Seq(Queues)
    BY <1>2, <1>4, <2>1
  <2>3. f[n + 1] = f[n] \o Turns(o[n + 1])
    BY <1>2, <2>1 DEF IsRound
  <2>4. Blocks(o, f[n + 1], n + 1)
    BY <2>2, <2>3, BlocksStep
  <2> QED BY <2>1, <2>4
<1>5. Len(o) \in T
  <2> HIDE DEF T
  <2>1. \A n \in 0..Len(o) : n \in T
    BY <1>1, <1>3, <1>4, InductionUpTo
  <2> QED BY <1>1, <2>1
<1>6. schedule \in Seq(Queues) /\ Blocks(o, schedule, Len(o))
  BY <1>1, <1>2, <1>5
<1>7. ASSUME NEW q \in Queues PROVE Cardinality({i \in DOMAIN schedule : schedule[i] = q}) = Weight[q]
  <2>1. PICK a \in Nat : At(schedule, q) = (a + 1)..(a + Weight[q])
    BY <1>1, <1>6 DEF Blocks
  <2>2. Weight[q] \in Nat
    BY ServerAssumption
  <2> DEFINE x == a + 1
             y == a + Weight[q]
  <2>3. Cardinality(x..y) = IF x > y THEN 0 ELSE y - x + 1
    <3>1. x \in Int /\ y \in Int
      BY <2>2
    <3> HIDE DEF x, y
    <3> QED BY <3>1, FS_Interval
  <2>4. Cardinality(x..y) = Weight[q]
    BY <2>2, <2>3
  <2> QED BY <2>1, <2>4 DEF At
<1> QED BY <1>6, <1>7 DEF ScheduleMatchesWeights

-----------------------------------------------------------------------------
(* Queues and phases                                                       *)

LEMMA ElemsType ==
  ASSUME NEW S, NEW s \in Seq(S)
  PROVE  Elems(s) \subseteq S
BY DEF Elems

LEMMA BufferNat == bufferSize \in Nat
<1>1. Cardinality(Workers) \in Nat
  BY ServerAssumption, FS_CardinalityType
<1> QED BY <1>1, ServerAssumption DEF bufferSize

LEMMA MoveFacts ==
  ASSUME BrokerTypeOK, NEW j \in Jobs, NEW from, NEW to \in Phases, NEW n \in Nat,
         Move(j, from, to, n)
  PROVE  /\ BrokerTypeOK'
         /\ phase[j] = from
         /\ phase'[j] = to
         /\ \A k \in Jobs \ {j} : phase'[k] = phase[k]
BY DEF BrokerTypeOK, Move

\* A job that was not ready becomes ready and joins its queue.
LEMMA LPushFacts ==
  ASSUME queue \in [Queues -> Seq(Jobs)], \A q \in Queues : QueueInv(q),
         NEW j \in Jobs, phase[j] # "ready", phase'[j] = "ready",
         \A k \in Jobs \ {j} : phase'[k] = phase[k], LPush(j)
  PROVE  queue' \in [Queues -> Seq(Jobs)] /\ \A q \in Queues : QueueInv(q)'
<1> DEFINE r == QueueOf[j]
           s == queue[r]
           t == Append(s, j)
<1>1. r \in Queues /\ s \in Seq(Jobs) /\ Distinct(s) /\ j \notin Elems(s)
  BY ServerAssumption DEF QueueInv
<1>2. t \in Seq(Jobs) /\ Distinct(t) /\ Elems(t) = Elems(s) \cup {j}
  BY <1>1, AppendFacts
<1>3. queue' = [queue EXCEPT ![r] = t]
  BY DEF LPush
<1> HIDE DEF t
<1>4. ASSUME NEW q \in Queues PROVE QueueInv(q)'
  <2>1. CASE q = r
    <3>1. queue'[q] = t
      BY <1>3, <2>1
    <3>2. \A k \in Elems(s) : k \in Jobs /\ QueueOf[k] = r /\ phase[k] = "ready"
      BY <1>1, ElemsType DEF QueueInv
    <3> QED BY <1>2, <2>1, <3>1, <3>2 DEF QueueInv
  <2>2. CASE q # r
    <3>1. queue'[q] = queue[q]
      BY <1>3, <2>2
    <3>2. \A k \in Elems(queue[q]) : k \in Jobs /\ QueueOf[k] = q /\ phase[k] = "ready"
      BY ElemsType DEF QueueInv
    <3> QED BY <3>1, <3>2 DEF QueueInv
  <2> QED BY <2>1, <2>2
<1> QED BY <1>1, <1>2, <1>3, <1>4

\* A job that is not ready before and after leaves the queues alone.
LEMMA SameQueues ==
  ASSUME queue \in [Queues -> Seq(Jobs)], \A q \in Queues : QueueInv(q), UNCHANGED queue,
         \A k \in Jobs : phase[k] = "ready" => phase'[k] = "ready"
  PROVE  \A q \in Queues : QueueInv(q)'
<1> SUFFICES ASSUME NEW q \in Queues PROVE QueueInv(q)'
  OBVIOUS
<1>1. Elems(queue[q]) \subseteq Jobs
  BY ElemsType
<1> QED BY <1>1 DEF QueueInv

\* The poll of a non-empty schedule names a queue and moves on.
LEMMA PollFacts ==
  ASSUME IInv, dpc = "dequeue"
  PROVE  /\ Polled \in Queues
         /\ (idx + 1) % Len(schedule) \in Nat
<1>1. schedule \in Seq(Queues) /\ Len(schedule) \in Nat /\ Len(schedule) > 0 /\ idx \in Nat
  BY DEF IInv, TypeOK
<1>2. idx % Len(schedule) \in 0..(Len(schedule) - 1) /\ (idx + 1) % Len(schedule) \in Nat
  BY <1>1
<1>3. (idx % Len(schedule)) + 1 \in 1..Len(schedule)
  BY <1>1, <1>2
<1> QED BY <1>1, <1>2, <1>3 DEF Polled

-----------------------------------------------------------------------------
(* The invariant                                                           *)

LEMMA InitIInv == Init => IInv
<1> SUFFICES ASSUME Init PROVE IInv
  OBVIOUS
<1> USE DEF Init
<1>1. schedule \in Seq(Queues) /\ ScheduleMatchesWeights
  BY ScheduleInit
<1>2. TypeOK
  BY <1>1, BufferNat, ServerAssumption DEF TypeOK, BrokerInit, BrokerTypeOK, Phases
<1>3. ASSUME NEW q \in Queues PROVE QueueInv(q)
  BY DEF QueueInv, Distinct, Elems
<1>4. HandsInv
  BY DEF HandsInv, Distinct, Elems
<1>5. ASSUME NEW j \in Jobs PROVE JobInv(j)
  BY ServerAssumption DEF JobInv, InHand, Elems, BrokerInit
<1>6. RunInv
  BY DEF RunInv
<1> QED BY <1>1, <1>2, <1>3, <1>4, <1>5, <1>6 DEF IInv

\* Steps that hand no job over.
LEMMA QuietIInv ==
  ASSUME IInv, TypeOK', RunInv', cancelled => cancelled',
         UNCHANGED <<brokerVars, queue, schedule, taken, jobCh, wjob, received, abandoned>>,
         dpc' \in {"get", "submit"} <=> dpc \in {"get", "submit"},
         dpc' = "dequeue" => schedule # <<>>,
         \A w \in Workers : wpc'[w] = "process" <=> wpc[w] = "process"
  PROVE  IInv'
<1> USE DEF brokerVars
<1>1. ScheduleMatchesWeights' /\ (dpc' = "dequeue" => schedule' # <<>>)
  BY DEF IInv, ScheduleMatchesWeights
<1>2. \A q \in Queues : QueueInv(q)'
  BY DEF IInv, QueueInv
<1>3. HandsInv'
  BY DEF IInv, HandsInv
<1>4. \A j \in Jobs : JobInv(j)'
  BY DEF IInv, JobInv, InHand
<1> QED BY <1>1, <1>2, <1>3, <1>4 DEF IInv

LEMMA BecomeDueIInv ==
  ASSUME IInv, NEW j \in Jobs, BecomeDue(j)
  PROVE  IInv'
<1> USE DEF BecomeDue, brokerVars, dispatcherVars, poolVars, schedulerVars, historyVars
<1>1. TypeOK'
  BY DEF IInv, TypeOK, BrokerTypeOK
<1>2. RunInv' /\ (cancelled => cancelled')
  BY DEF IInv, RunInv, cancelled
<1> QED BY <1>1, <1>2, QuietIInv DEF IInv

LEMMA CancelIInv ==
  ASSUME IInv, Cancel
  PROVE  IInv'
<1> USE DEF Cancel, brokerVars, dispatcherVars, poolVars, schedulerVars, historyVars
<1>1. TypeOK'
  BY DEF IInv, TypeOK, BrokerTypeOK
<1>2. RunInv' /\ (cancelled => cancelled')
  BY DEF IInv, RunInv, cancelled
<1> QED BY <1>1, <1>2, QuietIInv DEF IInv

\* The dispatcher's steps that have no job: they happen while Run has not yet
\* seen it stopped.
LEMMA DispatcherQuietIInv ==
  ASSUME IInv, DispatchTop \/ DispatchEmpty \/ DispatchError \/ DispatchGet \/ DispatchWake
  PROVE  IInv'
<1> USE DEF brokerVars, dispatcherVars, poolVars, schedulerVars, historyVars
<1>1. /\ UNCHANGED <<brokerVars, queue, due, ctx, schedule, taken, poolVars, schedulerVars, rpc,
                     received, abandoned>>
      /\ dpc \in {"top", "dequeue", "get", "sleep"}
      /\ dpc' \in {"stopped", "dequeue", "sleep", "submit", "top"}
      /\ dpc' = "submit" <=> dpc = "get"
      /\ dpc' = "dequeue" => schedule # <<>>
  BY DEF DispatchTop, DispatchEmpty, DispatchError, DispatchGet, DispatchWake
<1>2. idx' \in Nat
  <2>1. CASE dpc = "dequeue"
    BY <2>1, PollFacts
    DEF DispatchTop, DispatchEmpty, DispatchError, DispatchGet, DispatchWake, NextIdx
  <2>2. CASE dpc # "dequeue"
    BY <2>2 DEF DispatchTop, DispatchEmpty, DispatchError, DispatchGet, DispatchWake, IInv, TypeOK
  <2> QED BY <2>1, <2>2
<1>3. errors' \in 0..MaxErrors
  <2>1. errors' = errors \/ Error
    BY DEF DispatchTop, DispatchEmpty, DispatchError, DispatchGet, DispatchWake
  <2>2. errors \in 0..MaxErrors
    BY DEF IInv, TypeOK
  <2> QED BY <2>1, <2>2, ServerAssumption DEF Error
<1>4. TypeOK'
  BY <1>1, <1>2, <1>3 DEF IInv, TypeOK, BrokerTypeOK, bufferSize
<1>5. RunInv' /\ (cancelled => cancelled')
  BY <1>1 DEF IInv, RunInv, cancelled
<1> QED BY <1>1, <1>4, <1>5, QuietIInv

LEMMA WorkerExitIInv ==
  ASSUME IInv, NEW w \in Workers, WorkerExit(w)
  PROVE  IInv'
<1> USE DEF WorkerExit, brokerVars, dispatcherVars, schedulerVars, historyVars
<1>1. TypeOK'
  BY DEF IInv, TypeOK, BrokerTypeOK, bufferSize
<1>2. RunInv' /\ (cancelled => cancelled')
  BY DEF IInv, TypeOK, RunInv, cancelled
<1>3. \A v \in Workers : wpc'[v] = "process" <=> wpc[v] = "process"
  BY DEF IInv, TypeOK
<1> QED BY <1>1, <1>2, <1>3, QuietIInv DEF IInv

LEMMA SchedulerQuietIInv ==
  ASSUME IInv, SchedulerTick \/ SchedulerDone \/ SchedulerError \/ SchedulerStop
  PROVE  IInv'
<1> USE DEF brokerVars, dispatcherVars, poolVars, historyVars
<1>1. /\ UNCHANGED <<brokerVars, queue, due, ctx, dispatcherVars, poolVars, rpc, received, abandoned>>
      /\ spc \in {"wait", "promote"} /\ spc' \in {"promote", "wait", "stopped"}
      /\ ids' \in {due, ids, {}}
  BY DEF SchedulerTick, SchedulerDone, SchedulerError, SchedulerStop
<1>2. errors' \in 0..MaxErrors
  BY ServerAssumption
  DEF SchedulerTick, SchedulerDone, SchedulerError, SchedulerStop, Error, IInv, TypeOK
<1>3. TypeOK'
  BY <1>1, <1>2 DEF IInv, TypeOK, BrokerTypeOK, bufferSize
<1>4. RunInv' /\ (cancelled => cancelled')
  BY <1>1 DEF IInv, RunInv, cancelled
<1> QED BY <1>1, <1>3, <1>4, QuietIInv DEF IInv

LEMMA RunIInv ==
  ASSUME IInv, RunNext
  PROVE  IInv'
<1> USE DEF RunNext, RunStep, brokerVars, dispatcherVars, poolVars, schedulerVars, historyVars
<1>1. TypeOK'
  BY DEF IInv, TypeOK, BrokerTypeOK, bufferSize
<1>2. RunInv' /\ (cancelled => cancelled')
  BY DEF IInv, TypeOK, RunInv, cancelled
<1> QED BY <1>1, <1>2, QuietIInv DEF IInv

\* A job starts its life outside the server.
LEMMA ClientEnqueueIInv ==
  ASSUME IInv, NEW j \in Jobs, NEW to \in {"later", "ready"}, ClientEnqueue(j, to)
  PROVE  IInv'
<1> USE DEF dispatcherVars, poolVars, schedulerVars, historyVars
<1>1. /\ Move(j, "unborn", to, 0) /\ BrokerTypeOK /\ to \in Phases
      /\ to = "ready" => LPush(j)
      /\ to = "later" => UNCHANGED queue
      /\ UNCHANGED <<due, ctx, dispatcherVars, poolVars, schedulerVars, rpc, historyVars>>
  BY DEF ClientEnqueue, Enqueue, IInv, TypeOK, Phases
<1>2. /\ BrokerTypeOK' /\ phase[j] = "unborn" /\ phase'[j] = to
      /\ \A k \in Jobs \ {j} : phase'[k] = phase[k]
  BY <1>1, MoveFacts
<1>3. queue' \in [Queues -> Seq(Jobs)] /\ \A q \in Queues : QueueInv(q)'
  <2>1. CASE to = "ready"
    BY <1>1, <1>2, <2>1, LPushFacts DEF IInv, TypeOK
  <2>2. CASE to = "later"
    BY <1>1, <1>2, <2>2, SameQueues DEF IInv, TypeOK
  <2> QED BY <2>1, <2>2
<1>4. TypeOK' /\ ScheduleMatchesWeights' /\ (dpc' = "dequeue" => schedule' # <<>>)
  <2>1. jobCh' \in Seq(Jobs) /\ Len(jobCh') <= bufferSize'
    BY <1>1 DEF IInv, TypeOK, bufferSize
  <2>2. TypeOK'
    BY <1>1, <1>2, <1>3, <2>1 DEF IInv, TypeOK
  <2>3. ScheduleMatchesWeights' /\ (dpc' = "dequeue" => schedule' # <<>>)
    BY <1>1 DEF IInv, ScheduleMatchesWeights
  <2> QED BY <2>2, <2>3
<1>5. HandsInv' /\ RunInv'
  BY <1>1 DEF IInv, HandsInv, RunInv, cancelled
<1>6. ASSUME NEW k \in Jobs PROVE JobInv(k)'
  BY <1>1, <1>2 DEF IInv, JobInv, InHand, cancelled
<1> QED BY <1>3, <1>4, <1>5, <1>6 DEF IInv

LEMMA SchedulerPromoteIInv ==
  ASSUME IInv, NEW j \in Jobs, SchedulerPromote(j)
  PROVE  IInv'
<1> USE DEF dispatcherVars, poolVars, historyVars
<1>1. /\ Move(j, "later", "ready", used[j]) /\ BrokerTypeOK /\ used[j] \in Nat /\ "ready" \in Phases
      /\ LPush(j) /\ due' = due \ {j} /\ ids' = ids \ {j}
      /\ UNCHANGED <<ctx, dispatcherVars, poolVars, spc, rpc, historyVars>>
  BY DEF SchedulerPromote, PromoteDueJob, IInv, TypeOK, BrokerTypeOK, Phases
<1>2. /\ BrokerTypeOK' /\ phase[j] = "later" /\ phase'[j] = "ready"
      /\ \A k \in Jobs \ {j} : phase'[k] = phase[k]
  BY <1>1, MoveFacts
<1>3. queue' \in [Queues -> Seq(Jobs)] /\ \A q \in Queues : QueueInv(q)'
  BY <1>1, <1>2, LPushFacts DEF IInv, TypeOK
<1>4. TypeOK' /\ ScheduleMatchesWeights' /\ (dpc' = "dequeue" => schedule' # <<>>)
  <2>1. jobCh' \in Seq(Jobs) /\ Len(jobCh') <= bufferSize'
    BY <1>1 DEF IInv, TypeOK, bufferSize
  <2>2. TypeOK'
    BY <1>1, <1>2, <1>3, <2>1 DEF IInv, TypeOK
  <2>3. ScheduleMatchesWeights' /\ (dpc' = "dequeue" => schedule' # <<>>)
    BY <1>1 DEF IInv, ScheduleMatchesWeights
  <2> QED BY <2>2, <2>3
<1>5. HandsInv' /\ RunInv'
  BY <1>1 DEF IInv, HandsInv, RunInv, cancelled
<1>6. ASSUME NEW k \in Jobs PROVE JobInv(k)'
  BY <1>1, <1>2 DEF IInv, JobInv, InHand, cancelled
<1> QED BY <1>3, <1>4, <1>5, <1>6 DEF IInv

\* Dequeue hands a ready job, which nobody has, to the dispatcher.
LEMMA DispatchPopIInv ==
  ASSUME IInv, DispatchPop
  PROVE  IInv'
<1> USE DEF poolVars, schedulerVars
<1>1. dpc = "dequeue" /\ Polled \in Queues /\ (idx + 1) % Len(schedule) \in Nat
  BY PollFacts DEF DispatchPop
<1>2. PICK r \in Queues : r = Polled
  BY <1>1
<1>3. /\ queue[r] \in Seq(Jobs) /\ queue[r] # <<>> /\ Distinct(queue[r])
      /\ \A k \in Elems(queue[r]) : QueueOf[k] = r /\ phase[k] = "ready"
  BY <1>2 DEF DispatchPop, IInv, TypeOK, QueueInv
<1>4. PICK j \in Jobs : j = Head(queue[r])
  BY <1>3
<1>5. /\ Tail(queue[r]) \in Seq(Jobs) /\ j \in Elems(queue[r]) /\ Distinct(Tail(queue[r]))
      /\ Elems(Tail(queue[r])) = Elems(queue[r]) \ {j}
  BY <1>3, <1>4, TailFacts
<1>6. /\ Move(j, "ready", "active", used[j]) /\ BrokerTypeOK /\ used[j] \in Nat /\ "active" \in Phases
      /\ queue' = [queue EXCEPT ![r] = Tail(queue[r])]
      /\ taken' = j /\ received' = received \ {j}
      /\ idx' = (idx + 1) % Len(schedule) /\ dpc' = "get"
      /\ UNCHANGED <<due, ctx, schedule, poolVars, schedulerVars, rpc, errors, abandoned>>
  BY <1>2, <1>4 DEF DispatchPop, Dequeue, NextIdx, IInv, TypeOK, BrokerTypeOK, Phases
<1>7. /\ BrokerTypeOK' /\ phase[j] = "ready" /\ phase'[j] = "active"
      /\ \A k \in Jobs \ {j} : phase'[k] = phase[k]
  BY <1>6, MoveFacts
<1>8. queue' \in [Queues -> Seq(Jobs)]
  BY <1>5, <1>6 DEF IInv, TypeOK
<1>9. TypeOK' /\ ScheduleMatchesWeights' /\ (dpc' = "dequeue" => schedule' # <<>>)
  <2>1. jobCh' \in Seq(Jobs) /\ Len(jobCh') <= bufferSize'
    BY <1>6 DEF IInv, TypeOK, bufferSize
  <2>2. TypeOK'
    BY <1>1, <1>6, <1>7, <1>8, <2>1 DEF IInv, TypeOK
  <2>3. ScheduleMatchesWeights' /\ (dpc' = "dequeue" => schedule' # <<>>)
    BY <1>6 DEF IInv, ScheduleMatchesWeights
  <2> QED BY <2>2, <2>3
<1>10. ASSUME NEW q \in Queues PROVE QueueInv(q)'
  <2>1. CASE q = r
    <3>1. queue'[q] = Tail(queue[r])
      BY <1>6, <2>1 DEF IInv, TypeOK
    <3>2. Elems(queue[r]) \subseteq Jobs
      BY <1>3, ElemsType
    <3> QED BY <1>3, <1>5, <1>7, <2>1, <3>1, <3>2 DEF QueueInv
  <2>2. CASE q # r
    <3>1. queue'[q] = queue[q] /\ Elems(queue[q]) \subseteq Jobs
      BY <1>6, <2>2, ElemsType DEF IInv, TypeOK
    <3>2. j \notin Elems(queue[q])
      BY <1>3, <1>5, <2>2 DEF IInv, QueueInv
    <3> QED BY <1>7, <3>1, <3>2 DEF IInv, QueueInv
  <2> QED BY <2>1, <2>2
<1>11. ~InHand(j) /\ j # NoJob /\ taken = NoJob
  BY <1>1, <1>7, ServerAssumption DEF IInv, JobInv, HandsInv
<1>12. HandsInv'
  BY <1>6, <1>11 DEF IInv, HandsInv, InHand
<1>13. ASSUME NEW k \in Jobs PROVE JobInv(k)'
  <2>1. CASE k = j
    <3>1. j \notin abandoned
      BY <1>7 DEF IInv, JobInv
    <3> QED BY <1>6, <1>7, <2>1, <3>1 DEF JobInv, InHand
  <2>2. CASE k # j
    <3>1. InHand(k)' <=> InHand(k)
      BY <1>6, <1>11, <2>2, ServerAssumption DEF InHand
    <3> QED BY <1>6, <1>7, <2>2, <3>1 DEF IInv, JobInv, cancelled
  <2> QED BY <2>1, <2>2
<1>14. RunInv'
  BY <1>1, <1>6 DEF IInv, RunInv, cancelled
<1> QED BY <1>9, <1>10, <1>12, <1>13, <1>14 DEF IInv

\* Dequeue's GET fails: the job is left behind, in flight.
LEMMA DispatchGetErrorIInv ==
  ASSUME IInv, DispatchGetError
  PROVE  IInv'
<1> USE DEF brokerVars, poolVars, schedulerVars
<1>1. PICK j \in Jobs : j = taken
  BY DEF DispatchGetError, IInv, TypeOK, HandsInv
<1>2. /\ taken' = NoJob /\ dpc = "get" /\ dpc' \in {"stopped", "sleep"}
      /\ abandoned' \in {abandoned, abandoned \cup {j}}
      /\ ~cancelled => abandoned' = abandoned \cup {j}
      /\ UNCHANGED <<brokerVars, queue, due, ctx, schedule, idx, poolVars, schedulerVars, rpc, received>>
  BY <1>1 DEF DispatchGetError
<1>3. errors' \in 0..MaxErrors
  BY ServerAssumption DEF DispatchGetError, Error, IInv, TypeOK
<1>4. TypeOK' /\ ScheduleMatchesWeights' /\ (dpc' = "dequeue" => schedule' # <<>>)
  BY <1>2, <1>3 DEF IInv, TypeOK, BrokerTypeOK, bufferSize, ScheduleMatchesWeights
<1>5. \A q \in Queues : QueueInv(q)'
  BY <1>2 DEF IInv, QueueInv
<1>6. NoJob \notin Elems(jobCh)
  BY ElemsType, ServerAssumption DEF IInv, TypeOK
<1>7. HandsInv'
  BY <1>2, <1>6 DEF IInv, HandsInv
<1>8. phase[j] = "active" /\ j \notin Elems(jobCh) /\ \A w \in Workers : wjob[w] # j
  BY <1>1, ServerAssumption DEF IInv, JobInv, InHand, HandsInv
<1>9. ASSUME NEW k \in Jobs PROVE JobInv(k)'
  <2>1. CASE k = j
    BY <1>1, <1>2, <1>8, <2>1, ServerAssumption DEF IInv, JobInv, InHand, cancelled
  <2>2. CASE k # j
    <3>1. InHand(k)' <=> InHand(k)
      BY <1>1, <1>2, <2>2, ServerAssumption DEF InHand
    <3> QED BY <1>2, <2>2, <3>1 DEF IInv, JobInv, cancelled
  <2> QED BY <2>1, <2>2
<1>10. RunInv'
  BY <1>2 DEF IInv, RunInv, cancelled
<1> QED BY <1>4, <1>5, <1>7, <1>9, <1>10 DEF IInv

\* Submit hands the dispatcher's job to the channel.
LEMMA SubmitSendIInv ==
  ASSUME IInv, SubmitSend
  PROVE  IInv'
<1> USE DEF brokerVars, schedulerVars, historyVars
<1>1. PICK j \in Jobs : j = taken
  BY DEF SubmitSend, IInv, TypeOK, HandsInv
<1>2. /\ taken' = NoJob /\ dpc = "submit" /\ dpc' = "top"
      /\ jobCh' = Append(jobCh, j) /\ Len(jobCh) < bufferSize
      /\ UNCHANGED <<brokerVars, queue, due, ctx, schedule, idx, wpc, wjob, schedulerVars, rpc, historyVars>>
  BY <1>1 DEF SubmitSend
<1>3. jobCh \in Seq(Jobs) /\ j \notin Elems(jobCh) /\ Distinct(jobCh) /\ j # NoJob
  BY <1>1, ServerAssumption DEF IInv, TypeOK, HandsInv
<1>4. /\ jobCh' \in Seq(Jobs) /\ Distinct(jobCh') /\ Elems(jobCh') = Elems(jobCh) \cup {j}
  BY <1>2, <1>3, AppendFacts
<1>5. Len(jobCh') <= bufferSize
  BY <1>2, <1>3, BufferNat
<1>6. TypeOK' /\ ScheduleMatchesWeights' /\ (dpc' = "dequeue" => schedule' # <<>>)
  BY <1>2, <1>4, <1>5 DEF IInv, TypeOK, BrokerTypeOK, bufferSize, ScheduleMatchesWeights
<1>7. \A q \in Queues : QueueInv(q)'
  BY <1>2 DEF IInv, QueueInv
<1>8. NoJob \notin Elems(jobCh)
  BY <1>3, ElemsType, ServerAssumption
<1>9. HandsInv'
  <2>1. taken' \notin Elems(jobCh')
    BY <1>2, <1>3, <1>4, <1>8
  <2>2. \A w \in Workers : wjob'[w] \notin Elems(jobCh')
    BY <1>1, <1>2, <1>3, <1>4 DEF IInv, HandsInv
  <2>3. (taken # NoJob <=> dpc \in {"get", "submit"})'
    BY <1>2
  <2>4. \A w \in Workers :
          /\ wjob'[w] # NoJob <=> wpc'[w] = "process"
          /\ wjob'[w] # NoJob => wjob'[w] # taken'
          /\ \A v \in Workers : wjob'[v] = wjob'[w] /\ wjob'[w] # NoJob => v = w
    BY <1>2 DEF IInv, HandsInv
  <2> QED BY <1>4, <2>1, <2>2, <2>3, <2>4 DEF HandsInv
<1>10. ASSUME NEW k \in Jobs PROVE JobInv(k)'
  <2>1. InHand(k)' <=> InHand(k)
    BY <1>1, <1>2, <1>4, ServerAssumption DEF InHand
  <2> QED BY <1>2, <2>1 DEF IInv, JobInv, cancelled
<1>11. RunInv'
  BY <1>2 DEF IInv, RunInv, cancelled
<1> QED BY <1>6, <1>7, <1>9, <1>10, <1>11 DEF IInv

\* Submit gives up because ctx ended: the job stays in flight.
LEMMA SubmitCancelledIInv ==
  ASSUME IInv, SubmitCancelled
  PROVE  IInv'
<1> USE DEF SubmitCancelled, brokerVars, poolVars, schedulerVars, historyVars
<1>1. TypeOK' /\ ScheduleMatchesWeights' /\ (dpc' = "dequeue" => schedule' # <<>>)
  BY DEF IInv, TypeOK, BrokerTypeOK, bufferSize, ScheduleMatchesWeights
<1>2. \A q \in Queues : QueueInv(q)'
  BY DEF IInv, QueueInv
<1>3. NoJob \notin Elems(jobCh)
  BY ElemsType, ServerAssumption DEF IInv, TypeOK
<1>4. HandsInv'
  BY <1>3 DEF IInv, HandsInv
<1>5. ASSUME NEW k \in Jobs PROVE JobInv(k)'
  BY ServerAssumption DEF IInv, JobInv, InHand, cancelled
<1>6. RunInv'
  BY DEF IInv, RunInv, cancelled
<1> QED BY <1>1, <1>2, <1>4, <1>5, <1>6 DEF IInv

\* A worker takes the first job of the channel.
LEMMA WorkerReceiveIInv ==
  ASSUME IInv, NEW w \in Workers, WorkerReceive(w)
  PROVE  IInv'
<1> USE DEF brokerVars, dispatcherVars, schedulerVars
<1>1. jobCh \in Seq(Jobs) /\ jobCh # <<>> /\ Distinct(jobCh)
  BY DEF WorkerReceive, IInv, TypeOK, HandsInv
<1>2. PICK j \in Jobs : j = Head(jobCh)
  BY <1>1
<1>3. /\ Tail(jobCh) \in Seq(Jobs) /\ j \in Elems(jobCh) /\ Distinct(Tail(jobCh))
      /\ Elems(Tail(jobCh)) = Elems(jobCh) \ {j}
      /\ Len(Tail(jobCh)) = Len(jobCh) - 1 /\ Len(jobCh) \in Nat
  BY <1>1, <1>2, TailFacts
<1>4. /\ wpc[w] = "select" /\ jobCh' = Tail(jobCh)
      /\ wpc' = [wpc EXCEPT ![w] = "process"]
      /\ wjob' = [wjob EXCEPT ![w] = j]
      /\ received' = received \cup {j}
      /\ UNCHANGED <<brokerVars, queue, due, ctx, dispatcherVars, schedulerVars, rpc, errors, abandoned>>
  BY <1>2 DEF WorkerReceive
<1>5. /\ wpc'[w] = "process" /\ wjob'[w] = j
      /\ \A v \in Workers \ {w} : wpc'[v] = wpc[v] /\ wjob'[v] = wjob[v]
      /\ wjob[w] = NoJob /\ j # NoJob
  BY <1>4, ServerAssumption DEF IInv, TypeOK, HandsInv
<1>6. TypeOK'
  <2>1. Len(jobCh') <= bufferSize
    BY <1>3, <1>4, BufferNat DEF IInv, TypeOK
  <2> QED BY <1>3, <1>4, <2>1 DEF IInv, TypeOK, BrokerTypeOK, bufferSize
<1>7. ScheduleMatchesWeights' /\ (dpc' = "dequeue" => schedule' # <<>>)
  BY <1>4 DEF IInv, ScheduleMatchesWeights
<1>8. \A q \in Queues : QueueInv(q)'
  BY <1>4 DEF IInv, QueueInv
<1>9. HandsInv'
  <2>1. \A v \in Workers : wjob[v] # j
    BY <1>3 DEF IInv, HandsInv
  <2>2. taken # j
    BY <1>3 DEF IInv, HandsInv
  <2>3. \A v \in Workers : wjob'[v] \notin Elems(jobCh')
    BY <1>3, <1>4, <1>5 DEF IInv, HandsInv
  <2>4. \A v \in Workers : wjob'[v] # NoJob => wjob'[v] # taken'
    BY <1>4, <1>5, <2>2 DEF IInv, HandsInv
  <2>5. \A v, u \in Workers : wjob'[u] = wjob'[v] /\ wjob'[v] # NoJob => u = v
    BY <1>5, <2>1 DEF IInv, HandsInv
  <2>6. \A v \in Workers : wjob'[v] # NoJob <=> wpc'[v] = "process"
    BY <1>5 DEF IInv, HandsInv
  <2>7. taken' \notin Elems(jobCh') /\ (taken' # NoJob <=> dpc' \in {"get", "submit"})
    BY <1>3, <1>4 DEF IInv, HandsInv
  <2> QED BY <1>3, <1>4, <2>3, <2>4, <2>5, <2>6, <2>7 DEF HandsInv
<1>10. ASSUME NEW k \in Jobs PROVE JobInv(k)'
  <2>1. CASE k = j
    <3>1. InHand(j) /\ InHand(j)' /\ \E v \in Workers : wjob'[v] = j
      BY <1>3, <1>5 DEF InHand
    <3> QED BY <1>4, <2>1, <3>1 DEF IInv, JobInv
  <2>2. CASE k # j
    <3>1. (\E v \in Workers : wjob'[v] = k) <=> (\E v \in Workers : wjob[v] = k)
      BY <1>5, <2>2, ServerAssumption
    <3>2. InHand(k)' <=> InHand(k)
      BY <1>3, <1>4, <2>2, <3>1 DEF InHand
    <3> QED BY <1>4, <2>2, <3>1, <3>2 DEF IInv, JobInv, cancelled
  <2> QED BY <2>1, <2>2
<1>11. RunInv'
  BY <1>4, <1>5 DEF IInv, RunInv, cancelled
<1> QED BY <1>6, <1>7, <1>8, <1>9, <1>10, <1>11 DEF IInv

\* A worker is rid of its job.
LEMMA FinishFacts ==
  ASSUME IInv, NEW w \in Workers, NEW j \in Jobs, j = wjob[w], wpc[w] = "process", Finish(w),
         UNCHANGED <<dispatcherVars, ctx, rpc, spc>>
  PROVE  /\ HandsInv'
         /\ RunInv'
         /\ wpc' \in [Workers -> {"select", "process", "exited"}]
         /\ wjob' \in [Workers -> Jobs \cup {NoJob}]
         /\ ~InHand(j)'
         /\ \A k \in Jobs \ {j} :
              /\ InHand(k)' <=> InHand(k)
              /\ (\E v \in Workers : wjob[v] = k) => \E v \in Workers : wjob'[v] = k
<1> USE DEF dispatcherVars
<1>1. /\ wpc'[w] = "select" /\ wjob'[w] = NoJob /\ jobCh' = jobCh /\ j # NoJob
      /\ \A v \in Workers \ {w} : wpc'[v] = wpc[v] /\ wjob'[v] = wjob[v]
      /\ wpc' \in [Workers -> {"select", "process", "exited"}]
      /\ wjob' \in [Workers -> Jobs \cup {NoJob}]
  BY ServerAssumption DEF Finish, IInv, TypeOK
<1>2. NoJob \notin Elems(jobCh)
  BY ElemsType, ServerAssumption DEF IInv, TypeOK
<1>3. HandsInv'
  <2>1. \A v \in Workers : wjob'[v] \notin Elems(jobCh')
    BY <1>1, <1>2 DEF IInv, HandsInv
  <2>2. \A v \in Workers : wjob'[v] # NoJob => wjob'[v] # taken'
    BY <1>1 DEF IInv, HandsInv
  <2>3. \A v, u \in Workers : wjob'[u] = wjob'[v] /\ wjob'[v] # NoJob => u = v
    BY <1>1 DEF IInv, HandsInv
  <2>4. \A v \in Workers : wjob'[v] # NoJob <=> wpc'[v] = "process"
    BY <1>1 DEF IInv, HandsInv
  <2>5. /\ taken' \notin Elems(jobCh') /\ (taken' # NoJob <=> dpc' \in {"get", "submit"})
        /\ Distinct(jobCh')
    BY <1>1 DEF IInv, HandsInv
  <2> QED BY <2>1, <2>2, <2>3, <2>4, <2>5 DEF HandsInv
<1>4. RunInv'
  BY <1>1 DEF IInv, RunInv, cancelled
<1>5. j # taken /\ j \notin Elems(jobCh) /\ \A v \in Workers \ {w} : wjob[v] # j
  BY <1>1 DEF IInv, HandsInv
<1>6. ~InHand(j)'
  BY <1>1, <1>5 DEF InHand
<1>7. ASSUME NEW k \in Jobs \ {j}
      PROVE  /\ InHand(k)' <=> InHand(k)
             /\ (\E v \in Workers : wjob[v] = k) => \E v \in Workers : wjob'[v] = k
  <2>1. (\E v \in Workers : wjob'[v] = k) <=> (\E v \in Workers : wjob[v] = k)
    BY <1>1, ServerAssumption
  <2> QED BY <1>1, <2>1 DEF InHand
<1> QED BY <1>1, <1>3, <1>4, <1>6, <1>7

\* An outcome takes the job out of flight.
LEMMA OutcomeFacts ==
  ASSUME BrokerTypeOK, NEW j \in Jobs, RecordOutcome(j)
  PROVE  /\ BrokerTypeOK'
         /\ phase[j] = "active"
         /\ phase'[j] \notin {"active", "ready"}
         /\ \A k \in Jobs \ {j} : phase'[k] = phase[k]
<1>1. used[j] \in Nat /\ used[j] + 1 \in Nat
  BY DEF BrokerTypeOK
<1>2. PICK n \in Nat, to \in {"done", "later", "dead"} : Move(j, "active", to, n)
  BY <1>1 DEF RecordOutcome, Acknowledge, Requeue, MoveToDeadLetter
<1>3. to \in Phases
  BY DEF Phases
<1> QED BY <1>2, <1>3, MoveFacts

LEMMA WorkerFinishIInv ==
  ASSUME IInv, NEW w \in Workers, WorkerFinish(w)
  PROVE  IInv'
<1> USE DEF dispatcherVars, schedulerVars, historyVars
<1>1. /\ wpc[w] = "process" /\ Finish(w) /\ jobCh' = jobCh
      /\ UNCHANGED <<queue, due, ctx, dispatcherVars, schedulerVars, rpc, historyVars>>
  BY DEF WorkerFinish, Finish
<1>2. PICK j \in Jobs : j = wjob[w]
  BY <1>1 DEF IInv, TypeOK, HandsInv
<1>3. /\ BrokerTypeOK' /\ phase[j] = "active" /\ phase'[j] \notin {"active", "ready"}
      /\ \A k \in Jobs \ {j} : phase'[k] = phase[k]
  BY <1>2, OutcomeFacts DEF WorkerFinish, IInv, TypeOK
<1>4. /\ HandsInv' /\ RunInv' /\ ~InHand(j)'
      /\ wpc' \in [Workers -> {"select", "process", "exited"}]
      /\ wjob' \in [Workers -> Jobs \cup {NoJob}]
      /\ \A k \in Jobs \ {j} :
           /\ InHand(k)' <=> InHand(k)
           /\ (\E v \in Workers : wjob[v] = k) => \E v \in Workers : wjob'[v] = k
  BY <1>1, <1>2, FinishFacts
<1>5. TypeOK' /\ ScheduleMatchesWeights' /\ (dpc' = "dequeue" => schedule' # <<>>)
  <2>1. jobCh' \in Seq(Jobs) /\ Len(jobCh') <= bufferSize'
    BY <1>1 DEF IInv, TypeOK, bufferSize
  <2>2. TypeOK'
    BY <1>1, <1>3, <1>4, <2>1 DEF IInv, TypeOK
  <2>3. ScheduleMatchesWeights' /\ (dpc' = "dequeue" => schedule' # <<>>)
    BY <1>1 DEF IInv, ScheduleMatchesWeights
  <2> QED BY <2>2, <2>3
<1>6. \A q \in Queues : QueueInv(q)'
  BY <1>1, <1>3, SameQueues DEF IInv, TypeOK
<1>7. ASSUME NEW k \in Jobs PROVE JobInv(k)'
  <2>1. CASE k = j
    <3>1. j \notin abandoned
      BY <1>2 DEF IInv, JobInv, InHand
    <3> QED BY <1>1, <1>3, <1>4, <2>1, <3>1 DEF JobInv
  <2>2. CASE k # j
    BY <1>1, <1>3, <1>4, <2>2 DEF IInv, JobInv, cancelled
  <2> QED BY <2>1, <2>2
<1> QED BY <1>4, <1>5, <1>6, <1>7 DEF IInv

\* The outcome is lost: the job is left behind, in flight.
LEMMA WorkerErrorIInv ==
  ASSUME IInv, NEW w \in Workers, WorkerError(w)
  PROVE  IInv'
<1> USE DEF brokerVars, dispatcherVars, schedulerVars
<1>1. PICK j \in Jobs : j = wjob[w]
  BY DEF WorkerError, IInv, TypeOK, HandsInv
<1>2. /\ wpc[w] = "process" /\ Finish(w) /\ jobCh' = jobCh /\ abandoned' = abandoned \cup {j}
      /\ UNCHANGED <<brokerVars, queue, due, ctx, dispatcherVars, schedulerVars, rpc, received>>
  BY <1>1 DEF WorkerError, Finish
<1>3. errors' \in 0..MaxErrors
  BY ServerAssumption DEF WorkerError, Error, IInv, TypeOK
<1>4. /\ HandsInv' /\ RunInv' /\ ~InHand(j)'
      /\ wpc' \in [Workers -> {"select", "process", "exited"}]
      /\ wjob' \in [Workers -> Jobs \cup {NoJob}]
      /\ \A k \in Jobs \ {j} :
           /\ InHand(k)' <=> InHand(k)
           /\ (\E v \in Workers : wjob[v] = k) => \E v \in Workers : wjob'[v] = k
  BY <1>1, <1>2, FinishFacts
<1>5. TypeOK' /\ ScheduleMatchesWeights' /\ (dpc' = "dequeue" => schedule' # <<>>)
  BY <1>2, <1>3, <1>4 DEF IInv, TypeOK, BrokerTypeOK, bufferSize, ScheduleMatchesWeights
<1>6. \A q \in Queues : QueueInv(q)'
  BY <1>2 DEF IInv, QueueInv
<1>7. ASSUME NEW k \in Jobs PROVE JobInv(k)'
  <2>1. CASE k = j
    <3>1. phase[j] = "active"
      BY <1>1 DEF IInv, JobInv, InHand
    <3> QED BY <1>2, <1>4, <2>1, <3>1 DEF JobInv
  <2>2. CASE k # j
    BY <1>2, <1>4, <2>2 DEF IInv, JobInv, cancelled
  <2> QED BY <2>1, <2>2
<1> QED BY <1>4, <1>5, <1>6, <1>7 DEF IInv

LEMMA NextIInv ==
  ASSUME IInv, [Next]_vars
  PROVE  IInv'
<1>1. CASE UNCHANGED vars
  <2> USE <1>1 DEF vars, brokerVars, dispatcherVars, poolVars, schedulerVars, historyVars
  <2>1. TypeOK'
    BY DEF IInv, TypeOK, BrokerTypeOK, bufferSize
  <2>2. RunInv' /\ (cancelled => cancelled')
    BY DEF IInv, RunInv, cancelled
  <2> QED BY <2>1, <2>2, QuietIInv DEF IInv
<1>2. CASE Next
  <2>1. CASE \E j \in Jobs, to \in {"later", "ready"} : ClientEnqueue(j, to)
    BY <2>1, ClientEnqueueIInv
  <2>2. CASE \E j \in Jobs : BecomeDue(j)
    BY <2>2, BecomeDueIInv
  <2>3. CASE Cancel
    BY <2>3, CancelIInv
  <2>4. CASE DispatcherNext
    BY <2>4, DispatcherQuietIInv, DispatchPopIInv, DispatchGetErrorIInv, SubmitSendIInv,
       SubmitCancelledIInv
    DEF DispatcherNext
  <2>5. CASE \E w \in Workers : WorkerNext(w)
    BY <2>5, WorkerReceiveIInv, WorkerExitIInv, WorkerFinishIInv, WorkerErrorIInv DEF WorkerNext
  <2>6. CASE SchedulerNext
    BY <2>6, SchedulerQuietIInv, SchedulerPromoteIInv DEF SchedulerNext
  <2>7. CASE RunNext
    BY <2>7, RunIInv
  <2> QED BY <1>2, <2>1, <2>2, <2>3, <2>4, <2>5, <2>6, <2>7 DEF Next
<1> QED BY <1>1, <1>2

\* The invariant that the safety properties rest on.
THEOREM Invariance == Spec => []IInv
<1>1. IInv /\ [Next]_vars => IInv'
  BY NextIInv
<1> QED BY InitIInv, <1>1, PTL DEF Spec

-----------------------------------------------------------------------------
(* What follows from it                                                    *)

\* No two places of the process have the same job.
LEMMA HoldersFacts ==
  ASSUME IInv, NEW j \in Jobs
  PROVE  /\ Holders(j) # {} <=> InHand(j)
         /\ \A x, y \in Holders(j) : x = y
<1>1. \A x : x \in Holders(j) <=>
        \/ x = <<"dispatcher", 0>> /\ taken = j
        \/ \E i \in DOMAIN jobCh : jobCh[i] = j /\ x = <<"channel", i>>
        \/ \E w \in Workers : wjob[w] = j /\ x = <<"worker", w>>
  BY DEF Holders
<1>2. Holders(j) # {} <=> InHand(j)
  BY <1>1 DEF InHand, Elems
<1>3. ASSUME NEW x \in Holders(j), NEW y \in Holders(j) PROVE x = y
  <2>1. ~(taken = j /\ \E i \in DOMAIN jobCh : jobCh[i] = j)
    BY DEF IInv, HandsInv, Elems
  <2>2. ~(taken = j /\ \E w \in Workers : wjob[w] = j)
    BY ServerAssumption DEF IInv, HandsInv
  <2>3. ~((\E i \in DOMAIN jobCh : jobCh[i] = j) /\ \E w \in Workers : wjob[w] = j)
    BY DEF IInv, HandsInv, Elems
  <2>4. \A i, k \in DOMAIN jobCh : jobCh[i] = j /\ jobCh[k] = j => i = k
    BY DEF IInv, HandsInv, Distinct
  <2>5. \A v, w \in Workers : wjob[v] = j /\ wjob[w] = j => v = w
    BY ServerAssumption DEF IInv, HandsInv
  <2> QED BY <1>1, <2>1, <2>2, <2>3, <2>4, <2>5
<1> QED BY <1>2, <1>3

\* Every variable keeps its type; of these, that the channel never holds more
\* jobs than its buffer has room for.
THEOREM TypeCorrect == Spec => []TypeOK
<1>1. IInv => TypeOK
  BY DEF IInv
<1> QED BY Invariance, <1>1, PTL

\* While the server runs, the jobs that the broker has in flight are those in
\* the hands of the dispatcher, the channel or a worker and those a failed
\* call left behind, and no job is in two hands.
THEOREM NoJobLostInHandover == Spec => []InFlightAccounted
<1>1. ASSUME IInv, NEW j \in Jobs
      PROVE  /\ Cardinality(Holders(j)) <= 1
             /\ ~cancelled => (phase[j] = "active" <=> (Holders(j) # {} \/ j \in abandoned))
  <2>1. Cardinality(Holders(j)) <= 1
    <3>1. CASE Holders(j) = {}
      BY <3>1, FS_EmptySet
    <3>2. CASE Holders(j) # {}
      <4>1. PICK x : x \in Holders(j)
        BY <3>2
      <4>2. Holders(j) = {x}
        BY <1>1, <4>1, HoldersFacts
      <4> QED BY <4>2, FS_Singleton
    <3> QED BY <3>1, <3>2
  <2>2. Holders(j) # {} <=> InHand(j)
    BY <1>1, HoldersFacts
  <2> QED BY <1>1, <2>1, <2>2 DEF IInv, JobInv
<1>2. IInv => InFlightAccounted
  BY <1>1 DEF InFlightAccounted
<1> QED BY Invariance, <1>2, PTL

\* When the server is done, every job that a worker has taken has its outcome
\* recorded, but for those whose recording failed.
THEOREM OutcomesRecordedBeforeClose == Spec => []StartedJobsAreFinished
<1>1. ASSUME IInv, rpc = "closed", NEW j \in received \ abandoned
      PROVE  phase[j] # "active"
  <2>1. j \in Jobs
    BY <1>1 DEF IInv, TypeOK
  <2>2. \A w \in Workers : wjob[w] = NoJob
    BY <1>1 DEF IInv, RunInv, HandsInv
  <2> QED BY <1>1, <2>1, <2>2, ServerAssumption DEF IInv, JobInv
<1>2. IInv => StartedJobsAreFinished
  BY <1>1 DEF StartedJobsAreFinished
<1> QED BY Invariance, <1>2, PTL

\* The broker is closed after the dispatcher, the scheduler and every worker
\* have stopped.
THEOREM BrokerClosedLast == Spec => []ClosedLast
<1>1. IInv => ClosedLast
  BY DEF IInv, RunInv, ClosedLast
<1> QED BY Invariance, <1>1, PTL

\* The poll schedule gives a queue as many turns as its weight says, whatever
\* the queues, the weights and the order that the map gives them in.
THEOREM WeightsRespected == Spec => []ScheduleMatchesWeights
<1>1. IInv => ScheduleMatchesWeights
  BY DEF IInv
<1> QED BY Invariance, <1>1, PTL
=============================================================================
