------------------------- MODULE RedisListingsProofs ------------------------
(***************************************************************************)
(* The dashboard's calls on a Redis broker at work, for any number of jobs *)
(* and queues, any page that SCAN may return and any limit: what           *)
(* GetQueueStats and GetJobsByStatus answer fits what was in the store     *)
(* while they read it.                                                     *)
(***************************************************************************)
EXTENDS RedisListings, RedisFaultProofs, SequenceTheorems

\* The store, as far as the reader relies on it: an ID is in its own queue, and
\* what is referenced and unfinished can be read.
ShelfInv ==
  /\ \A q \in Queues : \A j \in Elems(queue[q]) : QueueOf[j] = q
  /\ \A j \in Jobs : Located(j) /\ j \notin succeeded => record[j] # NoRecord

\* The variables of the reader.
ReaderTypeOK ==
  /\ asked \in {"none", "stats"} \cup DOMAIN StatusPlace
  /\ limit \in Nat
  /\ reading \in Places \cup {"idle", "wrongtype"}
  /\ unscanned \subseteq Queues /\ page \subseteq Queues
  /\ gathered \in Seq(Jobs) /\ fetched \in 0..Len(gathered)
  /\ counts \in [Queues -> [Places -> Nat]]
  /\ listed \in Seq(Jobs)
  /\ always \in [Jobs -> Nat] /\ ever \in [Jobs -> Nat]

\* A call starts with an empty answer.
IdleInv == reading = "idle" => counts = Zero /\ listed = <<>>

\* Until the structure is read to the end, the history brackets it.
Bracket ==
  reading \in Places =>
    /\ ~AllFetched =>
         \A j \in Jobs : always[j] <= Occurrences(reading, j) /\ Occurrences(reading, j) <= ever[j]
    /\ \A j \in Elems(gathered) : ever[j] > 0

\* The IDs whose records were fetched, each once, and their share of always.
FetchedIDs == {gathered[i] : i \in 1..fetched}
Each(S) == [j \in Jobs |-> IF j \in S THEN 1 ELSE 0]
AlwaysIn(S) == [j \in Jobs |-> IF j \in S THEN always[j] ELSE 0]

\* GetQueueStats: the columns of the kinds to come are empty.  Of a kind with a
\* key per queue, the queues that SCAN has passed and whose keys were read are
\* counted; of a shared set, the unfinished jobs whose records were fetched.
StatsInv ==
  asked = "stats" =>
    /\ reading \in Places
    /\ \A i, k \in 1..5 : reading = Kinds[i] /\ i < k => \A q \in Queues : counts[q][Kinds[k]] = 0
    /\ reading \in PerQueue =>
         /\ gathered = <<>>
         /\ \A q \in Queues :
              /\ counts[q][reading] <= Sum(ever, q)
              /\ q \notin unscanned \cup page => Sum(always, q) <= counts[q][reading]
    /\ reading \notin PerQueue =>
         /\ page = {} /\ Distinct(gathered)
         /\ \A j \in Jobs : always[j] > 0 => j \in Elems(gathered)
         /\ \A q \in Queues :
              /\ counts[q][reading] <= Sum(Each(FetchedIDs), q)
              /\ Sum(AlwaysIn(FetchedIDs \ succeeded), q) <= counts[q][reading]

\* GetJobsByStatus: what was fetched and is unfinished is listed; unless limit
\* is reached, what was there throughout is gathered or still ahead of SCAN.
ListInv ==
  asked \in DOMAIN StatusPlace =>
    /\ reading \in {StatusPlace[asked], "wrongtype"}
    /\ Len(gathered) <= limit
    /\ Elems(listed) \subseteq FetchedIDs
    /\ reading \in Places =>
         /\ \A j \in FetchedIDs \ succeeded : always[j] > 0 => j \in Elems(listed)
         /\ Len(gathered) < limit =>
              \A j \in Jobs : always[j] > 0 =>
                j \in Elems(gathered) \/ (reading \in PerQueue /\ QueueOf[j] \in unscanned \cup page)

ReaderInv ==
  /\ ReaderTypeOK
  /\ IdleInv
  /\ Bracket
  /\ StatsInv
  /\ ListInv

ListingInv ==
  /\ KeepInv
  /\ ShelfInv
  /\ ReaderInv

-----------------------------------------------------------------------------
(* Sums                                                                    *)

\* Two sums that differ most at one summand.
LEMMA SumShift ==
  ASSUME NEW S, IsFiniteSet(S), NEW f, NEW g, NEW x \in S, NEW a \in Nat, NEW b \in Nat,
         \A y \in S : f[y] \in Nat /\ g[y] \in Nat,
         \A y \in S \ {x} : f[y] <= g[y],
         f[x] + a <= g[x] + b
  PROVE  SumFunctionOnSet(f, S) + a <= SumFunctionOnSet(g, S) + b
<1> DEFINE R == S \ {x}
<1>1. IsFiniteSet(R) /\ \A y \in R : f[y] \in Nat /\ g[y] \in Nat /\ f[y] <= g[y]
  BY FS_Subset
<1>2. /\ SumFunctionOnSet(f, S) = f[x] + SumFunctionOnSet(f, R)
      /\ SumFunctionOnSet(g, S) = g[x] + SumFunctionOnSet(g, R)
  BY SumFacts
<1> HIDE DEF R
<1>3. /\ SumFunctionOnSet(f, R) \in Nat /\ SumFunctionOnSet(g, R) \in Nat
      /\ SumFunctionOnSet(f, R) <= SumFunctionOnSet(g, R)
  BY <1>1, SumFacts, SumMonotone
<1> QED BY <1>2, <1>3

LEMMA SumOfZeros ==
  ASSUME NEW S, IsFiniteSet(S), NEW f, \A x \in S : f[x] = 0
  PROVE  SumFunctionOnSet(f, S) = 0
<1> DEFINE T == {s \in SUBSET S : SumFunctionOnSet(f, s) = 0}
<1>1. {} \in T
  BY SumFacts
<1>2. ASSUME NEW s \in SUBSET S, s \in T, NEW x \in S \ s PROVE s \cup {x} \in T
  <2> PICK t : t = s \cup {x}
    OBVIOUS
  <2>1. t \in SUBSET S /\ IsFiniteSet(t) /\ x \in t /\ t \ {x} = s /\ \A k \in t : f[k] \in Nat
    BY FS_Subset
  <2>2. SumFunctionOnSet(f, t) = f[x] + SumFunctionOnSet(f, s)
    BY <2>1, SumFacts
  <2> QED BY <1>2, <2>1, <2>2
<1>3. S \in T
  <2> HIDE DEF T
  <2> QED BY <1>1, <1>2, SubsetInduction
<1> QED BY <1>3

LEMMA QueueFinite ==
  ASSUME NEW q \in Queues
  PROVE  IsFiniteSet({j \in Jobs : QueueOf[j] = q})
<1> DEFINE S == {j \in Jobs : QueueOf[j] = q}
<1>1. S \in SUBSET Jobs /\ IsFiniteSet(Jobs)
  BY ListingAssumption
<1> HIDE DEF S
<1>2. IsFiniteSet(S)
  BY <1>1, FS_Subset
<1> QED BY <1>2 DEF S

\* What a queue adds up to.
LEMMA QueueSum ==
  ASSUME NEW q \in Queues, NEW f, \A j \in Jobs : f[j] \in Nat
  PROVE  /\ Sum(f, q) \in Nat
         /\ \A j \in Jobs : QueueOf[j] = q => f[j] <= Sum(f, q)
         /\ (\A j \in Jobs : QueueOf[j] = q => f[j] = 0) => Sum(f, q) = 0
<1> PICK S : S = {j \in Jobs : QueueOf[j] = q}
  OBVIOUS
<1>1. IsFiniteSet(S) /\ \A j \in S : f[j] \in Nat
  BY QueueFinite
<1>2. Sum(f, q) = SumFunctionOnSet(f, S)
  BY DEF Sum
<1>3. SumFunctionOnSet(f, S) \in Nat
  BY <1>1, SumFacts
<1>4. ASSUME NEW j \in S PROVE f[j] <= SumFunctionOnSet(f, S)
  <2> PICK R : R = S \ {j}
    OBVIOUS
  <2>1. IsFiniteSet(R) /\ \A k \in R : f[k] \in Nat
    BY <1>1, FS_Subset
  <2>2. SumFunctionOnSet(f, R) \in Nat
    BY <2>1, SumFacts
  <2>3. SumFunctionOnSet(f, S) = f[j] + SumFunctionOnSet(f, R)
    BY <1>1, SumFacts
  <2> QED BY <1>1, <2>2, <2>3
<1>5. (\A j \in S : f[j] = 0) => SumFunctionOnSet(f, S) = 0
  BY <1>1, SumOfZeros
<1> QED BY <1>2, <1>3, <1>4, <1>5

LEMMA QueueSumMonotone ==
  ASSUME NEW q \in Queues, NEW f, NEW g,
         \A j \in Jobs : f[j] \in Nat /\ g[j] \in Nat /\ f[j] <= g[j]
  PROVE  Sum(f, q) <= Sum(g, q)
<1> PICK S : S = {j \in Jobs : QueueOf[j] = q}
  OBVIOUS
<1>1. IsFiniteSet(S) /\ \A j \in S : f[j] \in Nat /\ g[j] \in Nat /\ f[j] <= g[j]
  BY QueueFinite
<1>2. SumFunctionOnSet(f, S) <= SumFunctionOnSet(g, S)
  BY <1>1, SumMonotone
<1> QED BY <1>2 DEF Sum

-----------------------------------------------------------------------------
(* How often an ID is in a structure                                       *)

LEMMA MinMaxOfTwo ==
  ASSUME NEW a \in Nat, NEW b \in Nat
  PROVE  /\ Min({a, b}) \in {a, b} /\ Min({a, b}) <= a /\ Min({a, b}) <= b
         /\ Max({a, b}) \in {a, b} /\ a <= Max({a, b}) /\ b <= Max({a, b})
<1>1. \E x \in {a, b} : \A y \in {a, b} : x <= y
  OBVIOUS
<1>2. \E x \in {a, b} : \A y \in {a, b} : x >= y
  OBVIOUS
<1>3. Min({a, b}) \in {a, b} /\ \A y \in {a, b} : Min({a, b}) <= y
  BY <1>1 DEF Min
<1>4. Max({a, b}) \in {a, b} /\ \A y \in {a, b} : Max({a, b}) >= y
  BY <1>2 DEF Max
<1> QED BY <1>3, <1>4

LEMMA Positions ==
  ASSUME NEW S, NEW s \in Seq(S), NEW e
  PROVE  /\ Cardinality({i \in DOMAIN s : s[i] = e}) \in Nat
         /\ Cardinality({i \in DOMAIN s : s[i] = e}) > 0 <=> e \in Elems(s)
<1> PICK P : P = {i \in DOMAIN s : s[i] = e}
  OBVIOUS
<1>1. P \in SUBSET (1..Len(s)) /\ Len(s) \in Int
  OBVIOUS
<1>2. IsFiniteSet(P)
  BY <1>1, FS_Interval, FS_Subset
<1>3. Cardinality(P) \in Nat /\ (Cardinality(P) = 0 <=> P = {})
  BY <1>2, FS_CardinalityType, FS_EmptySet
<1>4. P # {} <=> e \in Elems(s)
  BY DEF Elems
<1> QED BY <1>3, <1>4

LEMMA OccurrencesFacts ==
  ASSUME StoreTypeOK, NEW p \in Places, NEW j \in Jobs
  PROVE  /\ Occurrences(p, j) \in Nat
         /\ Occurrences(p, j) > 0 => Located(j)
         /\ p \in {"scheduled", "active"} => Occurrences(p, j) \in {0, 1}
         /\ p = "queue" => (Occurrences(p, j) > 0 <=> j \in Elems(queue[QueueOf[j]]))
<1>1. CASE p = "queue"
  <2>1. PICK s \in Seq(Jobs) : s = queue[QueueOf[j]]
    BY StoreAssumption DEF StoreTypeOK
  <2>2. Occurrences(p, j) = Cardinality({i \in DOMAIN s : s[i] = j})
    BY <1>1, <2>1 DEF Occurrences
  <2>3. /\ Occurrences(p, j) \in Nat
        /\ Occurrences(p, j) > 0 <=> j \in Elems(s)
    BY <2>2, Positions
  <2>4. j \in Elems(s) => InQueue(j)
    BY <2>1 DEF Elems, InQueue
  <2> QED BY <1>1, <2>1, <2>3, <2>4 DEF Located
<1>2. CASE p = "dead"
  BY <1>2 DEF Occurrences, StoreTypeOK, Located
<1>3. CASE p \in {"retry", "scheduled", "active"}
  BY <1>3 DEF Occurrences, InPlace, Located
<1> QED BY <1>1, <1>2, <1>3 DEF Places

\* The same of the next state.
LEMMA OccurrencesTyped == StoreTypeOK => \A p \in Places, j \in Jobs : Occurrences(p, j) \in Nat
BY OccurrencesFacts

LEMMA NextOccurrencesTyped ==
  StoreTypeOK' => (\A p \in Places, j \in Jobs : Occurrences(p, j) \in Nat)'
BY OccurrencesTyped, PTL

LEMMA CensusFacts ==
  ASSUME StoreTypeOK, NEW p \in Places
  PROVE  /\ Census(p) \in [Jobs -> Nat]
         /\ \A j \in Jobs : Census(p)[j] = Occurrences(p, j)
BY OccurrencesFacts DEF Census

\* A key that does not exist holds nothing.
LEMMA NoKeyNoIDs ==
  ASSUME StoreTypeOK, NEW p \in Places, NEW q \in Queues, ~KeyExists(p, q),
         NEW j \in Jobs, QueueOf[j] = q
  PROVE  Occurrences(p, j) = 0
<1>1. PICK f : f = Census(p)
  OBVIOUS
<1>2. \A k \in Jobs : f[k] \in Nat /\ f[k] = Occurrences(p, k)
  BY <1>1, CensusFacts
<1>3. Sum(f, q) \in Nat /\ f[j] <= Sum(f, q)
  BY <1>2, QueueSum
<1>4. ~(Sum(f, q) > 0)
  BY <1>1 DEF KeyExists, Size
<1> QED BY <1>2, <1>3, <1>4

-----------------------------------------------------------------------------
(* What LRANGE and ZRANGE answer                                           *)

LEMMA FirstOfFacts ==
  ASSUME NEW S, NEW s \in Seq(S), NEW n \in Nat
  PROVE  /\ FirstOf(s, n) \in Seq(S)
         /\ Len(FirstOf(s, n)) <= n
         /\ Elems(FirstOf(s, n)) \subseteq Elems(s)
         /\ Len(FirstOf(s, n)) < n \/ Len(s) <= n => FirstOf(s, n) = s
<1>1. PICK m : m = Min({n, Len(s)})
  OBVIOUS
<1>2. m \in {n, Len(s)} /\ m <= n /\ m <= Len(s) /\ Len(s) \in Nat
  BY <1>1, MinMaxOfTwo
<1>3. PICK t : t = SubSeq(s, 1, m)
  OBVIOUS
<1>4. FirstOf(s, n) = t
  BY <1>1, <1>3 DEF FirstOf
<1>5. t \in Seq(S) /\ Len(t) = m /\ \A i \in 1..m : t[i] = s[i]
  BY <1>2, <1>3
<1>6. Elems(t) \subseteq Elems(s)
  BY <1>2, <1>5 DEF Elems
<1>7. m < n \/ Len(s) <= n => t = s
  <2> SUFFICES ASSUME m < n \/ Len(s) <= n PROVE t = s
    OBVIOUS
  <2>1. m = Len(s)
    BY <1>2
  <2> QED BY <1>5, <2>1
<1> QED BY <1>2, <1>4, <1>5, <1>6, <1>7

LEMMA ReverseElems ==
  ASSUME NEW S, NEW s \in Seq(S)
  PROVE  Reverse(s) \in Seq(S) /\ Elems(Reverse(s)) = Elems(s)
<1>1. PICK t : t = Reverse(s)
  OBVIOUS
<1>2. /\ t \in Seq(S) /\ Len(t) = Len(s)
      /\ \A i \in 1..Len(s) : t[i] = s[(Len(s) - i) + 1]
  BY <1>1 DEF Reverse
<1>3. ASSUME NEW i \in 1..Len(s) PROVE t[i] \in Elems(s) /\ s[i] \in Elems(t)
  <2>1. PICK k : k = (Len(s) - i) + 1
    OBVIOUS
  <2>2. k \in 1..Len(s) /\ i = (Len(s) - k) + 1
    BY <2>1
  <2>3. t[i] = s[k] /\ t[k] = s[i]
    BY <1>2, <2>1, <2>2
  <2>4. DOMAIN s = 1..Len(s) /\ DOMAIN t = 1..Len(s)
    BY <1>2
  <2>5. t[i] \in Elems(s)
    BY <2>2, <2>3, <2>4 DEF Elems
  <2>6. s[i] \in Elems(t)
    BY <2>2, <2>3, <2>4 DEF Elems
  <2> QED BY <2>5, <2>6
<1>4. Elems(t) = Elems(s)
  <2>1. \A e : e \in Elems(t) => \E i \in 1..Len(s) : t[i] = e
    BY <1>2 DEF Elems
  <2>2. \A e : e \in Elems(s) => \E i \in 1..Len(s) : s[i] = e
    BY DEF Elems
  <2>3. Elems(t) \subseteq Elems(s)
    BY <1>3, <2>1
  <2>4. Elems(s) \subseteq Elems(t)
    BY <1>3, <2>2
  <2> QED BY <2>3, <2>4
<1> QED BY <1>1, <1>2, <1>4

\* A list without its order, or a sorted set: each ID as often as it is there.
LEMMA UnorderedContents ==
  ASSUME StoreTypeOK, NEW p \in Places, p # "queue", NEW Q \in SUBSET Queues,
         NEW s \in Contents(p, Q)
  PROVE  /\ s \in Seq(Jobs)
         /\ \A j \in Jobs : j \in Elems(s) <=> QueueOf[j] \in Q /\ Occurrences(p, j) > 0
         /\ p \in {"scheduled", "active"} => Distinct(s) /\ Len(s) <= Cardinality(Jobs)
<1>1. PICK ours : ours = {j \in Jobs : QueueOf[j] \in Q}
  OBVIOUS
<1>2. PICK size : size = SumFunctionOnSet(Census(p), ours)
  OBVIOUS
<1>3. size \in Nat
  <2>1. IsFiniteSet(ours)
    BY <1>1, ListingAssumption, FS_Subset
  <2>2. PICK f : f = Census(p) /\ \A j \in ours : f[j] \in Nat
    BY <1>1, CensusFacts
  <2> QED BY <1>2, <2>1, <2>2, SumFacts
<1>4. /\ s \in [1..size -> ours]
      /\ \A j \in ours : Cardinality({i \in 1..size : s[i] = j}) = Occurrences(p, j)
  BY <1>1, <1>2 DEF Contents
<1>5. s \in Seq(Jobs) /\ DOMAIN s = 1..size /\ Len(s) = size /\ Elems(s) \subseteq ours
  BY <1>1, <1>3, <1>4 DEF Elems
<1>6. ASSUME NEW j \in ours
      PROVE  j \in Elems(s) <=> Occurrences(p, j) > 0
  <2>1. Cardinality({i \in DOMAIN s : s[i] = j}) = Occurrences(p, j)
    BY <1>4, <1>5
  <2> QED BY <1>5, <2>1, Positions
<1>7. ASSUME p \in {"scheduled", "active"}
      PROVE  Distinct(s) /\ Len(s) <= Cardinality(Jobs)
  <2>1. Distinct(s)
    <3> SUFFICES ASSUME NEW i \in 1..size, NEW k \in 1..size, s[i] = s[k] PROVE i = k
      BY <1>5 DEF Distinct
    <3>1. PICK j \in ours : j = s[i]
      BY <1>4
    <3>2. PICK P : P = {l \in 1..size : s[l] = j}
      OBVIOUS
    <3>3. P \in SUBSET (1..size) /\ i \in P /\ k \in P /\ j \in Jobs
      BY <1>1, <3>1, <3>2
    <3>4. IsFiniteSet(P) /\ Cardinality(P) \in {0, 1}
      <4>1. Cardinality(P) = Occurrences(p, j)
        BY <1>4, <3>2
      <4>2. Occurrences(p, j) \in {0, 1}
        BY <1>7, <3>3, OccurrencesFacts
      <4>3. IsFiniteSet(P)
        <5>1. PICK I : I = 1..size
          OBVIOUS
        <5>2. IsFiniteSet(I)
          BY <1>3, <5>1, FS_Interval
        <5> QED BY <3>3, <5>1, <5>2, FS_Subset
      <4> QED BY <4>1, <4>2, <4>3
    <3>5. \E x : P = {x}
      BY <3>3, <3>4, FS_EmptySet, FS_Singleton
    <3> QED BY <3>3, <3>5
  <2>2. s \in Injection(1..size, Jobs)
    BY <1>1, <1>4, <1>5, <2>1 DEF Distinct, Injection, IsInjective
  <2>3. Cardinality(1..size) <= Cardinality(Jobs) /\ Cardinality(1..size) = size
    BY <1>3, <2>2, ListingAssumption, FS_Injection, FS_Interval
  <2> QED BY <1>5, <2>1, <2>3
<1> QED BY <1>1, <1>5, <1>6, <1>7

\* One key of a queue.
LEMMA KeyContents ==
  ASSUME StoreTypeOK, ShelfInv, NEW p \in Places, NEW q \in Queues, NEW s \in Contents(p, {q})
  PROVE  /\ s \in Seq(Jobs)
         /\ \A j \in Jobs : j \in Elems(s) <=> QueueOf[j] = q /\ Occurrences(p, j) > 0
<1>1. CASE p # "queue"
  BY <1>1, UnorderedContents
<1>2. CASE p = "queue"
  <2>1. s = Reverse(queue[q]) /\ queue[q] \in Seq(Jobs)
    BY <1>2 DEF Contents, StoreTypeOK
  <2>2. s \in Seq(Jobs) /\ Elems(s) = Elems(queue[q])
    BY <2>1, ReverseElems
  <2>3. \A j \in Jobs : j \in Elems(queue[q]) => QueueOf[j] = q
    BY DEF ShelfInv
  <2>4. \A j \in Jobs : Occurrences(p, j) > 0 <=> j \in Elems(queue[QueueOf[j]])
    BY <1>2, OccurrencesFacts
  <2> QED BY <2>2, <2>3, <2>4
<1> QED BY <1>1, <1>2

LEMMA SharedContents ==
  ASSUME StoreTypeOK, NEW p \in {"scheduled", "active"}, NEW s \in Contents(p, Queues)
  PROVE  /\ s \in Seq(Jobs) /\ Distinct(s) /\ Len(s) <= Cardinality(Jobs)
         /\ \A j \in Jobs : j \in Elems(s) <=> Occurrences(p, j) > 0
BY UnorderedContents, StoreAssumption DEF Places

-----------------------------------------------------------------------------
(* The store between two reads                                             *)

LEMMA ShelfKept ==
  ASSUME ShelfInv, \A q \in Queues : \A j \in Elems(queue'[q]) : QueueOf[j] = q,
         succeeded \subseteq succeeded',
         \A k \in Jobs : \/ record'[k] # NoRecord
                         \/ k \in succeeded'
                         \/ record'[k] = record[k] /\ (Located(k)' => Located(k))
  PROVE  ShelfInv'
BY DEF ShelfInv

LEMMA PushedToOwnQueue ==
  ASSUME StoreTypeOK, ShelfInv, NEW j \in Jobs, LPush(j)
  PROVE  /\ \A q \in Queues : \A k \in Elems(queue'[q]) : QueueOf[k] = q
         /\ \A k \in Jobs \ {j} : InQueue(k)' => InQueue(k)
<1>1. PICK s \in Seq(Jobs) : s = queue[QueueOf[j]]
  BY StoreAssumption DEF StoreTypeOK
<1>2. Elems(Append(s, j)) = Elems(s) \cup {j}
  BY AppendElems
<1>3. /\ queue'[QueueOf[j]] = Append(s, j)
      /\ \A q \in Queues : q # QueueOf[j] => queue'[q] = queue[q]
  BY <1>1, StoreAssumption DEF LPush, StoreTypeOK
<1>4. ASSUME NEW q \in Queues, NEW k \in Elems(queue'[q])
      PROVE  QueueOf[k] = q /\ (k # j => k \in Elems(queue[q]))
  BY <1>1, <1>2, <1>3 DEF ShelfInv
<1>5. ASSUME NEW k \in Jobs
      PROVE  /\ InQueue(k)' <=> k \in Elems(queue'[QueueOf[k]])
             /\ InQueue(k) <=> k \in Elems(queue[QueueOf[k]])
             /\ QueueOf[k] \in Queues
  BY StoreAssumption DEF InQueue, Elems
<1> QED BY <1>4, <1>5

\* A script writes a record and puts its ID anywhere.
LEMMA WriteShelf ==
  ASSUME StoreTypeOK, ShelfInv, NEW j \in Jobs, NEW rec \in JobRecord, Set(j, rec),
         queue' = queue \/ LPush(j),
         scheduled' = scheduled \/ \E t : scheduled' = [scheduled EXCEPT ![j] = t],
         retry' = retry \/ \E t : retry' = [retry EXCEPT ![j] = t],
         dead' = dead \/ \E t : dead' = [dead EXCEPT ![j] = t],
         active' \subseteq active, succeeded' = succeeded
  PROVE  ShelfInv'
<1>1. /\ \A q \in Queues : \A k \in Elems(queue'[q]) : QueueOf[k] = q
      /\ \A k \in Jobs \ {j} : InQueue(k)' => InQueue(k)
  <2>1. CASE queue' = queue
    BY <2>1, SameQueues DEF ShelfInv
  <2>2. CASE LPush(j)
    BY <2>2, PushedToOwnQueue
  <2> QED BY <2>1, <2>2
<1>2. record'[j] # NoRecord /\ \A k \in Jobs \ {j} : record'[k] = record[k]
  BY StoreAssumption DEF Set, StoreTypeOK
<1>3. \A k \in Jobs \ {j} : scheduled'[k] = scheduled[k]
  BY DEF StoreTypeOK
<1>4. \A k \in Jobs \ {j} : retry'[k] = retry[k]
  BY DEF StoreTypeOK
<1>5. \A k \in Jobs \ {j} : dead'[k] = dead[k]
  BY DEF StoreTypeOK
<1>6. \A k \in Jobs \ {j} : Located(k)' => Located(k)
  BY <1>1, <1>3, <1>4, <1>5 DEF Located
<1> QED BY <1>1, <1>2, <1>6, ShelfKept

\* A command takes an ID out of a set, or deletes the record of a job that has
\* succeeded.
LEMMA TakeShelf ==
  ASSUME StoreTypeOK, ShelfInv, NEW j \in Jobs,
         record' = record \/ (Set(j, NoRecord) /\ j \in succeeded'),
         scheduled' = scheduled \/ scheduled' = [scheduled EXCEPT ![j] = Absent],
         retry' = retry \/ retry' = [retry EXCEPT ![j] = Absent],
         queue' = queue, dead' = dead, active' \subseteq active, succeeded \subseteq succeeded'
  PROVE  ShelfInv'
<1>1. /\ \A q \in Queues : \A k \in Elems(queue'[q]) : QueueOf[k] = q
      /\ \A k \in Jobs : InQueue(k)' <=> InQueue(k)
  BY SameQueues DEF ShelfInv
<1>2. \A k \in Jobs : record'[k] = record[k] \/ k \in succeeded'
  BY DEF Set, StoreTypeOK
<1>3. \A k \in Jobs : scheduled'[k] # Absent => scheduled[k] # Absent
  BY DEF StoreTypeOK
<1>4. \A k \in Jobs : retry'[k] # Absent => retry[k] # Absent
  BY DEF StoreTypeOK
<1>5. \A k \in Jobs : Located(k)' => Located(k)
  BY <1>1, <1>3, <1>4 DEF Located
<1> QED BY <1>1, <1>2, <1>5, ShelfKept

LEMMA SameShelf ==
  ASSUME ShelfInv, UNCHANGED <<store, succeeded>>
  PROVE  ShelfInv'
BY DEF ShelfInv, store, Located, InQueue

LEMMA DequeueShelf ==
  ASSUME KeepInv, ShelfInv, NEW c \in Consumers, NEW r \in Queues, DequeuePop(c, r)
  PROVE  ShelfInv'
<1>1. PICK s \in Seq(Jobs) : s = queue[r] /\ s # <<>>
  BY DEF KeepInv, TypeOK, StoreTypeOK, DequeuePop, RpopZadd
<1>2. Head(s) \in Jobs /\ Elems(s) = Elems(Tail(s)) \cup {Head(s)}
  BY <1>1, TailElems
<1>3. PICK j \in Jobs : j = Head(s) /\ j \in Elems(queue[r])
  BY <1>1, <1>2
<1>4. /\ queue'[r] = Tail(s) /\ \A q \in Queues : q # r => queue'[q] = queue[q]
      /\ UNCHANGED <<record, scheduled, retry, dead, succeeded>>
      /\ active' = active \cup {j}
  BY <1>1, <1>3 DEF DequeuePop, RpopZadd, KeepInv, TypeOK, StoreTypeOK, history
<1>5. \A q \in Queues : Elems(queue'[q]) \subseteq Elems(queue[q])
  BY <1>1, <1>2, <1>4
<1>6. ASSUME NEW k \in Jobs
      PROVE  /\ InQueue(k)' <=> k \in Elems(queue'[QueueOf[k]])
             /\ InQueue(k) <=> k \in Elems(queue[QueueOf[k]])
             /\ QueueOf[k] \in Queues
  BY StoreAssumption DEF InQueue, Elems
<1>7. Located(j)
  BY <1>3, <1>6 DEF ShelfInv, Located
<1>8. \A k \in Jobs : Located(k)' => Located(k)
  BY <1>4, <1>5, <1>6, <1>7 DEF Located
<1>9. \A q \in Queues : \A k \in Elems(queue'[q]) : QueueOf[k] = q
  BY <1>5 DEF ShelfInv
<1> QED BY <1>4, <1>8, <1>9, ShelfKept

LEMMA NextShelf ==
  ASSUME KeepInv, ShelfInv, ResendNext
  PROVE  ShelfInv' /\ succeeded \subseteq succeeded'
<1>1. StoreTypeOK /\ "dead" \in Status /\ "retry" \in Status
  BY DEF KeepInv, TypeOK, Status
<1>2. CASE \E j \in Jobs : (\E delay \in EnqueueDelays : Enqueue(j, delay)) \/ EnqueueResend(j)
  <2>1. PICK j \in Jobs : (\E delay \in EnqueueDelays : Enqueue(j, delay)) \/ EnqueueResend(j)
    BY <1>2
  <2>2. PICK t \in Nat : SetBranchLpushZadd(j, NewJob(t))
    <3>1. CASE \E delay \in EnqueueDelays : Enqueue(j, delay)
      BY <3>1, BrokerAssumption DEF Enqueue, KeepInv, TypeOK, StoreTypeOK
    <3>2. CASE EnqueueResend(j)
      BY <3>2 DEF EnqueueResend, KeepInv, TypeOK
    <3> QED BY <2>1, <3>1, <3>2
  <2>3. PICK rec \in JobRecord : rec = NewJob(t)
    BY NewJobFacts
  <2>4. succeeded' = succeeded
    BY <2>1 DEF Enqueue, EnqueueResend
  <2>5. /\ Set(j, rec)
        /\ queue' = queue \/ LPush(j)
        /\ scheduled' = scheduled \/ \E u : scheduled' = [scheduled EXCEPT ![j] = u]
        /\ UNCHANGED <<retry, dead, active>>
    BY <2>2, <2>3 DEF SetBranchLpushZadd
  <2> QED BY <1>1, <2>4, <2>5, WriteShelf
<1>3. CASE \E c \in Consumers : ConsumerNext(c) \/ DeadLetterUnanswered(c) \/ DeadLetterResend(c)
  <2>1. PICK c \in Consumers : ConsumerNext(c) \/ DeadLetterUnanswered(c) \/ DeadLetterResend(c)
    BY <1>3
  <2>2. CASE \E q \in Queues : DequeuePop(c, q)
    <3>1. ShelfInv'
      BY <2>2, DequeueShelf
    <3> QED BY <2>2, <3>1 DEF DequeuePop, history
  <2>3. CASE DequeueGet(c) \/ StartHandler(c) \/ Drop(c)
    <3>1. UNCHANGED <<store, succeeded>>
      BY <2>3 DEF DequeueGet, StartHandler, Drop, history
    <3> QED BY <3>1, SameShelf
  <2>4. CASE \/ NoHandler(c) \/ FailDead(c) \/ DeadLetterUnanswered(c) \/ DeadLetterResend(c)
             \/ \E delay \in RetryDelays : FailRequeue(c, delay)
    <3>1. PICK j \in Jobs : j = holds[c]
      BY <2>4 DEF KeepInv, HandsFull, NoHandler, FailDead, DeadLetterUnanswered, DeadLetterResend,
                  FailRequeue
    <3>2. copy[c] \in JobRecord
      BY <2>4 DEF KeepInv, HandsFull, NoHandler, FailDead, DeadLetterUnanswered, DeadLetterResend,
                  FailRequeue
    <3>3. /\ Failed(c, "dead") \in JobRecord /\ Failed(c, "retry") \in JobRecord
          /\ [copy[c] EXCEPT !.status = "dead"] \in JobRecord
      BY <1>1, <3>2, FailedFacts, MarkedDeadFacts
    <3>4. PICK rec \in JobRecord : SetLpushZrem(j, rec) \/ \E t : SetZaddZrem(j, rec, t)
      BY <2>4, <3>1, <3>2, <3>3
      DEF NoHandler, FailDead, DeadLetterUnanswered, Unanswered, DeadLetterResend, FailRequeue
    <3>5. succeeded' = succeeded
      BY <2>4 DEF NoHandler, FailDead, DeadLetterUnanswered, Unanswered, DeadLetterResend,
                  FailRequeue, history
    <3>6. /\ Set(j, rec) /\ queue' = queue /\ scheduled' = scheduled
          /\ retry' = retry \/ \E t : retry' = [retry EXCEPT ![j] = t]
          /\ dead' = dead \/ \E t : dead' = [dead EXCEPT ![j] = t]
          /\ active' \subseteq active
      BY <3>4 DEF SetLpushZrem, SetZaddZrem
    <3> QED BY <1>1, <3>5, <3>6, WriteShelf
  <2>5. CASE AcknowledgeZrem(c) \/ AcknowledgeDel(c)
    <3>1. PICK j \in Jobs : j = holds[c]
      BY <2>5 DEF KeepInv, HandsFull, AcknowledgeZrem, AcknowledgeDel
    <3>2. succeeded \subseteq succeeded'
      BY <2>5 DEF AcknowledgeZrem, AcknowledgeDel, history
    <3>3. record' = record \/ (Set(j, NoRecord) /\ j \in succeeded')
      BY <2>5, <3>1, <3>2 DEF AcknowledgeZrem, AcknowledgeDel, KeepInv, HandsFull
    <3>4. /\ UNCHANGED <<queue, scheduled, retry, dead>> /\ active' \subseteq active
      BY <2>5 DEF AcknowledgeZrem, AcknowledgeDel
    <3> QED BY <1>1, <3>2, <3>3, <3>4, TakeShelf
  <2> QED BY <2>1, <2>2, <2>3, <2>4, <2>5 DEF ConsumerNext
<1>4. CASE \E s \in Schedulers : SchedulerNext(s)
  <2>1. PICK s \in Schedulers : SchedulerNext(s)
    BY <1>4
  <2>2. succeeded' = succeeded
    BY <2>1 DEF SchedulerNext, PromoteStart, PromoteList, PromoteOne, PromoteAbort, history
  <2>3. CASE UNCHANGED store
    BY <2>2, <2>3, SameShelf
  <2>4. CASE ~(UNCHANGED store)
    <3>1. PICK j \in Jobs : PromoteOne(s, j)
      BY <2>1, <2>4 DEF SchedulerNext, PromoteStart, PromoteList, PromoteAbort
    <3>2. /\ ZremFrom(source[s], j) /\ UNCHANGED <<record, dead, active>>
          /\ \/ record[j] = NoRecord /\ UNCHANGED queue
             \/ record[j] # NoRecord /\ LPush(j)
      BY <2>4, <3>1 DEF PromoteOne, PromoteJob
    <3>3. /\ scheduled' = scheduled \/ scheduled' = [scheduled EXCEPT ![j] = Absent]
          /\ retry' = retry \/ retry' = [retry EXCEPT ![j] = Absent]
      BY <3>2 DEF ZremFrom
    <3>4. CASE record[j] = NoRecord /\ UNCHANGED queue
      BY <1>1, <2>2, <3>2, <3>3, <3>4, TakeShelf
    <3>5. CASE record[j] # NoRecord /\ LPush(j)
      <4>1. PICK rec \in JobRecord : rec = record[j]
        BY <1>1, <3>5 DEF StoreTypeOK
      <4>2. Set(j, rec)
        BY <1>1, <3>2, <4>1 DEF Set, StoreTypeOK
      <4> QED BY <1>1, <2>2, <3>2, <3>3, <3>5, <4>2, WriteShelf
    <3> QED BY <3>2, <3>4, <3>5
  <2> QED BY <2>3, <2>4
<1>5. CASE \E a \in Admins : AdminNext(a)
  <2>1. PICK a \in Admins : AdminNext(a)
    BY <1>5
  <2>2. succeeded' = succeeded
    BY <2>1 DEF AdminNext, RetryDeadRead, RetryDeadScript, AdminAbort, history
  <2>3. CASE UNCHANGED store
    BY <2>2, <2>3, SameShelf
  <2>4. CASE ~(UNCHANGED store)
    <3>1. RetryDeadScript(a)
      BY <2>1, <2>4 DEF AdminNext, RetryDeadRead, AdminAbort
    <3>2. PICK j \in Jobs, rec \in JobRecord : j = target[a] /\ rec = reset[a]
      BY <3>1 DEF RetryDeadScript, KeepInv, CallBegun
    <3>3. /\ Set(j, rec) /\ LPush(j) /\ UNCHANGED <<scheduled, retry, active>>
          /\ \E t : dead' = [dead EXCEPT ![j] = t]
      BY <2>4, <3>1, <3>2 DEF RetryDeadScript, RetryDeadJob
    <3> QED BY <1>1, <2>2, <3>3, WriteShelf
  <2> QED BY <2>3, <2>4
<1>6. CASE Tick
  BY <1>6, SameShelf DEF Tick, history
<1> QED BY <1>2, <1>3, <1>4, <1>5, <1>6 DEF ResendNext, Next

-----------------------------------------------------------------------------
(* The reader                                                              *)

LEMMA SumsOfHistory ==
  ASSUME NEW q \in Queues, NEW a \in [Jobs -> Nat], NEW b \in [Jobs -> Nat],
         \A j \in Jobs : a[j] <= b[j]
  PROVE  Sum(a, q) \in Nat /\ Sum(b, q) \in Nat /\ Sum(a, q) <= Sum(b, q)
BY QueueSum, QueueSumMonotone

\* Jobs move, and the history of the call keeps up with them.
LEMMA HistoryMoves ==
  ASSUME ReaderInv, StoreTypeOK', UNCHANGED readerVars, Watch
  PROVE  /\ always' \in [Jobs -> Nat] /\ ever' \in [Jobs -> Nat]
         /\ \A j \in Jobs : always'[j] <= always[j] /\ ever[j] <= ever'[j]
         /\ reading \in Places /\ ~AllFetched =>
              \A j \in Jobs : /\ always'[j] <= Occurrences(reading, j)'
                              /\ Occurrences(reading, j)' <= ever'[j]
<1>1. CASE reading \in Places /\ ~AllFetched
  <2>1. PICK p \in Places : p = reading /\ p = reading'
    BY <1>1 DEF readerVars
  <2>2. PICK f : f = Census(p)'
    OBVIOUS
  <2>3. \A j \in Jobs : f[j] \in Nat /\ f[j] = Occurrences(p, j)'
    <3>1. \A j \in Jobs : Occurrences(p, j)' \in Nat
      BY NextOccurrencesTyped
    <3> QED BY <2>2, <3>1 DEF Census
  <2>4. /\ always' = [j \in Jobs |-> Min({always[j], f[j]})]
        /\ ever' = [j \in Jobs |-> Max({ever[j], f[j]})]
    BY <1>1, <2>1, <2>2 DEF Watch
  <2>5. ASSUME NEW j \in Jobs
        PROVE  /\ always'[j] \in Nat /\ always'[j] <= always[j] /\ always'[j] <= f[j]
               /\ ever'[j] \in Nat /\ ever[j] <= ever'[j] /\ f[j] <= ever'[j]
    <3>1. PICK a \in Nat, e \in Nat, n \in Nat : a = always[j] /\ e = ever[j] /\ n = f[j]
      BY <2>3 DEF ReaderInv, ReaderTypeOK
    <3>2. always'[j] = Min({a, n}) /\ ever'[j] = Max({e, n})
      BY <2>4, <3>1
    <3> QED BY <3>1, <3>2, MinMaxOfTwo
  <2>6. always' \in [Jobs -> Nat] /\ ever' \in [Jobs -> Nat]
    BY <2>4, <2>5
  <2>7. \A j \in Jobs : Occurrences(reading, j)' = Occurrences(p, j)'
    BY <2>1
  <2> QED BY <2>3, <2>5, <2>6, <2>7
<1>2. CASE ~(reading \in Places /\ ~AllFetched)
  BY <1>2 DEF Watch, ReaderInv, ReaderTypeOK
<1> QED BY <1>1, <1>2

LEMMA FetchedAreGathered ==
  ASSUME ReaderTypeOK
  PROVE  FetchedIDs \subseteq Elems(gathered) /\ Elems(gathered) \subseteq Jobs
BY DEF ReaderTypeOK, FetchedIDs, Elems

LEMMA WatchKeeps ==
  ASSUME ReaderInv, StoreTypeOK', succeeded \subseteq succeeded', UNCHANGED readerVars, Watch
  PROVE  ReaderInv'
<1>1. /\ always' \in [Jobs -> Nat] /\ ever' \in [Jobs -> Nat]
      /\ \A j \in Jobs : always'[j] <= always[j] /\ ever[j] <= ever'[j]
      /\ reading \in Places /\ ~AllFetched =>
           \A j \in Jobs : /\ always'[j] <= Occurrences(reading, j)'
                           /\ Occurrences(reading, j)' <= ever'[j]
  BY HistoryMoves
<1>2. /\ UNCHANGED <<asked, limit, reading, unscanned, page, gathered, fetched, counts, listed>>
      /\ FetchedIDs' = FetchedIDs
      /\ AllFetched' <=> AllFetched
  BY DEF readerVars, FetchedIDs, AllFetched, Gathered
<1>3. always \in [Jobs -> Nat] /\ ever \in [Jobs -> Nat] /\ gathered \in Seq(Jobs)
      /\ counts \in [Queues -> [Places -> Nat]]
  BY DEF ReaderInv, ReaderTypeOK
<1>4. \A j \in Jobs : /\ always[j] \in Nat /\ always'[j] \in Nat /\ ever[j] \in Nat /\ ever'[j] \in Nat
                      /\ (always'[j] > 0 => always[j] > 0) /\ (ever[j] > 0 => ever'[j] > 0)
  BY <1>1, <1>3
<1>5. ReaderTypeOK'
  BY <1>1, <1>2 DEF ReaderInv, ReaderTypeOK
<1>6. IdleInv'
  BY <1>2 DEF ReaderInv, IdleInv
<1>7. Bracket'
  <2>1. \A j \in Elems(gathered) : j \in Jobs
    BY <1>3 DEF Elems
  <2> QED BY <1>1, <1>2, <1>4, <2>1 DEF ReaderInv, Bracket
<1>8. ASSUME asked = "stats" PROVE StatsInv'
  <2>1. StatsInv
    BY DEF ReaderInv
  <2>2. ASSUME reading \in PerQueue, NEW q \in Queues
        PROVE  /\ counts[q][reading] <= Sum(ever', q)
               /\ q \notin unscanned \cup page => Sum(always', q) <= counts[q][reading]
    <3>1. /\ counts[q][reading] <= Sum(ever, q)
          /\ q \notin unscanned \cup page => Sum(always, q) <= counts[q][reading]
      BY <1>8, <2>1, <2>2 DEF StatsInv
    <3>2. counts[q][reading] \in Nat
      BY <1>3, <2>2 DEF PerQueue, Places
    <3>3. /\ Sum(ever, q) \in Nat /\ Sum(ever', q) \in Nat /\ Sum(ever, q) <= Sum(ever', q)
          /\ Sum(always, q) \in Nat /\ Sum(always', q) \in Nat /\ Sum(always', q) <= Sum(always, q)
      BY <1>1, <1>3, SumsOfHistory
    <3> QED BY <3>1, <3>2, <3>3
  <2>3. ASSUME reading \notin PerQueue, NEW q \in Queues
        PROVE  /\ counts[q][reading] <= Sum(Each(FetchedIDs), q)
               /\ Sum(AlwaysIn(FetchedIDs \ succeeded)', q) <= counts[q][reading]
    <3>1. /\ counts[q][reading] <= Sum(Each(FetchedIDs), q)
          /\ Sum(AlwaysIn(FetchedIDs \ succeeded), q) <= counts[q][reading]
      BY <1>8, <2>1, <2>3 DEF StatsInv
    <3>2. counts[q][reading] \in Nat
      BY <1>3, <1>8, <2>1 DEF StatsInv
    <3>3. PICK a \in [Jobs -> Nat], b \in [Jobs -> Nat] :
            /\ a = AlwaysIn(FetchedIDs \ succeeded)' /\ b = AlwaysIn(FetchedIDs \ succeeded)
            /\ \A j \in Jobs : a[j] <= b[j]
      <4>1. /\ AlwaysIn(FetchedIDs \ succeeded)' =
                 [j \in Jobs |-> IF j \in FetchedIDs \ succeeded' THEN always'[j] ELSE 0]
            /\ AlwaysIn(FetchedIDs \ succeeded) =
                 [j \in Jobs |-> IF j \in FetchedIDs \ succeeded THEN always[j] ELSE 0]
        BY <1>2 DEF AlwaysIn
      <4> QED BY <1>1, <1>4, <4>1
    <3>4. Sum(a, q) \in Nat /\ Sum(b, q) \in Nat /\ Sum(a, q) <= Sum(b, q)
      BY <3>3, SumsOfHistory
    <3> QED BY <3>1, <3>2, <3>3, <3>4
  <2>4. (reading \in PerQueue => gathered = <<>>)
        /\ (reading \notin PerQueue => /\ page = {} /\ Distinct(gathered)
                                       /\ \A j \in Jobs : always'[j] > 0 => j \in Elems(gathered))
    BY <1>4, <1>8, <2>1 DEF StatsInv
  <2>5. reading \in Places
        /\ \A i, k \in 1..5 : reading = Kinds[i] /\ i < k => \A q \in Queues : counts[q][Kinds[k]] = 0
    BY <1>8, <2>1 DEF StatsInv
  <2>6. Each(FetchedIDs)' = Each(FetchedIDs)
    BY <1>2 DEF Each
  <2> QED BY <1>2, <2>2, <2>3, <2>4, <2>5, <2>6 DEF StatsInv
<1>9. ListInv'
  <2>1. FetchedIDs \subseteq Jobs
    BY FetchedAreGathered DEF ReaderInv
  <2>2. ListInv
    BY DEF ReaderInv
  <2>3. asked \in DOMAIN StatusPlace /\ reading \in Places =>
          \A j \in FetchedIDs \ succeeded' : always'[j] > 0 => j \in Elems(listed)
    BY <1>4, <2>1, <2>2 DEF ListInv
  <2> QED BY <1>2, <1>4, <2>2, <2>3 DEF ListInv
<1>10. StatsInv'
  <2>1. CASE asked = "stats"
    BY <1>8, <2>1
  <2>2. CASE asked # "stats"
    BY <1>2, <2>2 DEF StatsInv
  <2> QED BY <2>1, <2>2
<1> QED BY <1>5, <1>6, <1>7, <1>9, <1>10 DEF ReaderInv

\* What is known when a call starts on a structure.
LEMMA StartFacts ==
  ASSUME StoreTypeOK, UNCHANGED store, NEW p \in Places, NEW n \in Nat, Start(p, n)
  PROVE  /\ reading' = p /\ fetched' = 0 /\ FetchedIDs' = {}
         /\ unscanned' \subseteq Queues /\ page' \subseteq Queues /\ gathered' \in Seq(Jobs)
         /\ always' \in [Jobs -> Nat] /\ ever' = always'
         /\ \A j \in Jobs : always'[j] = Occurrences(p, j) /\ always'[j] = Occurrences(reading, j)'
         /\ Len(gathered') <= n
         /\ \A j \in Elems(gathered') : ever'[j] > 0
         /\ p \in PerQueue =>
              /\ gathered' = <<>>
              /\ \A j \in Jobs : always'[j] > 0 => QueueOf[j] \in unscanned' \cup page'
         /\ p \notin PerQueue =>
              /\ page' = {}
              /\ Distinct(gathered') \/ n < Cardinality(Jobs)
              /\ Len(gathered') < n \/ n = Cardinality(Jobs) =>
                   \A j \in Jobs : always'[j] > 0 => j \in Elems(gathered')
<1>1. /\ reading' = p /\ fetched' = 0 /\ always' = Census(p) /\ ever' = Census(p)
      /\ \/ /\ p \in PerQueue /\ gathered' = <<>>
            /\ \E passed \in SUBSET Queues : ScanPage(p, Queues, passed)
         \/ p \notin PerQueue /\ ZRange(p, n)
  BY DEF Start
<1>2. FetchedIDs' = {}
  BY <1>1 DEF FetchedIDs
<1>3. /\ always' \in [Jobs -> Nat] /\ ever' = always'
      /\ \A j \in Jobs : always'[j] = Occurrences(p, j)
  BY <1>1, CensusFacts
<1>4. \A j \in Jobs : Occurrences(reading, j)' = Occurrences(p, j)
  <2>1. UNCHANGED <<queue, scheduled, retry, dead, active>>
    BY DEF store
  <2> QED BY <1>1, <2>1 DEF Occurrences, InPlace, InQueue
<1>5. CASE p \in PerQueue
  <2>1. PICK passed \in SUBSET Queues : ScanPage(p, Queues, passed)
    BY <1>1, <1>5
  <2>2. /\ unscanned' = Queues \ passed /\ page' = {q \in passed : KeyExists(p, q)}
        /\ gathered' = <<>>
    BY <1>1, <1>5, <2>1 DEF ScanPage
  <2>3. ASSUME NEW j \in Jobs, always'[j] > 0 PROVE QueueOf[j] \in unscanned' \cup page'
    <3>1. PICK q \in Queues : q = QueueOf[j]
      BY StoreAssumption
    <3>2. KeyExists(p, q)
      BY <1>3, <2>3, <3>1, NoKeyNoIDs
    <3> QED BY <2>2, <3>1, <3>2
  <2>4. /\ unscanned' \subseteq Queues /\ page' \subseteq Queues /\ gathered' \in Seq(Jobs)
        /\ Len(gathered') <= n /\ \A j \in Elems(gathered') : ever'[j] > 0
    BY <2>2 DEF Elems
  <2> QED BY <1>1, <1>2, <1>3, <1>4, <1>5, <2>2, <2>3, <2>4
<1>6. CASE p \notin PerQueue
  <2>1. p \in {"scheduled", "active"} /\ ZRange(p, n)
    BY <1>1, <1>6 DEF Places, PerQueue
  <2>2. PICK s \in Contents(p, Queues) : gathered' = FirstOf(s, n)
    BY <2>1 DEF ZRange
  <2>3. /\ s \in Seq(Jobs) /\ Distinct(s) /\ Len(s) <= Cardinality(Jobs)
        /\ \A j \in Jobs : j \in Elems(s) <=> Occurrences(p, j) > 0
    BY <2>1, SharedContents
  <2>4. /\ gathered' \in Seq(Jobs) /\ Len(gathered') <= n /\ Elems(gathered') \subseteq Elems(s)
        /\ Len(gathered') < n \/ Len(s) <= n => gathered' = s
    BY <2>2, <2>3, FirstOfFacts
  <2>5. ASSUME NEW j \in Elems(gathered') PROVE ever'[j] > 0
    <3>1. j \in Jobs
      BY <2>3, <2>4 DEF Elems
    <3> QED BY <1>3, <2>3, <2>4, <3>1
  <2>6. Len(gathered') < n \/ n = Cardinality(Jobs) =>
          \A j \in Jobs : always'[j] > 0 => j \in Elems(gathered')
    BY <1>3, <2>3, <2>4
  <2>7. Cardinality(Jobs) \in Nat /\ Len(s) \in Nat
    BY <2>3, ListingAssumption, FS_CardinalityType
  <2>8. Distinct(gathered') \/ n < Cardinality(Jobs)
    BY <2>3, <2>4, <2>7
  <2>9. unscanned' = {} /\ page' = {}
    BY <2>1 DEF ZRange
  <2> QED BY <1>1, <1>2, <1>3, <1>4, <1>6, <2>4, <2>5, <2>6, <2>8, <2>9
<1> QED BY <1>5, <1>6

LEMMA StartStatsKeeps ==
  ASSUME StoreTypeOK, UNCHANGED store, ReaderInv, NEW k \in 1..5, NEW n \in Nat,
         Start(Kinds[k], n), Kinds[k] \in PerQueue \/ n = Cardinality(Jobs),
         asked' = "stats", limit' = limit \/ limit' = 0, UNCHANGED <<counts, listed>>,
         \A m \in 1..5 : k <= m => \A q \in Queues : counts[q][Kinds[m]] = 0
  PROVE  ReaderInv'
<1>1. PICK p \in Places : p = Kinds[k]
  BY DEF Kinds, Places
<1>2. /\ reading' = p /\ fetched' = 0 /\ FetchedIDs' = {}
      /\ unscanned' \subseteq Queues /\ page' \subseteq Queues /\ gathered' \in Seq(Jobs)
      /\ always' \in [Jobs -> Nat] /\ ever' = always'
      /\ \A j \in Jobs : always'[j] = Occurrences(p, j) /\ always'[j] = Occurrences(reading, j)'
      /\ \A j \in Elems(gathered') : ever'[j] > 0
      /\ p \in PerQueue =>
           /\ gathered' = <<>>
           /\ \A j \in Jobs : always'[j] > 0 => QueueOf[j] \in unscanned' \cup page'
      /\ p \notin PerQueue =>
           /\ page' = {}
           /\ Distinct(gathered') \/ n < Cardinality(Jobs)
           /\ Len(gathered') < n \/ n = Cardinality(Jobs) =>
                \A j \in Jobs : always'[j] > 0 => j \in Elems(gathered')
  BY <1>1, StartFacts
<1>3. counts \in [Queues -> [Places -> Nat]]
  BY DEF ReaderInv, ReaderTypeOK
<1>4. ReaderTypeOK'
  <2>1. fetched' \in 0..Len(gathered')
    BY <1>2
  <2>2. limit' \in Nat /\ counts' \in [Queues -> [Places -> Nat]] /\ listed' \in Seq(Jobs)
    BY DEF ReaderInv, ReaderTypeOK
  <2> QED BY <1>2, <2>1, <2>2 DEF ReaderTypeOK
<1>5. IdleInv'
  BY <1>2 DEF IdleInv, Places
<1>6. Bracket'
  <2>1. \A j \in Jobs : /\ always'[j] <= Occurrences(reading, j)'
                        /\ Occurrences(reading, j)' <= ever'[j]
    BY <1>2
  <2> QED BY <1>2, <2>1 DEF Bracket
<1>7. ListInv'
  BY DEF ListInv, StatusPlace
<1>8. StatsInv'
  <2>1. \A q \in Queues : counts'[q][p] = 0
    BY <1>1
  <2>2. ASSUME NEW q \in Queues, p \in PerQueue
        PROVE  /\ 0 <= Sum(ever', q)
               /\ q \notin unscanned' \cup page' => Sum(always', q) <= 0
    <3>1. Sum(ever', q) \in Nat
      BY <1>2, SumsOfHistory
    <3>2. ASSUME q \notin unscanned' \cup page' PROVE Sum(always', q) = 0
      <4>1. \A j \in Jobs : always'[j] \in Nat /\ (QueueOf[j] = q => always'[j] = 0)
        BY <1>2, <2>2, <3>2
      <4> QED BY <4>1, QueueSum
    <3> QED BY <3>1, <3>2
  <2>3. ASSUME NEW q \in Queues
        PROVE  /\ 0 <= Sum(Each(FetchedIDs)', q)
               /\ Sum(AlwaysIn(FetchedIDs \ succeeded)', q) <= 0
    <3>1. PICK a, b : /\ a = Each(FetchedIDs)' /\ b = AlwaysIn(FetchedIDs \ succeeded)'
                      /\ \A j \in Jobs : a[j] = 0 /\ b[j] = 0
      <4>1. /\ Each(FetchedIDs)' = [j \in Jobs |-> IF j \in FetchedIDs' THEN 1 ELSE 0]
            /\ AlwaysIn(FetchedIDs \ succeeded)' =
                 [j \in Jobs |-> IF j \in FetchedIDs' \ succeeded' THEN always'[j] ELSE 0]
        BY DEF Each, AlwaysIn
      <4> QED BY <1>2, <4>1
    <3>2. Sum(a, q) = 0 /\ Sum(b, q) = 0
      BY <3>1, QueueSum
    <3> QED BY <3>1, <3>2
  <2>4. \A i, m \in 1..5 : p = Kinds[i] /\ i < m => \A q \in Queues : counts'[q][Kinds[m]] = 0
    <3>1. \A i \in 1..5 : p = Kinds[i] => i = k
      BY <1>1 DEF Kinds
    <3> QED BY <3>1
  <2>5. p \notin PerQueue => /\ page' = {} /\ Distinct(gathered')
                             /\ \A j \in Jobs : always'[j] > 0 => j \in Elems(gathered')
    BY <1>1, <1>2
  <2> QED BY <1>2, <2>1, <2>2, <2>3, <2>4, <2>5 DEF StatsInv
<1> QED BY <1>4, <1>5, <1>6, <1>7, <1>8 DEF ReaderInv

LEMMA StartListingKeeps ==
  ASSUME StoreTypeOK, UNCHANGED store, ReaderInv, NEW status \in DOMAIN StatusPlace,
         NEW n \in Limits, AskJobs(status, n)
  PROVE  ReaderInv'
<1>1. PICK p \in Places : p = StatusPlace[status]
  BY DEF StatusPlace, Places
<1>2. n \in Nat
  BY ListingAssumption
<1>3. /\ asked' = status /\ limit' = n /\ Start(p, n) /\ UNCHANGED <<counts, listed>>
      /\ listed = <<>>
  BY <1>1 DEF AskJobs, ReaderInv, IdleInv
<1>4. /\ reading' = p /\ fetched' = 0 /\ FetchedIDs' = {}
      /\ unscanned' \subseteq Queues /\ page' \subseteq Queues /\ gathered' \in Seq(Jobs)
      /\ always' \in [Jobs -> Nat] /\ ever' = always'
      /\ \A j \in Jobs : always'[j] = Occurrences(p, j) /\ always'[j] = Occurrences(reading, j)'
      /\ Len(gathered') <= n
      /\ \A j \in Elems(gathered') : ever'[j] > 0
      /\ p \in PerQueue =>
           \A j \in Jobs : always'[j] > 0 => QueueOf[j] \in unscanned' \cup page'
      /\ p \notin PerQueue =>
           (Len(gathered') < n => \A j \in Jobs : always'[j] > 0 => j \in Elems(gathered'))
  BY <1>2, <1>3, StartFacts
<1>5. ReaderTypeOK'
  <2>1. fetched' \in 0..Len(gathered')
    BY <1>4
  <2> QED BY <1>2, <1>3, <1>4, <2>1 DEF ReaderInv, ReaderTypeOK
<1>6. IdleInv'
  BY <1>4 DEF IdleInv, Places
<1>7. Bracket'
  <2>1. \A j \in Jobs : /\ always'[j] <= Occurrences(reading, j)'
                        /\ Occurrences(reading, j)' <= ever'[j]
    BY <1>4
  <2> QED BY <1>4, <2>1 DEF Bracket
<1>8. StatsInv'
  BY <1>3 DEF StatsInv, StatusPlace
<1>9. ListInv'
  <2>1. Elems(listed') = {}
    BY <1>3 DEF Elems
  <2> QED BY <1>1, <1>3, <1>4, <2>1 DEF ListInv
<1> QED BY <1>5, <1>6, <1>7, <1>8, <1>9 DEF ReaderInv

\* A round trip of the reader changes nothing in the store.
LEMMA SameOccurrences ==
  ASSUME UNCHANGED store, reading' = reading
  PROVE  \A j \in Jobs : Occurrences(reading, j)' = Occurrences(reading, j)
<1>1. UNCHANGED <<queue, scheduled, retry, dead, active>>
  BY DEF store
<1> QED BY <1>1 DEF Occurrences, InPlace, InQueue

\* As long as something is to be read, the history brackets the structure.
LEMMA BracketHolds ==
  ASSUME ReaderInv, reading \in Places, ~AllFetched, UNCHANGED <<store, reading, always, ever>>
  PROVE  \A j \in Jobs :
           /\ always[j] <= Occurrences(reading, j) /\ Occurrences(reading, j) <= ever[j]
           /\ always'[j] <= Occurrences(reading, j)' /\ Occurrences(reading, j)' <= ever'[j]
           /\ always[j] \in Nat /\ ever[j] \in Nat
<1>1. UNCHANGED store /\ reading' = reading
  OBVIOUS
<1>2. \A j \in Jobs : Occurrences(reading, j)' = Occurrences(reading, j)
  BY <1>1, SameOccurrences
<1> QED BY <1>2 DEF ReaderInv, ReaderTypeOK, Bracket

LEMMA ScanKeeps ==
  ASSUME StoreTypeOK, UNCHANGED store, ReaderInv, UNCHANGED <<always, ever, succeeded>>,
         NEW passed \in SUBSET Queues, Scan(passed)
  PROVE  ReaderInv'
<1>1. /\ reading \in Places /\ reading \in PerQueue /\ ~Gathered /\ ~AllFetched /\ page = {}
      /\ unscanned' = unscanned \ passed /\ page' = {q \in passed : KeyExists(reading, q)}
      /\ UNCHANGED <<asked, limit, reading, gathered, fetched, counts, listed>>
      /\ FetchedIDs' = FetchedIDs
  BY DEF Scan, ScanPage, AllFetched, PerQueue, Places, FetchedIDs
<1>2. \A j \in Jobs :
        /\ always[j] <= Occurrences(reading, j) /\ Occurrences(reading, j) <= ever[j]
        /\ always'[j] <= Occurrences(reading, j)' /\ Occurrences(reading, j)' <= ever'[j]
        /\ always[j] \in Nat /\ ever[j] \in Nat
  BY <1>1, BracketHolds
<1>3. ASSUME NEW q \in Queues, q \notin unscanned' \cup page', q \in unscanned \cup page,
             NEW j \in Jobs, QueueOf[j] = q
      PROVE  always[j] = 0
  <2>1. ~KeyExists(reading, q)
    BY <1>1, <1>3
  <2>2. Occurrences(reading, j) = 0
    BY <1>1, <1>3, <2>1, NoKeyNoIDs
  <2> QED BY <1>2, <2>2
<1>4. ReaderTypeOK'
  BY <1>1 DEF ReaderInv, ReaderTypeOK
<1>5. IdleInv'
  BY <1>1 DEF IdleInv, Places
<1>6. Bracket'
  BY <1>1, <1>2 DEF ReaderInv, Bracket
<1>7. ASSUME asked = "stats" PROVE StatsInv'
  <2>1. ASSUME NEW q \in Queues
        PROVE  /\ counts[q][reading] <= Sum(ever, q)
               /\ q \notin unscanned' \cup page' => Sum(always, q) <= counts[q][reading]
    <3>1. /\ counts[q][reading] <= Sum(ever, q)
          /\ q \notin unscanned \cup page => Sum(always, q) <= counts[q][reading]
      BY <1>1, <1>7 DEF ReaderInv, StatsInv
    <3>2. counts[q][reading] \in Nat
      BY <1>1 DEF ReaderInv, ReaderTypeOK
    <3>3. q \notin unscanned' \cup page' /\ q \in unscanned \cup page => Sum(always, q) = 0
      BY <1>2, <1>3, QueueSum
    <3> QED BY <3>1, <3>2, <3>3
  <2> QED BY <1>1, <1>7, <2>1 DEF ReaderInv, StatsInv
<1>8. StatsInv'
  <2>1. CASE asked # "stats"
    BY <1>1, <2>1 DEF StatsInv
  <2> QED BY <1>7, <2>1
<1>9. ListInv'
  <2>1. ASSUME NEW j \in Jobs, always[j] > 0, QueueOf[j] \in unscanned \cup page
        PROVE  QueueOf[j] \in unscanned' \cup page'
    BY <1>3, <2>1, StoreAssumption
  <2> QED BY <1>1, <2>1 DEF ReaderInv, ListInv
<1> QED BY <1>4, <1>5, <1>6, <1>8, <1>9 DEF ReaderInv

LEMMA CountKeyKeeps ==
  ASSUME StoreTypeOK, UNCHANGED store, ReaderInv, UNCHANGED <<always, ever, succeeded>>,
         NEW q \in Queues, CountKey(q)
  PROVE  ReaderInv'
<1>1. /\ asked = "stats" /\ q \in page
      /\ counts' = [counts EXCEPT ![q][reading] = Size(reading, q)] /\ page' = page \ {q}
      /\ UNCHANGED <<asked, limit, reading, unscanned, gathered, fetched, listed>>
      /\ FetchedIDs' = FetchedIDs
  BY DEF CountKey, FetchedIDs
<1>2. /\ reading \in Places /\ reading \in PerQueue /\ ~AllFetched
      /\ counts \in [Queues -> [Places -> Nat]]
  BY <1>1 DEF ReaderInv, ReaderTypeOK, StatsInv, AllFetched, Gathered, PerQueue
<1>3. \A j \in Jobs :
        /\ always[j] <= Occurrences(reading, j) /\ Occurrences(reading, j) <= ever[j]
        /\ always'[j] <= Occurrences(reading, j)' /\ Occurrences(reading, j)' <= ever'[j]
        /\ always[j] \in Nat /\ ever[j] \in Nat
  BY <1>1, <1>2, BracketHolds
<1>4. PICK n : n = Size(reading, q)
  OBVIOUS
<1>5. n \in Nat /\ Sum(always, q) <= n /\ n <= Sum(ever, q)
  <2>1. PICK f : f = Census(reading)
    OBVIOUS
  <2>2. \A j \in Jobs : f[j] \in Nat /\ always[j] <= f[j] /\ f[j] <= ever[j]
    BY <1>2, <1>3, <2>1, CensusFacts
  <2>3. Sum(f, q) \in Nat
    BY <2>2, QueueSum
  <2>4. Sum(always, q) <= Sum(f, q) /\ Sum(f, q) <= Sum(ever, q)
    BY <1>3, <2>2, QueueSumMonotone
  <2> QED BY <1>4, <2>1, <2>3, <2>4 DEF Size
<1>6. /\ counts' \in [Queues -> [Places -> Nat]] /\ counts'[q][reading] = n
      /\ \A r \in Queues, p \in Places : r # q \/ p # reading => counts'[r][p] = counts[r][p]
  BY <1>1, <1>2, <1>4, <1>5
<1>7. ReaderTypeOK'
  BY <1>1, <1>6 DEF ReaderInv, ReaderTypeOK
<1>8. IdleInv'
  BY <1>1, <1>2 DEF IdleInv, Places
<1>9. Bracket'
  BY <1>1, <1>2, <1>3 DEF ReaderInv, Bracket
<1>10. ListInv'
  BY <1>1 DEF ListInv, StatusPlace
<1>11. StatsInv'
  <2>1. ASSUME NEW r \in Queues
        PROVE  /\ counts'[r][reading] <= Sum(ever, r)
               /\ r \notin unscanned \cup page' => Sum(always, r) <= counts'[r][reading]
    <3>1. CASE r = q
      BY <1>5, <1>6, <3>1
    <3>2. CASE r # q
      BY <1>1, <1>2, <1>6, <3>2 DEF ReaderInv, StatsInv
    <3> QED BY <3>1, <3>2
  <2>2. ASSUME NEW i \in 1..5, NEW k \in 1..5, reading = Kinds[i], i < k, NEW r \in Queues
        PROVE  counts'[r][Kinds[k]] = 0
    <3>1. Kinds[k] # reading /\ Kinds[k] \in Places
      BY <2>2 DEF Kinds, Places
    <3>2. counts[r][Kinds[k]] = 0
      BY <1>1, <2>2 DEF ReaderInv, StatsInv
    <3> QED BY <1>6, <3>1, <3>2
  <2>3. gathered = <<>>
    BY <1>1, <1>2 DEF ReaderInv, StatsInv
  <2> QED BY <1>1, <1>2, <2>1, <2>2, <2>3 DEF StatsInv
<1> QED BY <1>7, <1>8, <1>9, <1>10, <1>11 DEF ReaderInv

LEMMA ConcatElems ==
  ASSUME NEW S, NEW s \in Seq(S), NEW t \in Seq(S)
  PROVE  /\ s \o t \in Seq(S) /\ Len(s \o t) = Len(s) + Len(t)
         /\ \A i \in 1..Len(s) : (s \o t)[i] = s[i]
         /\ Elems(s \o t) = Elems(s) \cup Elems(t)
<1>1. PICK u : u = s \o t
  OBVIOUS
<1>2. /\ u \in Seq(S) /\ Len(u) = Len(s) + Len(t) /\ Len(s) \in Nat /\ Len(t) \in Nat
      /\ \A i \in 1..(Len(s) + Len(t)) : u[i] = IF i <= Len(s) THEN s[i] ELSE t[i - Len(s)]
  BY <1>1, ConcatProperties
<1>3. \A i \in 1..Len(s) : i \in 1..Len(u) /\ u[i] = s[i]
  BY <1>2
<1>4. ASSUME NEW i \in 1..Len(t) PROVE \E k \in 1..Len(u) : u[k] = t[i]
  <2>1. PICK k : k = Len(s) + i
    OBVIOUS
  <2>2. k \in 1..(Len(s) + Len(t)) /\ ~(k <= Len(s)) /\ k - Len(s) = i
    BY <1>2, <2>1
  <2> QED BY <1>2, <2>2
<1>5. \A i \in 1..Len(u) : \/ i \in 1..Len(s) /\ u[i] = s[i]
                           \/ i - Len(s) \in 1..Len(t) /\ u[i] = t[i - Len(s)]
  BY <1>2
<1>6. DOMAIN u = 1..Len(u) /\ DOMAIN s = 1..Len(s) /\ DOMAIN t = 1..Len(t)
  BY <1>2
<1>7. Elems(u) \subseteq Elems(s) \cup Elems(t)
  BY <1>5, <1>6 DEF Elems
<1>8. Elems(s) \subseteq Elems(u)
  BY <1>3, <1>6 DEF Elems
<1>9. Elems(t) \subseteq Elems(u)
  BY <1>4, <1>6 DEF Elems
<1>10. Elems(u) = Elems(s) \cup Elems(t)
  BY <1>7, <1>8, <1>9
<1> QED BY <1>1, <1>2, <1>3, <1>10

LEMMA ListKeyKeeps ==
  ASSUME StoreTypeOK, ShelfInv, UNCHANGED store, ReaderInv, UNCHANGED <<always, ever, succeeded>>,
         NEW q \in Queues, ListKey(q)
  PROVE  ReaderInv'
<1>1. /\ asked \in DOMAIN StatusPlace /\ reading \in PerQueue /\ reading \in Places
      /\ asked # "stats" /\ asked # "none"
      /\ q \in page /\ ~Gathered /\ ~AllFetched /\ page' = page \ {q}
      /\ UNCHANGED <<asked, limit, reading, unscanned, fetched, counts, listed>>
  BY DEF ListKey, StatusPlace, PerQueue, Places, AllFetched
<1>2. PICK s \in Contents(reading, {q}) : gathered' = gathered \o FirstOf(s, Remaining)
  BY DEF ListKey
<1>3. /\ gathered \in Seq(Jobs) /\ limit \in Nat /\ Len(gathered) \in Nat
      /\ fetched \in 0..Len(gathered)
  BY DEF ReaderInv, ReaderTypeOK
<1>4. PICK n \in Nat : n = Remaining /\ n = limit - Len(gathered) /\ Len(gathered) < limit
  BY <1>1, <1>3 DEF Remaining, Gathered
<1>5. /\ s \in Seq(Jobs)
      /\ \A j \in Jobs : j \in Elems(s) <=> QueueOf[j] = q /\ Occurrences(reading, j) > 0
  BY <1>1, KeyContents
<1>6. PICK t \in Seq(Jobs) :
        /\ t = FirstOf(s, n) /\ Len(t) <= n /\ Elems(t) \subseteq Elems(s)
        /\ Len(t) < n => t = s
  BY <1>4, <1>5, FirstOfFacts
<1>7. /\ gathered' \in Seq(Jobs) /\ Len(gathered') = Len(gathered) + Len(t)
      /\ \A i \in 1..Len(gathered) : gathered'[i] = gathered[i]
      /\ Elems(gathered') = Elems(gathered) \cup Elems(t)
  BY <1>2, <1>3, <1>4, <1>6, ConcatElems
<1>8. Len(t) \in Nat /\ Len(gathered') <= limit /\ (Len(gathered') < limit => t = s)
  BY <1>3, <1>4, <1>6, <1>7
<1>9. FetchedIDs' = FetchedIDs
  <2>1. fetched' = fetched /\ \A i \in 1..fetched : gathered'[i] = gathered[i]
    BY <1>1, <1>3, <1>7
  <2> QED BY <2>1 DEF FetchedIDs
<1>10. \A j \in Jobs :
        /\ always[j] <= Occurrences(reading, j) /\ Occurrences(reading, j) <= ever[j]
        /\ always'[j] <= Occurrences(reading, j)' /\ Occurrences(reading, j)' <= ever'[j]
        /\ always[j] \in Nat /\ ever[j] \in Nat
  BY <1>1, BracketHolds
<1>11. \A j \in Jobs : Occurrences(reading, j) \in Nat
  BY <1>1, OccurrencesFacts
<1>12. ReaderTypeOK'
  <2>1. fetched' \in 0..Len(gathered')
    BY <1>1, <1>3, <1>7, <1>8
  <2> QED BY <1>1, <1>7, <2>1 DEF ReaderInv, ReaderTypeOK
<1>13. IdleInv'
  BY <1>1 DEF IdleInv, Places
<1>14. Bracket'
  <2>1. ASSUME NEW j \in Elems(gathered') PROVE ever'[j] > 0
    <3>1. CASE j \in Elems(gathered)
      BY <1>1, <3>1 DEF ReaderInv, Bracket
    <3>2. CASE j \in Elems(t)
      <4>1. j \in Jobs /\ j \in Elems(s)
        <5>1. t \in Seq(Jobs) /\ Elems(t) \subseteq Elems(s)
          BY <1>6
        <5>2. Elems(t) \subseteq Jobs
          BY <5>1 DEF Elems
        <5> QED BY <3>2, <5>1, <5>2
      <4>2. Occurrences(reading, j) > 0
        BY <1>5, <4>1
      <4> QED BY <1>10, <1>11, <4>1, <4>2
    <3> QED BY <1>7, <3>1, <3>2
  <2> QED BY <1>1, <1>10, <2>1 DEF Bracket
<1>15. StatsInv'
  BY <1>1 DEF StatsInv
<1>16. ListInv'
  <2>1. ListInv
    BY DEF ReaderInv
  <2>2. ASSUME Len(gathered') < limit, NEW j \in Jobs, always[j] > 0
        PROVE  j \in Elems(gathered') \/ QueueOf[j] \in unscanned \cup page'
    <3>1. j \in Elems(gathered) \/ QueueOf[j] \in unscanned \cup page
      BY <1>1, <1>4, <2>1, <2>2 DEF ListInv
    <3>2. QueueOf[j] = q => j \in Elems(t)
      BY <1>5, <1>8, <1>10, <1>11, <2>2
    <3> QED BY <1>1, <1>7, <3>1, <3>2
  <2> QED BY <1>1, <1>8, <1>9, <2>1, <2>2 DEF ListInv
<1> QED BY <1>12, <1>13, <1>14, <1>15, <1>16 DEF ReaderInv

LEMMA WrongTypeKeeps ==
  ASSUME ReaderInv, UNCHANGED <<always, ever, succeeded>>, NEW q \in Queues, ListKeyWrongType(q)
  PROVE  ReaderInv'
<1>1. /\ asked = "retry" /\ reading' = "wrongtype" /\ FetchedIDs' = FetchedIDs
      /\ UNCHANGED <<asked, limit, unscanned, page, gathered, fetched, counts, listed>>
  BY DEF ListKeyWrongType, FetchedIDs
<1>2. ReaderTypeOK'
  BY <1>1 DEF ReaderInv, ReaderTypeOK
<1>3. IdleInv' /\ Bracket' /\ StatsInv'
  BY <1>1 DEF IdleInv, Bracket, StatsInv, Places
<1>4. ListInv'
  BY <1>1 DEF ReaderInv, ListInv, StatusPlace, Places
<1> QED BY <1>2, <1>3, <1>4 DEF ReaderInv

LEMMA FinishKeeps ==
  ASSUME ReaderInv, Finish
  PROVE  ReaderInv'
<1>1. /\ asked' = "none" /\ limit' = 0 /\ reading' = "idle"
      /\ unscanned' = {} /\ page' = {}
      /\ gathered' = <<>> /\ fetched' = 0 /\ counts' = Zero /\ listed' = <<>>
      /\ always' = [j \in Jobs |-> 0] /\ ever' = [j \in Jobs |-> 0]
  BY DEF Finish
<1>2. ReaderTypeOK'
  BY <1>1 DEF ReaderTypeOK, Zero
<1>3. IdleInv' /\ Bracket' /\ StatsInv' /\ ListInv'
  BY <1>1 DEF IdleInv, Bracket, StatsInv, ListInv, Places, StatusPlace
<1> QED BY <1>2, <1>3 DEF ReaderInv

\* Two sums over a queue that differ most at one job, if it is of that queue.
LEMMA QueueShift ==
  ASSUME NEW q \in Queues, NEW f \in [Jobs -> Nat], NEW g \in [Jobs -> Nat], NEW x \in Jobs,
         NEW a \in Nat, NEW b \in Nat,
         \A y \in Jobs \ {x} : f[y] <= g[y],
         QueueOf[x] = q => f[x] + a <= g[x] + b,
         QueueOf[x] # q => a <= b
  PROVE  /\ Sum(f, q) \in Nat /\ Sum(g, q) \in Nat
         /\ Sum(f, q) + a <= Sum(g, q) + b
<1>1. PICK S : S = {j \in Jobs : QueueOf[j] = q}
  OBVIOUS
<1>2. IsFiniteSet(S) /\ \A y \in S : f[y] \in Nat /\ g[y] \in Nat
  BY <1>1, QueueFinite
<1>3. /\ Sum(f, q) = SumFunctionOnSet(f, S) /\ Sum(g, q) = SumFunctionOnSet(g, S)
      /\ SumFunctionOnSet(f, S) \in Nat /\ SumFunctionOnSet(g, S) \in Nat
  BY <1>1, <1>2, SumFacts DEF Sum
<1>4. CASE QueueOf[x] = q
  <2>1. x \in S /\ \A y \in S \ {x} : f[y] <= g[y]
    BY <1>1, <1>4
  <2>2. SumFunctionOnSet(f, S) + a <= SumFunctionOnSet(g, S) + b
    BY <1>2, <1>4, <2>1, SumShift
  <2> QED BY <1>3, <2>2
<1>5. CASE QueueOf[x] # q
  <2>1. \A y \in S : f[y] <= g[y]
    BY <1>1, <1>5
  <2>2. SumFunctionOnSet(f, S) <= SumFunctionOnSet(g, S)
    BY <1>2, <2>1, SumMonotone
  <2> QED BY <1>3, <1>5, <2>2
<1> QED BY <1>4, <1>5

\* The next ID, and what its record tells.
LEMMA FetchFacts ==
  ASSUME StoreTypeOK, ShelfInv, UNCHANGED store, ReaderInv, UNCHANGED <<always, ever, succeeded>>, Fetch
  PROVE  \E j \in Jobs :
           /\ j = gathered[fetched + 1] /\ reading \in Places /\ ~AllFetched
           /\ fetched' = fetched + 1 /\ fetched' \in 0..Len(gathered)
           /\ FetchedIDs' = FetchedIDs \cup {j} /\ FetchedIDs \subseteq Jobs
           /\ Distinct(gathered) => j \notin FetchedIDs
           /\ record[j] = NoRecord => always[j] = 0 \/ j \in succeeded
           /\ reading \notin PerQueue => always[j] <= 1
<1>1. /\ Gathered /\ fetched < Len(gathered) /\ fetched' = fetched + 1 /\ gathered' = gathered
  BY DEF Fetch
<1>2. gathered \in Seq(Jobs) /\ fetched \in 0..Len(gathered) /\ Len(gathered) \in Nat
  BY DEF ReaderInv, ReaderTypeOK
<1>3. /\ reading \in Places /\ ~AllFetched /\ fetched + 1 \in 1..Len(gathered)
      /\ reading' = reading
  BY <1>1, <1>2 DEF Gathered, AllFetched, PerQueue, Places, Fetch
<1>4. PICK j \in Jobs : j = gathered[fetched + 1]
  BY <1>2, <1>3
<1>5. FetchedIDs' = FetchedIDs \cup {j}
  <2>1. \A i : i \in 1..fetched' <=> i \in 1..fetched \/ i = fetched + 1
    BY <1>1, <1>2
  <2> QED BY <1>1, <1>4, <2>1 DEF FetchedIDs
<1>6. FetchedIDs \subseteq Jobs
  BY FetchedAreGathered DEF ReaderInv
<1>7. ASSUME Distinct(gathered) PROVE j \notin FetchedIDs
  <2>1. ASSUME NEW i \in 1..fetched PROVE gathered[i] # j
    <3>1. i \in 1..Len(gathered) /\ i # fetched + 1 /\ DOMAIN gathered = 1..Len(gathered)
      BY <1>2
    <3> QED BY <1>3, <1>4, <1>7, <3>1 DEF Distinct
  <2> QED BY <2>1 DEF FetchedIDs
<1>8. /\ always[j] <= Occurrences(reading, j) /\ always[j] \in Nat
  BY <1>3, BracketHolds
<1>9. /\ Occurrences(reading, j) \in Nat
      /\ Occurrences(reading, j) > 0 => Located(j)
      /\ reading \in {"scheduled", "active"} => Occurrences(reading, j) \in {0, 1}
  BY <1>3, OccurrencesFacts
<1>10. record[j] = NoRecord => always[j] = 0 \/ j \in succeeded
  BY <1>8, <1>9 DEF ShelfInv
<1>11. reading \notin PerQueue => always[j] <= 1
  BY <1>3, <1>8, <1>9 DEF PerQueue, Places
<1>12. fetched' \in 0..Len(gathered)
  BY <1>1, <1>2
<1> QED BY <1>1, <1>3, <1>4, <1>5, <1>6, <1>7, <1>10, <1>11, <1>12

LEMMA FetchStats ==
  ASSUME StoreTypeOK, ShelfInv, UNCHANGED store, ReaderInv, UNCHANGED <<always, ever, succeeded>>,
         Fetch, asked = "stats"
  PROVE  StatsInv' /\ counts' \in [Queues -> [Places -> Nat]]
<1>1. PICK j \in Jobs :
        /\ j = gathered[fetched + 1] /\ reading \in Places
        /\ FetchedIDs' = FetchedIDs \cup {j} /\ FetchedIDs \subseteq Jobs
        /\ Distinct(gathered) => j \notin FetchedIDs
        /\ record[j] = NoRecord => always[j] = 0 \/ j \in succeeded
        /\ reading \notin PerQueue => always[j] <= 1
  BY FetchFacts
<1>2. /\ UNCHANGED <<asked, reading, page, gathered>>
      /\ \/ record[j] = NoRecord /\ counts' = counts
         \/ /\ record[j] # NoRecord
            /\ counts' = [counts EXCEPT ![QueueOf[j]][reading] = @ + 1]
  BY <1>1 DEF Fetch
<1>3. reading \notin PerQueue
  BY DEF ReaderInv, ReaderTypeOK, StatsInv, Fetch
<1>4. /\ page = {} /\ Distinct(gathered) /\ j \notin FetchedIDs /\ always[j] <= 1
      /\ \A k \in Jobs : always[k] > 0 => k \in Elems(gathered)
  BY <1>1, <1>3 DEF ReaderInv, StatsInv
<1>5. PICK r \in Queues : r = QueueOf[j]
  BY StoreAssumption
<1>6. counts \in [Queues -> [Places -> Nat]] /\ always \in [Jobs -> Nat]
  BY DEF ReaderInv, ReaderTypeOK
<1>7. PICK d \in {0, 1} : /\ d = IF record[j] = NoRecord THEN 0 ELSE 1
                          /\ d = 0 => always[j] = 0 \/ j \in succeeded
  BY <1>1
<1>8. /\ counts' \in [Queues -> [Places -> Nat]]
      /\ counts'[r][reading] = counts[r][reading] + d
      /\ \A q \in Queues, p \in Places : q # r \/ p # reading => counts'[q][p] = counts[q][p]
  <2>1. CASE record[j] = NoRecord
    BY <1>1, <1>2, <1>6, <1>7, <2>1
  <2>2. CASE record[j] # NoRecord
    <3>1. d = 1 /\ counts' = [counts EXCEPT ![r][reading] = @ + 1]
      BY <1>2, <1>5, <1>7, <2>2
    <3> QED BY <1>1, <1>6, <3>1
  <2> QED BY <2>1, <2>2
<1>9. ASSUME NEW q \in Queues
      PROVE  /\ counts'[q][reading] <= Sum(Each(FetchedIDs)', q)
             /\ Sum(AlwaysIn(FetchedIDs \ succeeded)', q) <= counts'[q][reading]
  <2>1. /\ counts[q][reading] <= Sum(Each(FetchedIDs), q)
        /\ Sum(AlwaysIn(FetchedIDs \ succeeded), q) <= counts[q][reading]
        /\ counts[q][reading] \in Nat
    BY <1>1, <1>3, <1>6 DEF ReaderInv, StatsInv
  <2>2. PICK e \in {0, 1} : /\ e = IF q = r THEN d ELSE 0
                            /\ counts'[q][reading] = counts[q][reading] + e
    BY <1>1, <1>7, <1>8, <2>1
  <2>3. PICK f \in [Jobs -> Nat], g \in [Jobs -> Nat] :
          /\ f = Each(FetchedIDs) /\ g = Each(FetchedIDs)'
          /\ f[j] = 0 /\ g[j] = 1 /\ \A k \in Jobs \ {j} : f[k] <= g[k]
    <3>1. /\ Each(FetchedIDs) = [k \in Jobs |-> IF k \in FetchedIDs THEN 1 ELSE 0]
          /\ Each(FetchedIDs)' = [k \in Jobs |-> IF k \in FetchedIDs' THEN 1 ELSE 0]
      BY DEF Each
    <3> QED BY <1>1, <1>4, <3>1
  <2>4. PICK b \in [Jobs -> Nat], a \in [Jobs -> Nat] :
          /\ b = AlwaysIn(FetchedIDs \ succeeded) /\ a = AlwaysIn(FetchedIDs \ succeeded)'
          /\ a[j] <= b[j] + d /\ \A k \in Jobs \ {j} : a[k] <= b[k]
    <3>1. /\ AlwaysIn(FetchedIDs \ succeeded) =
               [k \in Jobs |-> IF k \in FetchedIDs \ succeeded THEN always[k] ELSE 0]
          /\ AlwaysIn(FetchedIDs \ succeeded)' =
               [k \in Jobs |-> IF k \in FetchedIDs' \ succeeded THEN always[k] ELSE 0]
      BY DEF AlwaysIn
    <3> QED BY <1>1, <1>4, <1>6, <1>7, <3>1
  <2>5. Sum(f, q) \in Nat /\ Sum(g, q) \in Nat /\ Sum(f, q) + e <= Sum(g, q) + 0
    <3>1. /\ QueueOf[j] = q => f[j] + e <= g[j] + 0
          /\ QueueOf[j] # q => e <= 0
      BY <1>5, <2>2, <2>3
    <3>2. \A k \in Jobs \ {j} : f[k] <= g[k]
      BY <2>3
    <3>3. e \in Nat /\ 0 \in Nat
      OBVIOUS
    <3> QED BY ONLY <3>1, <3>2, <3>3, f \in [Jobs -> Nat], g \in [Jobs -> Nat], j \in Jobs,
                    q \in Queues, QueueShift
  <2>6. Sum(a, q) \in Nat /\ Sum(b, q) \in Nat /\ Sum(a, q) + 0 <= Sum(b, q) + e
    <3>1. /\ QueueOf[j] = q => a[j] + 0 <= b[j] + e
          /\ QueueOf[j] # q => 0 <= e
      <4>1. a[j] \in Nat /\ b[j] \in Nat /\ a[j] <= b[j] + d
        BY <2>4
      <4>2. QueueOf[j] = q => e = d
        BY <1>5, <2>2
      <4> QED BY <4>1, <4>2
    <3>2. \A k \in Jobs \ {j} : a[k] <= b[k]
      BY <2>4
    <3>3. e \in Nat /\ 0 \in Nat
      OBVIOUS
    <3> QED BY ONLY <3>1, <3>2, <3>3, a \in [Jobs -> Nat], b \in [Jobs -> Nat], j \in Jobs,
                    q \in Queues, QueueShift
  <2>7. counts'[q][reading] <= Sum(g, q)
    <3>1. counts[q][reading] <= Sum(f, q)
      BY <2>1, <2>3
    <3> QED BY <2>1, <2>2, <2>5, <3>1
  <2>8. Sum(a, q) <= counts'[q][reading]
    <3>1. Sum(b, q) <= counts[q][reading]
      BY <2>1, <2>4
    <3> QED BY <2>1, <2>2, <2>6, <3>1
  <2> QED BY <2>3, <2>4, <2>7, <2>8
<1>10. ASSUME NEW i \in 1..5, NEW k \in 1..5, reading = Kinds[i], i < k, NEW q \in Queues
       PROVE  counts'[q][Kinds[k]] = 0
  <2>1. Kinds[k] # reading /\ Kinds[k] \in Places
    BY <1>10 DEF Kinds, Places
  <2>2. counts[q][Kinds[k]] = 0
    BY <1>10 DEF ReaderInv, StatsInv
  <2> QED BY <1>8, <2>1, <2>2
<1> QED BY <1>1, <1>2, <1>3, <1>4, <1>8, <1>9, <1>10 DEF StatsInv

LEMMA FetchKeeps ==
  ASSUME StoreTypeOK, ShelfInv, UNCHANGED store, ReaderInv, UNCHANGED <<always, ever, succeeded>>, Fetch
  PROVE  ReaderInv'
<1>1. PICK j \in Jobs :
        /\ j = gathered[fetched + 1] /\ reading \in Places /\ ~AllFetched
        /\ fetched' = fetched + 1 /\ fetched' \in 0..Len(gathered)
        /\ FetchedIDs' = FetchedIDs \cup {j} /\ FetchedIDs \subseteq Jobs
        /\ record[j] = NoRecord => always[j] = 0 \/ j \in succeeded
  BY FetchFacts
<1>2. UNCHANGED <<asked, limit, reading, unscanned, page, gathered>>
  BY DEF Fetch
<1>3. listed \in Seq(Jobs) /\ counts \in [Queues -> [Places -> Nat]] /\ always \in [Jobs -> Nat]
  BY DEF ReaderInv, ReaderTypeOK
<1>4. \/ record[j] = NoRecord /\ listed' = listed /\ counts' = counts
      \/ asked = "stats" /\ listed' = listed
      \/ record[j] # NoRecord /\ asked # "stats" /\ listed' = Append(listed, j) /\ counts' = counts
  BY <1>1 DEF Fetch
<1>5. Append(listed, j) \in Seq(Jobs) /\ Elems(Append(listed, j)) = Elems(listed) \cup {j}
  BY <1>3, AppendElems
<1>6. asked = "stats" => StatsInv' /\ counts' \in [Queues -> [Places -> Nat]]
  BY FetchStats
<1>7. StatsInv' /\ counts' \in [Queues -> [Places -> Nat]] /\ listed' \in Seq(Jobs)
  <2>1. CASE asked = "stats"
    BY <1>3, <1>4, <1>5, <1>6, <2>1
  <2>2. CASE asked # "stats"
    BY <1>2, <1>3, <1>4, <1>5, <2>2 DEF StatsInv
  <2> QED BY <2>1, <2>2
<1>8. ReaderTypeOK'
  BY <1>1, <1>2, <1>7 DEF ReaderInv, ReaderTypeOK
<1>9. IdleInv'
  BY <1>1, <1>2 DEF IdleInv, Places
<1>10. Bracket'
  <2>1. \A k \in Jobs : /\ always'[k] <= Occurrences(reading, k)' /\ Occurrences(reading, k)' <= ever'[k]
    BY <1>1, <1>2, BracketHolds
  <2> QED BY <1>1, <1>2, <2>1 DEF ReaderInv, Bracket
<1>11. ASSUME asked \in DOMAIN StatusPlace PROVE ListInv'
  <2>1. asked # "stats" /\ ListInv
    BY <1>11 DEF StatusPlace, ReaderInv
  <2>2. Elems(listed') \subseteq FetchedIDs'
    BY <1>1, <1>4, <1>5, <1>11, <2>1 DEF ListInv
  <2>3. ASSUME NEW k \in FetchedIDs' \ succeeded, always[k] > 0 PROVE k \in Elems(listed')
    <3>1. Elems(listed) \subseteq Elems(listed')
      BY <1>4, <1>5
    <3>2. CASE k = j
      <4>1. record[j] # NoRecord
        BY <1>1, <1>3, <2>3, <3>2
      <4>2. listed' = Append(listed, j)
        BY <1>4, <2>1, <4>1
      <4> QED BY <1>5, <3>2, <4>2
    <3>3. CASE k \in FetchedIDs
      BY <1>1, <1>11, <2>1, <2>3, <3>1, <3>3 DEF ListInv
    <3> QED BY <1>1, <2>3, <3>2, <3>3
  <2> QED BY <1>1, <1>2, <1>11, <2>1, <2>2, <2>3 DEF ListInv
<1>12. ListInv'
  <2>1. CASE asked \notin DOMAIN StatusPlace
    BY <1>2, <2>1 DEF ListInv
  <2> QED BY <1>11, <2>1
<1> QED BY <1>7, <1>8, <1>9, <1>10, <1>12 DEF ReaderInv

-----------------------------------------------------------------------------
(* The calls                                                               *)

LEMMA ReaderStep ==
  ASSUME StoreTypeOK, ShelfInv, ReaderInv, UNCHANGED vars, ReaderNext
  PROVE  ReaderInv'
<1>1. UNCHANGED store /\ UNCHANGED succeeded
  BY DEF vars, history
<1>2. CASE AskStats
  <2>1. /\ Start("queue", 0) /\ asked' = "stats" /\ limit' = 0 /\ UNCHANGED <<counts, listed>>
        /\ counts = Zero
    BY <1>2 DEF AskStats, ReaderInv, IdleInv
  <2>2. 1 \in 1..5 /\ Kinds[1] = "queue" /\ Kinds[1] \in PerQueue
    BY DEF Kinds, PerQueue
  <2>3. \A m \in 1..5 : 1 <= m => \A q \in Queues : counts[q][Kinds[m]] = 0
    BY <2>1 DEF Zero, Kinds, Places
  <2> QED BY <1>1, <2>1, <2>2, <2>3, StartStatsKeeps
<1>3. CASE \E status \in DOMAIN StatusPlace, n \in Limits : AskJobs(status, n)
  BY <1>1, <1>3, StartListingKeeps
<1>4. CASE \E i \in 1..4 : NextKind(i)
  <2>1. PICK i \in 1..4 : NextKind(i)
    BY <1>4
  <2>2. PICK k \in 1..5 : k = i + 1
    OBVIOUS
  <2>3. PICK n \in Nat : n = Cardinality(Jobs)
    BY ListingAssumption, FS_CardinalityType
  <2>4. /\ asked = "stats" /\ reading = Kinds[i] /\ Start(Kinds[k], n)
        /\ asked' = "stats" /\ limit' = limit /\ UNCHANGED <<counts, listed>>
    BY <2>1, <2>2, <2>3 DEF NextKind
  <2>5. ASSUME NEW m \in 1..5, k <= m, NEW q \in Queues PROVE counts[q][Kinds[m]] = 0
    <3>1. i \in 1..5 /\ i < m
      BY <2>2, <2>5
    <3> QED BY <2>4, <3>1 DEF ReaderInv, StatsInv
  <2> QED BY <1>1, <2>3, <2>4, <2>5, StartStatsKeeps
<1>5. CASE Finish
  BY <1>5, FinishKeeps
<1>6. ASSUME UNCHANGED <<always, ever>>,
             \/ \E passed \in SUBSET Queues : Scan(passed)
             \/ \E q \in Queues : CountKey(q) \/ ListKey(q) \/ ListKeyWrongType(q)
             \/ Fetch
      PROVE  ReaderInv'
  <2>1. UNCHANGED <<always, ever, succeeded>>
    BY <1>1, <1>6
  <2>2. CASE \E passed \in SUBSET Queues : Scan(passed)
    BY <1>1, <2>1, <2>2, ScanKeeps
  <2>3. CASE \E q \in Queues : CountKey(q)
    BY <1>1, <2>1, <2>3, CountKeyKeeps
  <2>4. CASE \E q \in Queues : ListKey(q)
    BY <1>1, <2>1, <2>4, ListKeyKeeps
  <2>5. CASE \E q \in Queues : ListKeyWrongType(q)
    BY <2>1, <2>5, WrongTypeKeeps
  <2>6. CASE Fetch
    BY <1>1, <2>1, <2>6, FetchKeeps
  <2> QED BY <1>6, <2>2, <2>3, <2>4, <2>5, <2>6
<1> QED BY <1>2, <1>3, <1>4, <1>5, <1>6 DEF ReaderNext

LEMMA InitListingInv == Init /\ ReaderInit => ListingInv
<1> SUFFICES ASSUME Init, ReaderInit PROVE ListingInv
  OBVIOUS
<1>1. KeepInv
  BY InitKeepInv
<1>2. ShelfInv
  <2>1. \A q \in Queues : Elems(queue[q]) = {}
    <3>1. \A q \in Queues : queue[q] = <<>>
      BY DEF Init, StoreInit
    <3>2. Elems(<<>>) = {}
      BY DEF Elems
    <3> QED BY <3>1, <3>2
  <2>2. \A j \in Jobs : ~InQueue(j)
    <3>1. \A j \in Jobs : InQueue(j) <=> j \in Elems(queue[QueueOf[j]])
      BY DEF InQueue, Elems
    <3>2. \A j \in Jobs : QueueOf[j] \in Queues
      BY StoreAssumption
    <3> QED BY <2>1, <3>1, <3>2
  <2> QED BY <2>1, <2>2 DEF Init, StoreInit, ShelfInv, Located
<1>3. ReaderTypeOK
  BY DEF ReaderInit, ReaderTypeOK, Zero
<1>4. IdleInv /\ Bracket /\ StatsInv /\ ListInv
  BY DEF ReaderInit, IdleInv, Bracket, StatsInv, ListInv, Places, StatusPlace
<1> QED BY <1>1, <1>2, <1>3, <1>4 DEF ListingInv, ReaderInv

LEMMA NextListingInv == ListingInv /\ [ListingNext]_allVars => ListingInv'
<1> SUFFICES ASSUME ListingInv, [ListingNext]_allVars PROVE ListingInv'
  OBVIOUS
<1>1. KeepInv /\ ShelfInv /\ ReaderInv /\ StoreTypeOK
  BY DEF ListingInv, KeepInv, TypeOK
<1>2. ASSUME KeepInv', ShelfInv', ReaderInv' PROVE ListingInv'
  BY <1>2 DEF ListingInv
<1>3. CASE ResendNext /\ UNCHANGED readerVars /\ Watch
  <2>1. KeepInv'
    BY <1>1, <1>3, NextKeepInv DEF FaultNext
  <2>2. ShelfInv' /\ succeeded \subseteq succeeded'
    BY <1>1, <1>3, NextShelf
  <2>3. StoreTypeOK'
    BY <2>1 DEF KeepInv, TypeOK
  <2>4. ReaderInv'
    BY <1>1, <1>3, <2>2, <2>3, WatchKeeps
  <2> QED BY <1>2, <2>1, <2>2, <2>4
<1>4. ASSUME UNCHANGED vars, ReaderInv' PROVE ListingInv'
  <2>1. KeepInv'
    BY <1>1, <1>4, NextKeepInv
  <2>2. UNCHANGED <<store, succeeded>>
    BY <1>4 DEF vars, history
  <2>3. ShelfInv'
    BY <1>1, <2>2, SameShelf
  <2> QED BY <1>2, <1>4, <2>1, <2>3
<1>5. CASE ReaderNext /\ UNCHANGED vars
  BY <1>1, <1>4, <1>5, ReaderStep
<1>6. CASE UNCHANGED allVars
  <2>1. UNCHANGED vars /\ UNCHANGED readerVars /\ UNCHANGED <<always, ever>>
    BY <1>6 DEF allVars
  <2>2. UNCHANGED <<store, succeeded, asked, limit, reading, unscanned, page, gathered, fetched,
                    counts, listed, always, ever>>
    BY <2>1 DEF vars, history, readerVars
  <2>3. ReaderTypeOK' /\ IdleInv'
    BY <1>1, <2>2 DEF ReaderInv, ReaderTypeOK, IdleInv
  <2>4. Bracket'
    <3>1. \A j \in Jobs : Occurrences(reading, j)' = Occurrences(reading, j)
      BY <2>2, SameOccurrences
    <3> QED BY <1>1, <2>2, <3>1 DEF ReaderInv, Bracket, AllFetched, Gathered
  <2>5. FetchedIDs' = FetchedIDs /\ Each(FetchedIDs)' = Each(FetchedIDs)
        /\ AlwaysIn(FetchedIDs \ succeeded)' = AlwaysIn(FetchedIDs \ succeeded)
    BY <2>2 DEF FetchedIDs, Each, AlwaysIn
  <2>6. StatsInv'
    BY <1>1, <2>2, <2>5 DEF ReaderInv, StatsInv
  <2>7. ListInv'
    BY <1>1, <2>2, <2>5 DEF ReaderInv, ListInv
  <2> QED BY <1>4, <2>1, <2>3, <2>4, <2>6, <2>7 DEF ReaderInv
<1> QED BY <1>3, <1>5, <1>6 DEF ListingNext

LEMMA ListingInvariance == ListingSpec => []ListingInv
BY InitListingInv, NextListingInv, PTL DEF ListingSpec

LEMMA StatsOfInv ==
  ASSUME ListingInv
  PROVE  StatsBracketed
<1> SUFFICES ASSUME ColumnReady, NEW q \in Queues
             PROVE  /\ Sum([j \in Jobs |-> IF j \in succeeded THEN 0 ELSE always[j]], q)
                         <= counts[q][reading]
                    /\ counts[q][reading] <= Sum(ever, q)
  BY DEF StatsBracketed
<1>1. /\ asked = "stats" /\ AllFetched /\ reading \in Places /\ Gathered /\ fetched = Len(gathered)
  BY DEF ColumnReady, ListingInv, ReaderInv, StatsInv, AllFetched
<1>2. /\ always \in [Jobs -> Nat] /\ ever \in [Jobs -> Nat] /\ counts[q][reading] \in Nat
      /\ gathered \in Seq(Jobs)
  BY <1>1 DEF ListingInv, ReaderInv, ReaderTypeOK
<1>3. PICK f \in [Jobs -> Nat] : f = [j \in Jobs |-> IF j \in succeeded THEN 0 ELSE always[j]]
  BY <1>2
<1>4. CASE reading \in PerQueue
  <2>1. unscanned = {} /\ page = {}
    BY <1>1, <1>4 DEF Gathered, PerQueue
  <2>2. counts[q][reading] <= Sum(ever, q) /\ Sum(always, q) <= counts[q][reading]
    BY <1>1, <1>4, <2>1 DEF ListingInv, ReaderInv, StatsInv
  <2>3. ASSUME NEW j \in Jobs PROVE f[j] <= always[j]
    <3>1. always[j] \in Nat /\ f[j] = IF j \in succeeded THEN 0 ELSE always[j]
      BY <1>2, <1>3
    <3> QED BY <3>1
  <2>4. Sum(f, q) \in Nat /\ Sum(always, q) \in Nat /\ Sum(f, q) <= Sum(always, q)
    BY <1>2, <2>3, SumsOfHistory
  <2> QED BY <1>2, <1>3, <2>2, <2>4
<1>5. CASE reading \notin PerQueue
  <2>1. FetchedIDs = Elems(gathered)
    <3>1. DOMAIN gathered = 1..fetched
      BY <1>1, <1>2
    <3> QED BY <3>1 DEF FetchedIDs, Elems
  <2>2. /\ \A j \in Jobs : always[j] > 0 => j \in Elems(gathered)
        /\ counts[q][reading] <= Sum(Each(FetchedIDs), q)
        /\ Sum(AlwaysIn(FetchedIDs \ succeeded), q) <= counts[q][reading]
    BY <1>1, <1>5 DEF ListingInv, ReaderInv, StatsInv
  <2>3. \A j \in Elems(gathered) : ever[j] > 0
    BY <1>1 DEF ListingInv, ReaderInv, Bracket
  <2>4. PICK a \in [Jobs -> Nat] : a = AlwaysIn(FetchedIDs \ succeeded) /\ \A j \in Jobs : f[j] <= a[j]
    <3>1. PICK a : a = AlwaysIn(FetchedIDs \ succeeded)
      OBVIOUS
    <3>2. a = [j \in Jobs |-> IF j \in Elems(gathered) \ succeeded THEN always[j] ELSE 0]
      BY <2>1, <3>1 DEF AlwaysIn
    <3>3. a \in [Jobs -> Nat] /\ \A j \in Jobs : f[j] <= a[j]
      BY <1>2, <1>3, <2>2, <3>2
    <3> QED BY <3>1, <3>3
  <2>5. PICK e \in [Jobs -> Nat] : e = Each(FetchedIDs) /\ \A j \in Jobs : e[j] <= ever[j]
    <3>1. PICK e : e = Each(FetchedIDs)
      OBVIOUS
    <3>2. e = [j \in Jobs |-> IF j \in Elems(gathered) THEN 1 ELSE 0]
      BY <2>1, <3>1 DEF Each
    <3>3. e \in [Jobs -> Nat] /\ \A j \in Jobs : e[j] <= ever[j]
      BY <1>2, <2>3, <3>2
    <3> QED BY <3>1, <3>3
  <2>6. Sum(f, q) \in Nat /\ Sum(a, q) \in Nat /\ Sum(f, q) <= Sum(a, q)
    BY <2>4, SumsOfHistory
  <2>7. Sum(e, q) \in Nat /\ Sum(ever, q) \in Nat /\ Sum(e, q) <= Sum(ever, q)
    BY <1>2, <2>5, SumsOfHistory
  <2>8. Sum(f, q) <= counts[q][reading]
    <3>1. Sum(a, q) <= counts[q][reading] /\ counts[q][reading] \in Nat
      BY <1>2, <2>2, <2>4
    <3> QED BY <2>6, <3>1
  <2>9. counts[q][reading] <= Sum(ever, q)
    <3>1. counts[q][reading] <= Sum(e, q) /\ counts[q][reading] \in Nat
      BY <1>2, <2>2, <2>5
    <3> QED BY <2>7, <3>1
  <2> QED BY <1>3, <2>8, <2>9
<1> QED BY <1>4, <1>5

LEMMA ListingOfInv ==
  ASSUME ListingInv
  PROVE  ListingFaithful
<1> SUFFICES ASSUME ListingReady
             PROVE  /\ Len(gathered) <= limit
                    /\ \A j \in ToSet(listed) : ever[j] > 0
                    /\ Len(gathered) < limit =>
                         \A j \in Jobs \ succeeded : always[j] > 0 => j \in ToSet(listed)
  BY DEF ListingFaithful
<1>1. /\ asked \in DOMAIN StatusPlace /\ asked # "stats" /\ Gathered /\ fetched = Len(gathered)
      /\ reading \in Places
  BY DEF ListingReady, AllFetched, Gathered, StatusPlace, PerQueue, Places
<1>2. gathered \in Seq(Jobs) /\ limit \in Nat /\ Len(gathered) \in Nat
  BY DEF ListingInv, ReaderInv, ReaderTypeOK
<1>3. FetchedIDs = Elems(gathered)
  <2>1. DOMAIN gathered = 1..fetched
    BY <1>1, <1>2
  <2> QED BY <2>1 DEF FetchedIDs, Elems
<1>4. ToSet(listed) = Elems(listed)
  BY DEF ToSet, Elems
<1>5. /\ Len(gathered) <= limit /\ Elems(listed) \subseteq FetchedIDs
      /\ \A j \in FetchedIDs \ succeeded : always[j] > 0 => j \in Elems(listed)
      /\ Len(gathered) < limit =>
           \A j \in Jobs : always[j] > 0 =>
             j \in Elems(gathered) \/ (reading \in PerQueue /\ QueueOf[j] \in unscanned \cup page)
  BY <1>1 DEF ListingInv, ReaderInv, ListInv
<1>6. \A j \in Elems(gathered) : ever[j] > 0
  BY <1>1 DEF ListingInv, ReaderInv, Bracket
<1>7. Len(gathered) < limit /\ reading \in PerQueue => unscanned = {} /\ page = {}
  BY <1>1, <1>2 DEF Gathered, PerQueue
<1> QED BY <1>3, <1>4, <1>5, <1>6, <1>7

\* At-least-once delivery while the dashboard reads along: its reader changes
\* nothing, and what is sent again loses no job.
THEOREM AtLeastOnceWhileListing == ListingSpec => []NoJobLost
<1>1. ListingNext => FaultNext \/ UNCHANGED vars
  BY DEF ListingNext, FaultNext
<1>2. UNCHANGED allVars => UNCHANGED vars
  BY DEF allVars
<1>3. KeepInv /\ [ListingNext]_allVars => KeepInv'
  BY <1>1, <1>2, NextKeepInv
<1>4. KeepInv => NoJobLost
  BY DEF KeepInv
<1> QED BY <1>3, <1>4, InitKeepInv, PTL DEF ListingSpec

\* GetQueueStats is never far off, with any number of jobs and queues: every
\* column of its answer lies between what was in the structure throughout and
\* what was there at some time while the call read it, although the store
\* changes between its round trips and SCAN may return a key twice.
THEOREM StatsNeverFarOff == ListingSpec => []StatsBracketed
BY ListingInvariance, StatsOfInv, PTL

\* GetJobsByStatus answers with at most limit jobs, only with jobs that were in
\* the structure during the call, and, when limit cuts nothing off, with every
\* unfinished job that was there throughout.
THEOREM ListingsFaithful == ListingSpec => []ListingFaithful
BY ListingInvariance, ListingOfInv, PTL
=============================================================================
