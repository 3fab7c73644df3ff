--------------------------- MODULE RedisListings ---------------------------
(***************************************************************************)
(* The dashboard's read-only calls on a Redis broker at work: GetQueueStats*)
(* and GetJobsByStatus (internal/broker/redis.go), as handleGetQueues and  *)
(* handleListJobs call them.  Neither is atomic.  Both walk the per-queue  *)
(* keys with SCAN, read each key that SCAN returned one round trip later,  *)
(* and fetch the records of shared sets and of listed IDs one at a time,   *)
(* while jobs move underneath.                                             *)
(*                                                                         *)
(* One reader is enough: readers change nothing, so they cannot see each   *)
(* other.  "completed" is not modelled: it answers with an empty list and  *)
(* without a round trip.                                                   *)
(***************************************************************************)
EXTENDS RedisBroker, SequencesExt

CONSTANTS
  Limits,          \* the limit argument of GetJobsByStatus
  WatchedResends,  \* bound: re-sent commands up to the end of a call
  WatchedBusy      \* bound: consumers at work during a call

ASSUME ListingAssumption ==
  /\ Limits \subseteq Nat \ {0}
  /\ {WatchedResends, WatchedBusy} \subseteq Nat
  /\ IsFiniteSet(Jobs)

VARIABLES
  asked, limit,        \* the call: "stats" or a status, and its limit
  reading,             \* the structure being read, "idle", or "wrongtype"
  unscanned, page,     \* queues SCAN has yet to pass, keys it has returned
  gathered, fetched,   \* IDs listed so far, how many records were fetched
  counts, listed,      \* the answer: QueueStats, or the jobs
  always, ever         \* history: how often each ID was in the structure at
                       \* least and at most, since the call started on it

readerVars == <<asked, limit, reading, unscanned, page, gathered, fetched, counts, listed>>
allVars == <<vars, readerVars, always, ever>>

PerQueue == {"queue", "retry", "dead"}
StatusPlace == [pending |-> "queue", retry |-> "retry", dead |-> "dead", active |-> "active"]

\* How often an ID is in a structure: lists may hold it more than once.
Occurrences(p, j) ==
  CASE p = "queue" -> Cardinality({i \in DOMAIN queue[QueueOf[j]] : queue[QueueOf[j]][i] = j})
    [] p = "dead" -> dead[j]
    [] p \in {"retry", "scheduled", "active"} -> IF InPlace(p, j) THEN 1 ELSE 0

Census(p) == [j \in Jobs |-> Occurrences(p, j)]
Sum(census, q) == SumFunctionOnSet(census, {j \in Jobs : QueueOf[j] = q})
Size(p, q) == Sum(Census(p), q)

Zero == [q \in Queues |-> [p \in Places |-> 0]]

ReaderInit ==
  /\ asked = "none" /\ limit = 0 /\ reading = "idle"
  /\ unscanned = {} /\ page = {}
  /\ gathered = <<>> /\ fetched = 0 /\ counts = Zero /\ listed = <<>>
  /\ always = [j \in Jobs |-> 0] /\ ever = [j \in Jobs |-> 0]

-----------------------------------------------------------------------------
(* Round trips of a call.  What happens locally between two of them is part *)
(* of the second.                                                          *)

KeyExists(p, q) == Size(p, q) > 0

\* One SCAN call: it passes some queues, those it had passed before possibly
\* again, and returns the keys that exist at this moment.
ScanPage(p, left, passed) ==
  /\ passed \cap left # {}
  /\ unscanned' = left \ passed
  /\ page' = {q \in passed : KeyExists(p, q)}

\* What LRANGE or ZRANGE may answer.  LRANGE starts with the latest push; of
\* the dead lists and the sorted sets the model keeps no order.
Contents(p, inQueues) ==
  LET ours == {j \in Jobs : QueueOf[j] \in inQueues}
      size == SumFunctionOnSet(Census(p), ours)
  IN  IF p = "queue" THEN {Reverse(queue[q]) : q \in inQueues}
      ELSE {s \in [1..size -> ours] :
              \A j \in ours : Cardinality({i \in 1..size : s[i] = j}) = Occurrences(p, j)}

FirstOf(s, n) == SubSeq(s, 1, Min({n, Len(s)}))

\* ZRANGE of a shared sorted set.
ZRange(p, n) ==
  /\ \E s \in Contents(p, Queues) : gathered' = FirstOf(s, n)
  /\ unscanned' = {} /\ page' = {}

\* A call starts on a structure: with a first SCAN, or with ZRANGE.
Start(p, n) ==
  /\ reading' = p
  /\ \/ /\ p \in PerQueue
        /\ \E passed \in SUBSET Queues : ScanPage(p, Queues, passed)
        /\ gathered' = <<>>
     \/ p \notin PerQueue /\ ZRange(p, n)
  /\ fetched' = 0
  /\ always' = Census(p) /\ ever' = Census(p)

\* handleGetQueues and GetQueueStats.
AskStats ==
  /\ reading = "idle"
  /\ asked' = "stats" /\ limit' = 0
  /\ Start("queue", 0)
  /\ UNCHANGED <<counts, listed>>

\* handleListJobs, which passes on positive limits only, and GetJobsByStatus.
AskJobs(status, n) ==
  /\ reading = "idle"
  /\ asked' = status /\ limit' = n
  /\ Start(StatusPlace[status], n)
  /\ UNCHANGED <<counts, listed>>

\* Mutant: what the first SCAN call returned is taken for everything.
GatheredFirstPage ==
  \/ reading \in {"scheduled", "active"}
  \/ /\ reading \in PerQueue
     /\ page = {} \/ (asked # "stats" /\ Len(gathered) >= limit)

\* No ID is still to be gathered: the cursor is back at zero or, for a
\* listing, limit is reached.
Gathered ==
  \/ reading \in {"scheduled", "active"}
  \/ /\ reading \in PerQueue
     /\ \/ unscanned = {} /\ page = {}
        \/ asked # "stats" /\ Len(gathered) >= limit

Scan(passed) ==
  /\ reading \in PerQueue /\ ~Gathered /\ page = {}
  /\ ScanPage(reading, unscanned, passed)
  /\ UNCHANGED <<asked, limit, reading, gathered, fetched, counts, listed>>

\* Mutant: the length is added, although SCAN may return a key twice.
CountKeyAdds(q) ==
  /\ asked = "stats" /\ q \in page
  /\ counts' = [counts EXCEPT ![q][reading] = @ + Size(reading, q)]
  /\ page' = page \ {q}
  /\ UNCHANGED <<asked, limit, reading, unscanned, gathered, fetched, listed>>

\* GetQueueStats: LLEN or ZCARD of a returned key, into its column.
CountKey(q) ==
  /\ asked = "stats" /\ q \in page
  /\ counts' = [counts EXCEPT ![q][reading] = Size(reading, q)]
  /\ page' = page \ {q}
  /\ UNCHANGED <<asked, limit, reading, unscanned, gathered, fetched, listed>>

\* The number of IDs that collectIDsFromLists still asks for.
Remaining == limit - Len(gathered)

\* collectIDsFromLists, one returned key: LRANGE key 0 remaining-1.
ListKey(q) ==
  /\ asked \in {"pending", "retry", "dead"} /\ reading \in PerQueue
  /\ q \in page /\ ~Gathered
  /\ asked = "retry" => ~KeyExists("retry", q)
  /\ \E s \in Contents(reading, {q}) : gathered' = gathered \o FirstOf(s, Remaining)
  /\ page' = page \ {q}
  /\ UNCHANGED <<asked, limit, reading, unscanned, fetched, counts, listed>>

\* A retry key is a sorted set: LRANGE on it fails, unless the key has gone
\* since SCAN returned it.
ListKeyWrongType(q) ==
  /\ asked = "retry" /\ reading = "retry"
  /\ q \in page /\ KeyExists("retry", q)
  /\ reading' = "wrongtype"
  /\ UNCHANGED <<asked, limit, unscanned, page, gathered, fetched, counts, listed>>

AllFetched == Gathered /\ fetched = Len(gathered)

\* GET of the next ID's record: it tells the queue of a scheduled or active
\* job, or is itself listed; an ID without a record is passed over.
Fetch ==
  /\ Gathered /\ fetched < Len(gathered)
  /\ fetched' = fetched + 1
  /\ LET j == gathered[fetched + 1]
     IN  \/ record[j] = NoRecord /\ UNCHANGED <<counts, listed>>
         \/ /\ record[j] # NoRecord /\ asked = "stats"
            /\ counts' = [counts EXCEPT ![QueueOf[j]][reading] = @ + 1]
            /\ UNCHANGED listed
         \/ /\ record[j] # NoRecord /\ asked # "stats"
            /\ listed' = Append(listed, j)
            /\ UNCHANGED counts
  /\ UNCHANGED <<asked, limit, reading, unscanned, page, gathered>>

Kinds == <<"queue", "retry", "dead", "scheduled", "active">>

\* GetQueueStats is done with one kind of structure and starts on the next.
NextKind(i) ==
  /\ asked = "stats" /\ reading = Kinds[i] /\ AllFetched
  /\ Start(Kinds[i + 1], Cardinality(Jobs))
  /\ UNCHANGED <<asked, limit, counts, listed>>

\* The call returns: its answer is complete, a round trip failed, or the
\* request went away.
Finish ==
  /\ reading # "idle"
  /\ asked' = "none" /\ limit' = 0 /\ reading' = "idle"
  /\ unscanned' = {} /\ page' = {}
  /\ gathered' = <<>> /\ fetched' = 0 /\ counts' = Zero /\ listed' = <<>>
  /\ always' = [j \in Jobs |-> 0] /\ ever' = [j \in Jobs |-> 0]

-----------------------------------------------------------------------------
ReaderNext ==
  \/ AskStats
  \/ \E status \in DOMAIN StatusPlace, n \in Limits : AskJobs(status, n)
  \/ \E i \in 1..4 : NextKind(i)
  \/ Finish
  \/ /\ \/ \E passed \in SUBSET Queues : Scan(passed)
        \/ \E q \in Queues : CountKey(q) \/ ListKey(q) \/ ListKeyWrongType(q)
        \/ Fetch
     /\ UNCHANGED <<always, ever>>

\* Jobs move while the reader is between two round trips.
Watch ==
  IF reading \in Places /\ ~AllFetched
  THEN /\ always' = [j \in Jobs |-> Min({always[j], Census(reading)'[j]})]
       /\ ever' = [j \in Jobs |-> Max({ever[j], Census(reading)'[j]})]
  ELSE UNCHANGED <<always, ever>>

WithinBounds ==
  reading # "idle" =>
    /\ resends <= WatchedResends
    /\ Cardinality({c \in Consumers : pc[c] # "idle"}) <= WatchedBusy

ListingNext ==
  \/ ResendNext /\ UNCHANGED readerVars /\ Watch /\ WithinBounds'
  \/ ReaderNext /\ UNCHANGED vars /\ WithinBounds'

ListingSpec == Init /\ ReaderInit /\ [][ListingNext]_allVars

-----------------------------------------------------------------------------
(* Properties                                                              *)

ColumnReady == asked = "stats" /\ AllFetched
ListingReady == asked \in DOMAIN StatusPlace /\ AllFetched

\* What GetQueueStats answers is never far off: in every column a queue counts
\* at least the unfinished jobs that were there all the time that the call was
\* reading that kind of structure, and at most what was there at some time
\* then, whatever moves between the round trips, whatever SCAN returns twice
\* and however often a list holds an ID.  (A succeeded job may have left a copy
\* of its ID without a record.)
StatsBracketed ==
  ColumnReady =>
    \A q \in Queues :
      /\ Sum([j \in Jobs |-> IF j \in succeeded THEN 0 ELSE always[j]], q) <= counts[q][reading]
      /\ counts[q][reading] <= Sum(ever, q)

\* A listing has at most limit jobs, however many keys share the limit and
\* whatever SCAN returns twice; it shows only jobs that were in its structure
\* during the call and, unless limit cut its IDs off, every unfinished job that
\* was there throughout.
ListingFaithful ==
  ListingReady =>
    /\ Len(gathered) <= limit
    /\ \A j \in ToSet(listed) : ever[j] > 0
    /\ Len(gathered) < limit => \A j \in Jobs \ succeeded : always[j] > 0 => j \in ToSet(listed)

\* GetJobsByStatus answers for every status it supports (the comment above it:
\* "Pending, retry, and dead jobs are found by scanning the per-queue keys
\* that hold them").
RetryListingAnswers == reading # "wrongtype"
=============================================================================
