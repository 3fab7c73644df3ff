---------------------------- MODULE ProcessProofs ----------------------------
(***************************************************************************)
(* Safety of one worker's call stack for any middlewares in any order, any *)
(* number of attempts and any jitter: Spec keeps IInv, and IInv implies    *)
(* the invariants that Process.cfg checks for up to MaxUsed middlewares,   *)
(* and that retry delays grow.                                             *)
(***************************************************************************)
EXTENDS Process, ProofLemmas

\* The places of middleware m in chain s, down to depth d and below it.
Entered(s, m, d) == {i \in DOMAIN s : s[i] = m /\ i <= d}
Below(s, m, d) == {i \in DOMAIN s : s[i] = m /\ i > d}

\* The pool's own logging is first, and what the user added comes after it.
ChainInv ==
  /\ Len(middleware) \in 1..(MaxUsed + 1)
  /\ middleware[1] = "logging"
  /\ \A i \in 2..Len(middleware) : middleware[i] \in Usable

\* A job that may be tried again has an attempt left, and its delay is one that
\* its last failure gave it.
AttemptInv ==
  stage \notin {"acked", "dead", "stranded"} =>
    /\ attempts < MaxAttempts
    /\ delay <= attempts * attempts * attempts * attempts + 15 + 29 * (attempts + 1)

\* A context is live for every timeout middleware on the stack.
TimerInv ==
  timers = IF stage \in {"in", "out"} THEN Cardinality(Entered(middleware, "timeout", depth)) ELSE 0

WayIn ==
  stage = "in" =>
    /\ result = "none" /\ verdict = "none"
    /\ counted = None /\ finished = 0
    /\ depth > 0 => started = 1

\* r is a recovery with nothing custom between it and i.
Guards(r, i) ==
  /\ middleware[r] = "recovery" /\ i < r
  /\ \A k \in DOMAIN middleware : i < k /\ k < r => middleware[k] # "custom"

\* A panic is not passed up between a recovery and the next custom middleware
\* outside it.
NoPanicInv ==
  \A r \in DOMAIN middleware, i \in 0..Len(middleware) :
    Guards(r, i) /\ i <= depth /\ depth < r => result # "panic"

MetricsClean ==
  \A i \in MetricsAt : Shielded(i) /\ \A k \in 1..(i - 1) : middleware[k] # "custom"

Counts(n) ==
  [success |-> IF result = "nil" THEN n ELSE 0, failure |-> IF result = "nil" THEN 0 ELSE n]

WayOut ==
  stage \in {"out", "returned"} =>
    /\ result # "none" /\ started = 1
    /\ result = "nil" <=> verdict = "nil"
    /\ verdict # "none"
    /\ depth = 0 /\ Shielded(1) => finished = 1
    /\ counted.success + counted.failure <= Cardinality(Below(middleware, "metrics", depth))
    /\ MetricsClean =>
         /\ stage = "out" /\ result = "panic" => Below(middleware, "metrics", depth) = {}
         /\ counted = Counts(Cardinality(Below(middleware, "metrics", depth)))

IInv ==
  /\ TypeOK
  /\ ChainInv
  /\ AttemptInv
  /\ TimerInv
  /\ WayIn
  /\ stage = "out" => NoPanicInv
  /\ WayOut
  /\ stage = "returned" => depth = 0 /\ result # "panic"
  /\ OutcomeIsVerdict

-----------------------------------------------------------------------------
(* The chain                                                               *)

\* Chain calls the middlewares in the order given, and then the base handler:
\* h[n] is the last n of them and the base handler.
LEMMA ChainFacts ==
  ASSUME NEW S, NEW s \in Seq(S)
  PROVE  /\ \A i \in 1..Len(s) : Chain(s)[i] = s[i]
         /\ Chain(s)[Len(s) + 1] = "base"
<1> DEFINE N == Len(s)
           Body(h) == [n \in 0..N |-> IF n = 0 THEN <<"base">> ELSE <<s[N + 1 - n]>> \o h[n - 1]]
           up == CHOOSE h : h = Body(h)
           g(n) == [i \in 1..(n + 1) |-> IF i = n + 1 THEN "base" ELSE s[N - n + i]]
           f == [n \in 0..N |-> g(n)]
<1>1. Chain(s) = up[N]
  BY DEF Chain
<1>2. N \in Nat
  OBVIOUS
<1>3. ASSUME NEW n \in 1..N PROVE <<s[N + 1 - n]>> \o g(n - 1) = g(n)
  <2> DEFINE e == s[N + 1 - n]
             D == S \cup {"base"}
             b == g(n - 1)
             c == <<e>> \o b
  <2>1. e \in D /\ n \in Nat /\ n >= 1
    BY <1>2
  <2>2. /\ b \in Seq(D) /\ Len(b) = n
        /\ \A i \in 1..n : b[i] = IF i = n THEN "base" ELSE s[N - (n - 1) + i]
    BY <1>2
  <2>3. /\ c = [i \in 1..(n + 1) |-> c[i]]
        /\ c[1] = e
        /\ \A i \in 1..n : c[i + 1] = b[i]
    <3>1. e \in D /\ b \in Seq(D)
      BY <2>1, <2>2
    <3> HIDE DEF b, e, D
    <3>2. c \in Seq(D) /\ Len(c) = Len(b) + 1 /\ c[1] = e /\ \A i \in 1..Len(b) : c[i + 1] = b[i]
      BY <3>1, ConsFacts
    <3> HIDE DEF c
    <3> QED BY <2>2, <3>2
  <2> HIDE DEF b, c, N
  <2>4. ASSUME NEW i \in 1..(n + 1) PROVE c[i] = g(n)[i]
    <3>1. CASE i = 1
      <4>1. N - n + i = N + 1 - n /\ i # n + 1
        BY <1>2, <2>1, <3>1
      <4> QED BY <2>3, <3>1, <4>1
    <3>2. CASE i > 1
      <4>1. PICK k \in 1..n : i = k + 1
        BY <2>1, <3>2
      <4>2. N - (n - 1) + k = N - n + i /\ (k = n <=> i = n + 1)
        BY <1>2, <2>1, <4>1
      <4>3. c[i] = b[k]
        BY <2>3, <4>1
      <4> QED BY <2>2, <4>1, <4>2, <4>3
    <3> QED BY <2>1, <3>1, <3>2
  <2>5. g(n) = [i \in 1..(n + 1) |-> g(n)[i]]
    OBVIOUS
  <2> HIDE DEF g
  <2> QED BY <2>3, <2>4, <2>5 DEF b, c, N
<1>4. f = Body(f)
  <2>1. ASSUME NEW n \in 0..N PROVE f[n] = Body(f)[n]
    <3> HIDE DEF N
    <3>1. CASE n = 0
      <4>1. g(0) = <<"base">>
        BY <1>2
      <4> QED BY <3>1, <4>1
    <3>2. CASE n # 0
      <4>1. n \in 1..N /\ n - 1 \in 0..N
        BY <1>2, <3>2
      <4>2. <<s[N + 1 - n]>> \o g(n - 1) = g(n)
        BY <1>3, <4>1
      <4> HIDE DEF g
      <4> QED BY <3>2, <4>1, <4>2
    <3> QED BY <3>1, <3>2
  <2> HIDE DEF g
  <2> QED BY <2>1
<1>5. up = Body(up)
  <2> HIDE DEF Body
  <2> QED BY <1>4
<1> HIDE DEF up
<1> DEFINE T == {n \in Nat : n <= N => up[n] = f[n]}
<1>6. 0 \in T
  BY <1>2, <1>4, <1>5
<1>7. ASSUME NEW n \in 0..(N - 1), n \in T PROVE n + 1 \in T
  <2>1. n + 1 \in 0..N /\ n + 1 # 0 /\ (n + 1) - 1 = n /\ n <= N /\ n + 1 \in Nat
    BY <1>2
  <2>2. up[n] = f[n]
    BY <1>7, <2>1
  <2> HIDE DEF f
  <2>3. /\ Body(up)[n + 1] = <<s[N + 1 - (n + 1)]>> \o up[n]
        /\ Body(f)[n + 1] = <<s[N + 1 - (n + 1)]>> \o f[n]
    BY <2>1
  <2> HIDE DEF Body
  <2>4. up[n + 1] = f[n + 1]
    BY <1>4, <1>5, <2>2, <2>3
  <2> QED BY <2>1, <2>4
<1>8. up[N] = f[N]
  <2>1. \A n \in 0..N : n \in T
    <3> HIDE DEF T, N
    <3> QED BY <1>2, <1>6, <1>7, InductionUpTo
  <2> QED BY <1>2, <2>1
<1>9. Chain(s) = g(N)
  <2> HIDE DEF g
  <2> QED BY <1>1, <1>2, <1>8
<1>10. \A i \in 1..N : N - N + i = i
  BY <1>2
<1> QED BY <1>2, <1>9, <1>10

\* What is called next on the way in, and what returns next on the way out.
LEMMA StackFacts ==
  ASSUME middleware \in Seq(Usable \cup {"logging"}), depth \in 0..Len(middleware)
  PROVE  /\ depth < Len(middleware) => Callee = middleware[depth + 1]
         /\ depth = Len(middleware) => Callee = "base"
         /\ Callee = "base" <=> depth = Len(middleware)
         /\ depth > 0 => Frame = middleware[depth]
<1>1. /\ \A i \in 1..Len(middleware) : Chain(middleware)[i] = middleware[i]
      /\ Chain(middleware)[Len(middleware) + 1] = "base"
  BY ChainFacts
<1>2. \A i \in 1..Len(middleware) : middleware[i] # "base"
  BY DEF Usable
<1>3. depth < Len(middleware) => depth + 1 \in 1..Len(middleware)
  OBVIOUS
<1>4. depth > 0 => depth \in 1..Len(middleware)
  OBVIOUS
<1> QED BY <1>1, <1>2, <1>3, <1>4 DEF Callee, Frame

\* The number of places changes by one with the depth.
LEMMA PlaceFacts ==
  ASSUME NEW S, NEW s \in Seq(S), NEW m, NEW d \in 1..Len(s)
  PROVE  /\ Cardinality(Entered(s, m, d)) = Cardinality(Entered(s, m, d - 1)) + (IF s[d] = m THEN 1 ELSE 0)
         /\ Cardinality(Below(s, m, d - 1)) = Cardinality(Below(s, m, d)) + (IF s[d] = m THEN 1 ELSE 0)
         /\ s[d] # m => Below(s, m, d - 1) = Below(s, m, d)
<1> DEFINE E == Entered(s, m, d)
           F == Entered(s, m, d - 1)
           A == Below(s, m, d - 1)
           B == Below(s, m, d)
<1>1. IsFiniteSet(1..Len(s)) /\ DOMAIN s = 1..Len(s)
  BY FS_Interval
<1>2. IsFiniteSet(F) /\ IsFiniteSet(B)
  <2>1. F \subseteq 1..Len(s) /\ B \subseteq 1..Len(s)
    BY <1>1 DEF Entered, Below
  <2> QED BY <1>1, <2>1, FS_Subset
<1>3. d \notin F /\ d \notin B
  BY DEF Entered, Below
<1>4. CASE s[d] = m
  <2>1. E = F \cup {d} /\ A = B \cup {d}
    BY <1>1, <1>4 DEF Entered, Below
  <2> HIDE DEF E, F, A, B
  <2>2. Cardinality(F \cup {d}) = Cardinality(F) + 1 /\ Cardinality(B \cup {d}) = Cardinality(B) + 1
    BY <1>2, <1>3, FS_AddElement
  <2> QED BY <1>4, <2>1, <2>2 DEF E, F, A, B
<1>5. CASE s[d] # m
  <2>1. E = F /\ A = B
    BY <1>1, <1>5 DEF Entered, Below
  <2>2. Cardinality(F) \in Nat /\ Cardinality(B) \in Nat
    BY <1>2, FS_CardinalityType
  <2> QED BY <1>5, <2>1, <2>2
<1> QED BY <1>4, <1>5

\* There are at most MaxUsed places of a middleware that is not the logging.
LEMMA PlaceBound ==
  ASSUME middleware \in Seq(Usable \cup {"logging"}), ChainInv, NEW m, m # "logging", NEW d \in Nat
  PROVE  /\ Cardinality(Entered(middleware, m, d)) \in 0..MaxUsed
         /\ Cardinality(Below(middleware, m, d)) \in 0..MaxUsed
<1> DEFINE I == 2..Len(middleware)
<1>1. IsFiniteSet(I) /\ Cardinality(I) \in 0..MaxUsed
  <2>1. Len(middleware) \in Nat /\ MaxUsed \in Nat
    BY ProcessAssumption
  <2>2. IsFiniteSet(I) /\ Cardinality(I) = IF 2 > Len(middleware) THEN 0 ELSE Len(middleware) - 2 + 1
    BY <2>1, FS_Interval
  <2> HIDE DEF I
  <2> QED BY <2>1, <2>2 DEF ChainInv
<1>2. Entered(middleware, m, d) \subseteq I /\ Below(middleware, m, d) \subseteq I
  BY DEF Entered, Below, ChainInv
<1>3. \A U : U \subseteq I => IsFiniteSet(U) /\ Cardinality(U) <= Cardinality(I)
  <2> HIDE DEF I
  <2> QED BY <1>1, FS_Subset
<1>4. \A U : U \subseteq I => Cardinality(U) \in Nat
  BY <1>3, FS_CardinalityType
<1> HIDE DEF I
<1>5. MaxUsed \in Nat
  BY ProcessAssumption
<1> QED BY <1>1, <1>2, <1>3, <1>4, <1>5

-----------------------------------------------------------------------------
(* The invariant                                                           *)

Counters == [{"success", "failure"} -> Nat]

LEMMA CountedFacts ==
  ASSUME NEW c \in Counters
  PROVE  /\ c.success \in Nat /\ c.failure \in Nat
         /\ \A n \in Nat : c.success + c.failure <= n => c \in [{"success", "failure"} -> 0..n]
         /\ \A n \in Nat : c = Counts(n) <=>
              /\ c.success = IF result = "nil" THEN n ELSE 0
              /\ c.failure = IF result = "nil" THEN 0 ELSE n
<1>1. c.success \in Nat /\ c.failure \in Nat
  BY DEF Counters
<1>2. ASSUME NEW n \in Nat, c.success + c.failure <= n PROVE c \in [{"success", "failure"} -> 0..n]
  <2>1. c.success \in 0..n /\ c.failure \in 0..n
    BY <1>1, <1>2
  <2> QED BY <2>1 DEF Counters
<1>3. ASSUME NEW x, NEW y PROVE c = [success |-> x, failure |-> y] <=> c.success = x /\ c.failure = y
  BY DEF Counters
<1> QED BY <1>1, <1>2, <1>3 DEF Counts

LEMMA InitIInv == Init => IInv
<1> SUFFICES ASSUME Init PROVE IInv
  OBVIOUS
<1> USE DEF Init
<1>1. None \in [{"success", "failure"} -> 0..MaxUsed]
  BY ProcessAssumption DEF None
<1>2. middleware \in Seq(Usable \cup {"logging"}) /\ Len(middleware) = 1 /\ middleware[1] = "logging"
  <2> DEFINE T == Usable \cup {"logging"}
  <2>1. "logging" \in T
    OBVIOUS
  <2>2. <<"logging">> \in Seq(T) /\ Len(<<"logging">>) = 1 /\ <<"logging">>[1] = "logging"
    <3> HIDE DEF T
    <3> QED BY <2>1
  <2> QED BY <2>2
<1>3. TypeOK
  <2>1. depth \in 0..Len(middleware) /\ attempts \in 0..MaxAttempts /\ delay \in Nat
    BY <1>2, ProcessAssumption
  <2>2. started \in 0..1 /\ finished \in 0..started /\ timers \in 0..MaxUsed
    BY ProcessAssumption
  <2>3. stage \in Stages
    BY DEF Stages
  <2>4. result \in Results /\ verdict \in Results /\ registered \in BOOLEAN
    BY DEF Results
  <2> QED BY <1>1, <1>2, <2>1, <2>2, <2>3, <2>4 DEF TypeOK
<1>4. ChainInv
  BY <1>2, ProcessAssumption DEF ChainInv
<1>5. AttemptInv
  BY ProcessAssumption DEF AttemptInv
<1> QED BY <1>3, <1>4, <1>5 DEF IInv, TimerInv, WayIn, WayOut, OutcomeIsVerdict

\* Steps outside an attempt.
LEMMA OutsideIInv ==
  ASSUME IInv, TypeOK', ChainInv', AttemptInv',
         stage \notin {"in", "out"}, stage' \notin {"in", "out", "returned"}, OutcomeIsVerdict',
         timers' = timers
  PROVE  IInv'
BY DEF IInv, TimerInv, WayIn, WayOut

LEMMA UseIInv ==
  ASSUME IInv, NEW m \in Usable, Use(m)
  PROVE  IInv'
<1> USE DEF jobVars, attemptVars
<1>1. /\ stage = "config" /\ Len(middleware) <= MaxUsed
      /\ middleware \in Seq(Usable \cup {"logging"}) /\ Len(middleware) \in Nat /\ MaxUsed \in Nat
      /\ middleware' = Append(middleware, m)
      /\ UNCHANGED <<stage, depth, result, jobVars, attemptVars>>
  BY ProcessAssumption DEF Use, IInv, TypeOK
<1>2. /\ middleware' \in Seq(Usable \cup {"logging"}) /\ Len(middleware') = Len(middleware) + 1
      /\ \A i \in 1..Len(middleware) : middleware'[i] = middleware[i]
      /\ middleware'[Len(middleware) + 1] = m
  BY <1>1
<1>3. TypeOK'
  BY <1>1, <1>2 DEF IInv, TypeOK
<1>4. ChainInv'
  <2>1. Len(middleware') \in 1..(MaxUsed + 1)
    BY <1>1, <1>2
  <2>2. middleware'[1] = "logging"
    BY <1>1, <1>2 DEF IInv, ChainInv
  <2>3. ASSUME NEW i \in 2..Len(middleware') PROVE middleware'[i] \in Usable
    <3>1. CASE i \in 2..Len(middleware)
      BY <1>1, <1>2, <3>1 DEF IInv, ChainInv
    <3>2. CASE i = Len(middleware) + 1
      BY <1>2, <3>2
    <3> QED BY <1>1, <1>2, <3>1, <3>2
  <2> QED BY <2>1, <2>2, <2>3 DEF ChainInv
<1>5. AttemptInv'
  BY <1>1 DEF IInv, AttemptInv
<1>6. OutcomeIsVerdict'
  BY <1>1 DEF OutcomeIsVerdict
<1> QED BY <1>1, <1>3, <1>4, <1>5, <1>6, OutsideIInv

LEMMA StartIInv ==
  ASSUME IInv, Start \/ NoHandler
  PROVE  IInv'
<1> USE DEF Start, NoHandler, Record, jobVars, attemptVars
<1>1. TypeOK'
  BY DEF IInv, TypeOK, Stages
<1>2. ChainInv'
  BY DEF IInv, ChainInv
<1>3. AttemptInv'
  BY DEF IInv, AttemptInv
<1>4. OutcomeIsVerdict'
  BY DEF OutcomeIsVerdict
<1> QED BY <1>1, <1>2, <1>3, <1>4, OutsideIInv

LEMMA BeginIInv ==
  ASSUME IInv, Begin
  PROVE  IInv'
<1> USE DEF Begin, jobVars
<1>1. None \in [{"success", "failure"} -> 0..MaxUsed]
  BY ProcessAssumption DEF None
<1>2. TypeOK'
  <2>1. depth' \in 0..Len(middleware')
    BY DEF IInv, TypeOK
  <2>2. started' \in 0..1 /\ finished' \in 0..started' /\ timers' \in 0..MaxUsed
    BY ProcessAssumption
  <2>3. stage' \in Stages
    BY DEF Stages
  <2>4. result' \in Results /\ verdict' \in Results
    BY DEF Results
  <2> QED BY <1>1, <2>1, <2>2, <2>3, <2>4 DEF IInv, TypeOK
<1>3. ChainInv'
  BY DEF IInv, ChainInv
<1>4. AttemptInv'
  BY DEF IInv, AttemptInv
<1>5. TimerInv'
  <2>1. Entered(middleware, "timeout", 0) = {}
    BY DEF Entered, IInv, TypeOK
  <2>2. Cardinality({}) = 0
    BY FS_EmptySet
  <2> QED BY <2>1, <2>2 DEF TimerInv
<1>6. WayIn'
  BY DEF WayIn, None
<1> QED BY <1>2, <1>3, <1>4, <1>5, <1>6 DEF IInv, WayOut, OutcomeIsVerdict

LEMMA EnterIInv ==
  ASSUME IInv, Enter
  PROVE  IInv'
<1> USE DEF jobVars
<1>1. /\ stage = "in" /\ Callee # "base" /\ depth' = depth + 1
      /\ started' = (IF Callee = "logging" THEN 1 ELSE started)
      /\ timers' = (IF Callee = "timeout" THEN timers + 1 ELSE timers)
      /\ UNCHANGED <<middleware, stage, result, jobVars, finished, counted, verdict>>
  BY DEF Enter
<1>2. /\ middleware \in Seq(Usable \cup {"logging"}) /\ depth \in 0..Len(middleware)
      /\ Len(middleware) \in Nat
  BY DEF IInv, TypeOK
<1>3. depth' \in 1..Len(middleware) /\ Callee = middleware[depth']
  <2>1. depth < Len(middleware)
    BY <1>1, <1>2, StackFacts
  <2> QED BY <1>1, <1>2, <2>1, StackFacts
<1>4. timers' = Cardinality(Entered(middleware', "timeout", depth'))
  <2>1. timers = Cardinality(Entered(middleware, "timeout", depth))
    BY <1>1 DEF IInv, TimerInv
  <2>2. Cardinality(Entered(middleware, "timeout", depth'))
          = Cardinality(Entered(middleware, "timeout", depth' - 1))
              + (IF middleware[depth'] = "timeout" THEN 1 ELSE 0)
    BY <1>2, <1>3, PlaceFacts
  <2>3. depth' - 1 = depth
    BY <1>1, <1>2
  <2>4. timers \in Nat
    BY ProcessAssumption DEF IInv, TypeOK
  <2> QED BY <1>1, <1>3, <2>1, <2>2, <2>3, <2>4
<1>5. ChainInv' /\ AttemptInv'
  BY <1>1 DEF IInv, ChainInv, AttemptInv
<1>6. started' = 1 /\ started \in 0..1
  <2>1. depth > 0 => started = 1
    BY <1>1 DEF IInv, WayIn
  <2>2. depth = 0 => Callee = "logging"
    BY <1>1, <1>3 DEF IInv, ChainInv
  <2> QED BY <1>1, <1>2, <2>1, <2>2 DEF IInv, TypeOK
<1>7. TypeOK'
  <2>1. timers' \in 0..MaxUsed
    <3>1. depth' \in Nat /\ ChainInv
      BY <1>1, <1>2 DEF IInv
    <3>2. Cardinality(Entered(middleware, "timeout", depth')) \in 0..MaxUsed
      BY <1>2, <3>1, PlaceBound
    <3> QED BY <1>1, <1>4, <3>2
  <2>2. finished' \in 0..started'
    BY <1>1, <1>6 DEF IInv, WayIn
  <2>3. depth' \in 0..Len(middleware')
    BY <1>1, <1>2, <1>3
  <2> QED BY <1>1, <1>6, <2>1, <2>2, <2>3 DEF IInv, TypeOK
<1>8. WayIn'
  BY <1>1, <1>6 DEF IInv, WayIn, None
<1> QED BY <1>1, <1>4, <1>5, <1>7, <1>8 DEF IInv, TimerInv, WayOut, OutcomeIsVerdict

\* The way back begins, at the handler or at a custom middleware.
LEMMA TurnIInv ==
  ASSUME IInv, NEW r \in Answers, CallHandler(r) \/ SkipNext(r)
  PROVE  IInv'
<1> USE DEF jobVars
<1>0. /\ stage = "in" /\ stage' = "out" /\ result' = r /\ verdict' = r
      /\ UNCHANGED <<middleware, depth, jobVars, started, finished, counted, timers>>
      /\ Callee = "base" \/ Callee = "custom"
  BY DEF CallHandler, SkipNext, Answer
<1> USE <1>0
<1>1. /\ middleware \in Seq(Usable \cup {"logging"}) /\ depth \in 0..Len(middleware)
      /\ Len(middleware) \in Nat /\ Len(middleware) >= 1
      /\ counted = None /\ finished = 0
  BY DEF IInv, TypeOK, WayIn, ChainInv
<1>2. depth < Len(middleware) => middleware[depth + 1] = "custom"
  BY <1>1, StackFacts
<1>3. depth > 0 /\ started = 1
  <2>1. depth > 0
    <3> SUFFICES ASSUME depth = 0 PROVE FALSE
      BY <1>1
    <3>1. middleware[1] = "logging" /\ depth + 1 = 1 /\ depth < Len(middleware)
      BY <1>1 DEF IInv, ChainInv
    <3> QED BY <1>2, <3>1
  <2> QED BY <2>1 DEF IInv, WayIn
<1>4. TypeOK'
  <2>1. result' \in Results /\ verdict' \in Results /\ stage' \in Stages
    BY DEF Results, Stages
  <2> QED BY <2>1 DEF IInv, TypeOK
<1>5. ChainInv' /\ AttemptInv' /\ TimerInv'
  BY DEF IInv, ChainInv, AttemptInv, TimerInv
<1>6. NoPanicInv'
  <2> SUFFICES ASSUME NEW x \in DOMAIN middleware, NEW i \in 0..Len(middleware),
                      Guards(x, i), i <= depth, depth < x
               PROVE  result' # "panic"
    BY DEF NoPanicInv, Guards
  <2>1. x \in 1..Len(middleware)
    BY <1>1
  <2>2. depth # Len(middleware)
    BY <1>1, <2>1
  <2>3. depth + 1 \in 1..Len(middleware) /\ middleware[depth + 1] = "custom" /\ i < depth + 1
    BY <1>1, <1>2, <2>2
  <2>4. depth + 1 = x \/ depth + 1 < x
    BY <1>1, <2>1
  <2> QED BY <1>1, <2>3, <2>4 DEF Guards
<1>7. WayOut'
  <2> DEFINE B == Below(middleware, "metrics", depth)
  <2>1. IsFiniteSet(B) /\ Cardinality(B) \in Nat
    <3>1. IsFiniteSet(1..Len(middleware))
      BY <1>1, FS_Interval
    <3>2. B \subseteq 1..Len(middleware)
      BY <1>1 DEF Below
    <3> HIDE DEF B
    <3> QED BY <3>1, <3>2, FS_Subset, FS_CardinalityType
  <2>2. MetricsClean => B = {}
    <3> SUFFICES ASSUME MetricsClean, NEW i \in B PROVE FALSE
      OBVIOUS
    <3>1. i \in DOMAIN middleware /\ i > depth /\ i \in 1..Len(middleware) /\ i \in MetricsAt
      BY <1>1 DEF Below, MetricsAt
    <3>2. depth < Len(middleware) /\ middleware[depth + 1] = "custom"
      BY <1>1, <1>2, <3>1
    <3>3. middleware[i] # "custom"
      BY <3>1 DEF MetricsAt
    <3>4. depth + 1 \in 1..(i - 1)
      BY <1>1, <3>1, <3>2, <3>3
    <3> QED BY <3>1, <3>2, <3>4 DEF MetricsClean
  <2>3. MetricsClean' <=> MetricsClean
    BY DEF MetricsClean, MetricsAt, Shielded
  <2>4. counted.success = 0 /\ counted.failure = 0 /\ counted \in Counters
    BY <1>1 DEF None, Counters
  <2>5. counted.success + counted.failure <= Cardinality(B)
    BY <2>1, <2>4
  <2>6. MetricsClean => (counted = Counts(0))'
    BY <1>1 DEF None, Counts
  <2>7. B' = B
    BY DEF Below
  <2>8. Cardinality({}) = 0
    BY FS_EmptySet
  <2>9. result' # "none" /\ started' = 1 /\ depth' # 0
    BY <1>1, <1>3 DEF Answers
  <2>10. /\ result' = "nil" <=> verdict' = "nil"
         /\ verdict' # "none"
    BY DEF Answers
  <2> HIDE DEF B
  <2>11. MetricsClean' => B' = {} /\ (counted = Counts(Cardinality(B)))'
    <3>1. CASE MetricsClean
      <4>1. B = {} /\ Cardinality(B') = 0
        BY <2>2, <2>7, <2>8, <3>1
      <4> QED BY <2>6, <2>7, <3>1, <4>1 DEF Counts
    <3> QED BY <2>3, <3>1
  <2>12. (counted.success + counted.failure <= Cardinality(B))'
    BY <2>5, <2>7
  <2> QED BY <2>9, <2>10, <2>11, <2>12 DEF WayOut, B
<1> QED BY <1>4, <1>5, <1>6, <1>7 DEF IInv, WayIn, OutcomeIsVerdict

\* One middleware returns: what the five kinds of it do.
LEMMA LeaveFacts ==
  ASSUME IInv, LeaveLogging \/ LeaveRecovery \/ LeaveTimeout \/ LeaveMetrics
                 \/ \E r \in Answers : LeaveCustom(r)
  PROVE  /\ stage = "out" /\ depth \in 1..Len(middleware) /\ depth' = depth - 1
         /\ UNCHANGED <<middleware, stage, jobVars, started>>
         /\ \/ result' = result /\ verdict' = verdict
            \/ middleware[depth] = "recovery" /\ result = "panic" /\ result' = "error" /\ verdict' = verdict
            \/ middleware[depth] = "custom" /\ result' \in Answers /\ verdict' = result'
         /\ middleware[depth] = "recovery" => result' # "panic"
         /\ finished' = IF middleware[depth] = "logging" /\ result # "panic" THEN 1 ELSE finished
         /\ timers' = IF middleware[depth] = "timeout" THEN timers - 1 ELSE timers
         /\ counted' \in Counters
         /\ counted'.success = counted.success
              + (IF middleware[depth] = "metrics" /\ result = "nil" THEN 1 ELSE 0)
         /\ counted'.failure = counted.failure
              + (IF middleware[depth] = "metrics" /\ result = "error" THEN 1 ELSE 0)
<1>1. /\ middleware \in Seq(Usable \cup {"logging"}) /\ depth \in 0..Len(middleware)
      /\ Len(middleware) \in Nat
  BY DEF IInv, TypeOK
<1>2. /\ stage = "out" /\ depth > 0 /\ depth' = depth - 1
      /\ UNCHANGED <<middleware, stage, jobVars, started>>
  BY DEF LeaveLogging, LeaveRecovery, LeaveTimeout, LeaveMetrics, LeaveCustom, Leave
<1>3. PICK m : m = middleware[depth] /\ Frame = m
  BY <1>1, <1>2, StackFacts
<1>4. depth \in 1..Len(middleware)
  BY <1>1, <1>2
<1>5. counted \in Counters
  BY ProcessAssumption DEF IInv, TypeOK, Counters
<1>6. counted.success \in Nat /\ counted.failure \in Nat
  BY <1>5, CountedFacts
<1>7. /\ \/ result' = result /\ verdict' = verdict
         \/ m = "recovery" /\ result = "panic" /\ result' = "error" /\ verdict' = verdict
         \/ m = "custom" /\ result' \in Answers /\ verdict' = result'
      /\ m = "recovery" => result' # "panic"
      /\ finished' = IF m = "logging" /\ result # "panic" THEN 1 ELSE finished
      /\ timers' = IF m = "timeout" THEN timers - 1 ELSE timers
      /\ \/ UNCHANGED counted /\ (m # "metrics" \/ result = "panic")
         \/ m = "metrics" /\ result = "nil" /\ counted' = [counted EXCEPT !.success = @ + 1]
         \/ m = "metrics" /\ result = "error" /\ counted' = [counted EXCEPT !.failure = @ + 1]
  BY <1>3 DEF LeaveLogging, LeaveRecovery, LeaveTimeout, LeaveMetrics, LeaveCustom, Leave
<1>8. /\ counted' \in Counters
      /\ counted'.success = counted.success + (IF m = "metrics" /\ result = "nil" THEN 1 ELSE 0)
      /\ counted'.failure = counted.failure + (IF m = "metrics" /\ result = "error" THEN 1 ELSE 0)
  <2>1. CASE UNCHANGED counted /\ (m # "metrics" \/ result = "panic")
    BY <1>5, <1>6, <2>1
  <2>2. CASE m = "metrics" /\ result = "nil" /\ counted' = [counted EXCEPT !.success = @ + 1]
    BY <1>5, <1>6, <2>2 DEF Counters
  <2>3. CASE m = "metrics" /\ result = "error" /\ counted' = [counted EXCEPT !.failure = @ + 1]
    BY <1>5, <1>6, <2>3 DEF Counters
  <2> QED BY <1>7, <2>1, <2>2, <2>3
<1> QED BY <1>2, <1>3, <1>4, <1>7, <1>8

LEMMA LeaveIInv ==
  ASSUME IInv, LeaveLogging \/ LeaveRecovery \/ LeaveTimeout \/ LeaveMetrics
                 \/ \E r \in Answers : LeaveCustom(r)
  PROVE  IInv'
<1> USE DEF jobVars
<1>1. PICK m : m = middleware[depth]
  OBVIOUS
<1>2. /\ stage = "out" /\ depth \in 1..Len(middleware) /\ depth' = depth - 1
      /\ UNCHANGED <<middleware, stage, jobVars, started>>
      /\ \/ result' = result /\ verdict' = verdict
         \/ m = "recovery" /\ result = "panic" /\ result' = "error" /\ verdict' = verdict
         \/ m = "custom" /\ result' \in Answers /\ verdict' = result'
      /\ m = "recovery" => result' # "panic"
      /\ finished' = IF m = "logging" /\ result # "panic" THEN 1 ELSE finished
      /\ timers' = IF m = "timeout" THEN timers - 1 ELSE timers
      /\ counted' \in Counters
      /\ counted'.success = counted.success + (IF m = "metrics" /\ result = "nil" THEN 1 ELSE 0)
      /\ counted'.failure = counted.failure + (IF m = "metrics" /\ result = "error" THEN 1 ELSE 0)
  BY <1>1, LeaveFacts
<1>3. /\ middleware \in Seq(Usable \cup {"logging"}) /\ Len(middleware) \in Nat
      /\ DOMAIN middleware = 1..Len(middleware) /\ depth \in Nat /\ depth' \in Nat
      /\ depth \in DOMAIN middleware /\ ChainInv /\ MaxUsed \in Nat
  BY <1>2, ProcessAssumption DEF IInv, TypeOK
<1>4. /\ counted \in Counters /\ counted.success \in Nat /\ counted.failure \in Nat
      /\ counted'.success \in Nat /\ counted'.failure \in Nat
  <2>1. counted \in Counters
    BY ProcessAssumption DEF IInv, TypeOK, Counters
  <2> QED BY <1>2, <2>1, CountedFacts
<1>5. PICK b \in Nat : b = Cardinality(Below(middleware, "metrics", depth))
  BY <1>3, PlaceBound
<1>6. PICK c \in 0..MaxUsed : c = Cardinality(Below(middleware, "metrics", depth'))
  BY <1>3, PlaceBound
<1>7. /\ c = b + (IF m = "metrics" THEN 1 ELSE 0)
      /\ m # "metrics" => Below(middleware, "metrics", depth') = Below(middleware, "metrics", depth)
  BY <1>1, <1>2, <1>3, <1>5, <1>6, PlaceFacts
<1>8. counted'.success + counted'.failure <= c
  <2>1. counted.success + counted.failure <= b
    BY <1>2, <1>5 DEF IInv, WayOut
  <2> QED BY <1>2, <1>4, <1>7, <2>1
<1>9. timers' = Cardinality(Entered(middleware, "timeout", depth'))
  <2>1. timers = Cardinality(Entered(middleware, "timeout", depth))
    BY <1>2 DEF IInv, TimerInv
  <2>2. PICK x \in Nat : x = Cardinality(Entered(middleware, "timeout", depth'))
    BY <1>3, PlaceBound
  <2>3. timers = x + (IF m = "timeout" THEN 1 ELSE 0)
    BY <1>1, <1>2, <1>3, <2>1, <2>2, PlaceFacts
  <2> QED BY <1>2, <2>2, <2>3
<1>10. started = 1 /\ result \in Answers /\ result' \in Answers
  BY <1>2 DEF IInv, WayOut, TypeOK, Results, Answers
<1>11. TypeOK'
  <2>1. timers' \in 0..MaxUsed
    BY <1>3, <1>9, PlaceBound
  <2>2. counted' \in [{"success", "failure"} -> 0..MaxUsed]
    <3>1. counted'.success + counted'.failure <= MaxUsed
      BY <1>3, <1>4, <1>8
    <3> QED BY <1>2, <1>3, <3>1, CountedFacts
  <2>3. finished' \in 0..started' /\ depth' \in 0..Len(middleware')
    BY <1>2, <1>3, <1>10 DEF IInv, TypeOK
  <2>4. result' \in Results /\ verdict' \in Results
    BY <1>2, <1>10 DEF IInv, TypeOK, Results
  <2> QED BY <1>2, <2>1, <2>2, <2>3, <2>4 DEF IInv, TypeOK
<1>12. ChainInv' /\ AttemptInv'
  BY <1>2 DEF IInv, ChainInv, AttemptInv
<1>13. NoPanicInv'
  <2> SUFFICES ASSUME NEW r \in DOMAIN middleware, NEW i \in 0..Len(middleware),
                      Guards(r, i), i <= depth', depth' < r
               PROVE  result' # "panic"
    BY <1>2 DEF NoPanicInv, Guards
  <2>1. CASE depth = r
    BY <1>1, <1>2, <2>1 DEF Guards
  <2>2. CASE depth < r
    <3>1. i < depth /\ i <= depth
      BY <1>2, <1>3
    <3>2. result # "panic" /\ m # "custom"
      BY <1>1, <1>2, <1>3, <2>2, <3>1 DEF IInv, NoPanicInv, Guards
    <3> QED BY <1>2, <3>2
  <2> QED BY <1>2, <1>3, <2>1, <2>2
<1>14. depth' = 0 /\ Shielded(1) => finished' = 1
  <2> SUFFICES ASSUME depth' = 0, Shielded(1) PROVE finished' = 1
    OBVIOUS
  <2>1. depth = 1 /\ m = "logging"
    BY <1>1, <1>2, <1>3 DEF ChainInv
  <2>2. PICK r \in DOMAIN middleware : Guards(r, 1)
    BY DEF Shielded, Guards
  <2>3. depth < r /\ 1 \in 0..Len(middleware) /\ 1 <= depth
    BY <1>2, <1>3, <2>1, <2>2 DEF Guards
  <2>4. result # "panic"
    BY <1>2, <2>2, <2>3 DEF IInv, NoPanicInv
  <2> QED BY <1>2, <2>1, <2>4
<1>15. ASSUME MetricsClean
       PROVE  /\ result' = "panic" => Below(middleware, "metrics", depth') = {}
              /\ counted' = Counts(c)'
  <2>1. /\ result = "panic" => Below(middleware, "metrics", depth) = {}
        /\ counted.success = IF result = "nil" THEN b ELSE 0
        /\ counted.failure = IF result = "nil" THEN 0 ELSE b
    <3>1. result = "panic" => Below(middleware, "metrics", depth) = {}
      BY <1>2, <1>15 DEF IInv, WayOut
    <3>2. counted = Counts(b)
      BY <1>2, <1>5, <1>15 DEF IInv, WayOut
    <3> QED BY <1>4, <3>1, <3>2, CountedFacts
  <2>2. Below(middleware, "metrics", depth) = {} => b = 0
    BY <1>5, FS_EmptySet
  <2>3. /\ result' = "panic" => Below(middleware, "metrics", depth') = {}
        /\ counted'.success = IF result' = "nil" THEN c ELSE 0
        /\ counted'.failure = IF result' = "nil" THEN 0 ELSE c
    <3>1. CASE m = "metrics"
      <4>1. Shielded(depth)
        BY <1>1, <1>3, <1>15, <3>1 DEF MetricsClean, MetricsAt
      <4>2. PICK r \in DOMAIN middleware : Guards(r, depth)
        BY <4>1 DEF Shielded, Guards
      <4>3. depth < r /\ depth \in 0..Len(middleware) /\ depth <= depth
        BY <1>2, <1>3, <4>2 DEF Guards
      <4>4. result # "panic"
        BY <1>2, <4>2, <4>3 DEF IInv, NoPanicInv
      <4> QED BY <1>2, <1>7, <1>10, <2>1, <3>1, <4>4 DEF Answers
    <3>2. CASE m # "metrics" /\ result' = result
      BY <1>2, <1>4, <1>7, <2>1, <3>2
    <3>3. CASE m = "recovery" /\ result = "panic" /\ result' = "error"
      BY <1>2, <1>4, <1>7, <2>1, <2>2, <3>3
    <3>4. CASE m = "custom"
      <4>1. Below(middleware, "metrics", depth) = {}
        <5> SUFFICES ASSUME NEW i \in Below(middleware, "metrics", depth) PROVE FALSE
          OBVIOUS
        <5>1. i \in MetricsAt /\ depth \in 1..(i - 1)
          BY <1>2, <1>3 DEF Below, MetricsAt
        <5> QED BY <1>1, <1>15, <3>4, <5>1 DEF MetricsClean
      <4>2. b = 0
        BY <2>2, <4>1
      <4>3. counted.success = 0 /\ counted.failure = 0
        BY <2>1, <4>2
      <4> QED BY <1>2, <1>4, <1>7, <3>4, <4>1, <4>2, <4>3
    <3> QED BY <1>2, <3>1, <3>2, <3>3, <3>4
  <2>4. counted' = [success |-> IF result' = "nil" THEN c ELSE 0, failure |-> IF result' = "nil" THEN 0 ELSE c]
    BY <1>2, <2>3 DEF Counters
  <2> QED BY <2>3, <2>4 DEF Counts
<1>16. WayOut'
  <2>1. result' # "none" /\ started' = 1
    BY <1>2, <1>10 DEF Answers
  <2>2. /\ result' = "nil" <=> verdict' = "nil"
        /\ verdict' # "none"
    BY <1>2 DEF IInv, WayOut, Answers
  <2>3. (MetricsClean' <=> MetricsClean) /\ (Shielded(1)' <=> Shielded(1))
    BY <1>2 DEF MetricsClean, MetricsAt, Shielded
  <2>4. c = Cardinality(Below(middleware', "metrics", depth'))
    BY <1>2, <1>6
  <2>5. MetricsClean' => /\ result' = "panic" => Below(middleware', "metrics", depth') = {}
                         /\ counted' = Counts(Cardinality(Below(middleware, "metrics", depth)))'
    <3>1. Counts(c)' = Counts(Cardinality(Below(middleware, "metrics", depth)))'
      BY <2>4 DEF Counts
    <3> QED BY <1>2, <1>15, <2>3, <3>1
  <2>6. depth' = 0 /\ Shielded(1)' => finished' = 1
    BY <1>14, <2>3
  <2>7. counted'.success + counted'.failure <= Cardinality(Below(middleware', "metrics", depth'))
    BY <1>8, <2>4
  <2> QED BY <2>1, <2>2, <2>5, <2>6, <2>7 DEF WayOut
<1> QED BY <1>2, <1>9, <1>11, <1>12, <1>13, <1>16 DEF IInv, TimerInv, WayIn, OutcomeIsVerdict

\* runHandler's recover is the last place that a panic can reach.
LEMMA RunHandlerIInv ==
  ASSUME IInv, RunHandler
  PROVE  IInv'
<1> USE DEF jobVars, attemptVars
<1>1. /\ stage = "out" /\ depth = 0 /\ stage' = "returned"
      /\ result' = (IF result = "panic" THEN "error" ELSE result)
      /\ UNCHANGED <<middleware, depth, jobVars, attemptVars>>
  BY DEF RunHandler
<1>2. result \in Answers /\ result' \in {"nil", "error"}
  BY <1>1 DEF IInv, WayOut, TypeOK, Results, Answers
<1>3. TypeOK'
  <2>1. result' \in Results /\ stage' \in Stages
    BY <1>1, <1>2 DEF Results, Answers, Stages
  <2> QED BY <1>1, <2>1 DEF IInv, TypeOK
<1>4. ChainInv' /\ AttemptInv'
  BY <1>1 DEF IInv, ChainInv, AttemptInv
<1>5. TimerInv'
  <2>1. Entered(middleware, "timeout", 0) = {}
    BY DEF Entered, IInv, TypeOK
  <2>2. Cardinality({}) = 0
    BY FS_EmptySet
  <2> QED BY <1>1, <2>1, <2>2 DEF IInv, TimerInv
<1>6. WayOut'
  <2>1. (MetricsClean' <=> MetricsClean) /\ (Shielded(1)' <=> Shielded(1))
    BY <1>1 DEF MetricsClean, MetricsAt, Shielded
  <2>2. PICK b : b = Cardinality(Below(middleware, "metrics", depth))
    OBVIOUS
  <2>3. b = Cardinality(Below(middleware', "metrics", depth'))
    BY <1>1, <2>2
  <2>4. ASSUME MetricsClean PROVE counted' = Counts(b)'
    <3>1. counted = Counts(b) /\ (result = "panic" => b = 0)
      BY <1>1, <2>2, <2>4, FS_EmptySet DEF IInv, WayOut
    <3> QED BY <1>1, <1>2, <3>1 DEF Counts, Answers
  <2>5. MetricsClean' => counted' = Counts(Cardinality(Below(middleware, "metrics", depth)))'
    <3>1. Counts(b)' = Counts(Cardinality(Below(middleware, "metrics", depth)))'
      BY <2>3 DEF Counts
    <3> QED BY <2>1, <2>4, <3>1
  <2>6. /\ started' = 1
        /\ result' = "nil" <=> verdict' = "nil"
        /\ verdict' # "none"
        /\ Shielded(1)' => finished' = 1
        /\ counted'.success + counted'.failure <= Cardinality(Below(middleware', "metrics", depth'))
    BY <1>1, <2>1 DEF IInv, WayOut
  <2> QED BY <1>1, <1>2, <2>5, <2>6 DEF WayOut
<1> QED BY <1>1, <1>2, <1>3, <1>4, <1>5, <1>6 DEF IInv, WayIn, OutcomeIsVerdict

LEMMA AcknowledgeIInv ==
  ASSUME IInv, Acknowledge
  PROVE  IInv'
<1> USE DEF Acknowledge, Record, jobVars, attemptVars
<1>1. TypeOK'
  BY DEF IInv, TypeOK, Stages
<1>2. ChainInv'
  BY DEF IInv, ChainInv
<1>3. AttemptInv'
  BY DEF AttemptInv
<1>4. OutcomeIsVerdict'
  BY DEF IInv, WayOut, OutcomeIsVerdict
<1> QED BY <1>1, <1>2, <1>3, <1>4, OutsideIInv

LEMMA FailDeadIInv ==
  ASSUME IInv, FailDead
  PROVE  IInv'
<1> USE DEF FailDead, CountedAttempts, Record, attemptVars
<1>1. TypeOK'
  <2>1. attempts' \in 0..MaxAttempts
    BY ProcessAssumption DEF IInv, TypeOK, AttemptInv
  <2> QED BY <2>1 DEF IInv, TypeOK, Stages
<1>2. ChainInv'
  BY DEF IInv, ChainInv
<1>3. AttemptInv'
  BY DEF AttemptInv
<1>4. OutcomeIsVerdict'
  <2>1. verdict' \in {"error", "panic"}
    BY DEF IInv, WayOut, TypeOK, Results, Answers
  <2> QED BY <2>1 DEF OutcomeIsVerdict
<1> QED BY <1>1, <1>2, <1>3, <1>4, OutsideIInv

\* The delay is the one of this attempt, with the jitter in its range.
LEMMA NextDelayFacts ==
  ASSUME NEW a \in Nat, NEW jitter \in Jitters
  PROVE  /\ NextDelay(a, jitter) \in Nat
         /\ NextDelay(a, jitter) >= a * a * a * a + 15
         /\ NextDelay(a, jitter) <= a * a * a * a + 15 + 29 * (a + 1)
<1>1. jitter \in 0..29
  BY ProcessAssumption
<1> DEFINE n == a + 1
           x == jitter * n
<1>2. n \in Nat
  OBVIOUS
<1>3. x \in Nat /\ x <= 29 * n
  <2> HIDE DEF n
  <2> QED BY <1>1, <1>2
<1>4. a * a * a * a \in Nat
  OBVIOUS
<1> HIDE DEF x
<1> QED BY <1>3, <1>4 DEF NextDelay, x

LEMMA FailRetryIInv ==
  ASSUME IInv, NEW jitter \in Jitters, FailRetry(jitter)
  PROVE  IInv'
<1> USE DEF attemptVars
<1>1. /\ stage = "returned" /\ stage' \in {"waiting", "stranded"}
      /\ attempts \in Nat /\ attempts' = attempts + 1 /\ attempts' < MaxAttempts
      /\ delay' = NextDelay(attempts', jitter)
      /\ UNCHANGED <<middleware, depth, result, registered, attemptVars>>
  BY ProcessAssumption DEF FailRetry, CountedAttempts, Exhausted, Record, IInv, TypeOK
<1>2. PICK a \in Nat : a = attempts'
  BY <1>1
<1>3. delay' \in Nat /\ delay' <= a * a * a * a + 15 + 29 * (a + 1)
  BY <1>1, <1>2, NextDelayFacts
<1>4. TypeOK'
  <2>1. attempts' \in 0..MaxAttempts
    BY <1>1, ProcessAssumption
  <2> QED BY <1>1, <1>3, <2>1 DEF IInv, TypeOK, Stages
<1>5. ChainInv'
  BY <1>1 DEF IInv, ChainInv
<1>6. AttemptInv'
  BY <1>1, <1>2, <1>3 DEF AttemptInv
<1>7. OutcomeIsVerdict'
  BY <1>1 DEF OutcomeIsVerdict
<1> QED BY <1>1, <1>4, <1>5, <1>6, <1>7, OutsideIInv

LEMMA NextIInv ==
  ASSUME IInv, [Next]_vars
  PROVE  IInv'
<1>1. CASE UNCHANGED vars
  <2> USE <1>1 DEF vars, jobVars, attemptVars
  <2>1. TypeOK' /\ ChainInv' /\ AttemptInv' /\ TimerInv' /\ WayIn'
    BY DEF IInv, TypeOK, ChainInv, AttemptInv, TimerInv, WayIn
  <2>2. stage' = "out" => NoPanicInv'
    BY DEF IInv, NoPanicInv, Guards
  <2>3. WayOut'
    BY DEF IInv, WayOut, MetricsClean, MetricsAt, Shielded, Counts
  <2> QED BY <2>1, <2>2, <2>3 DEF IInv, OutcomeIsVerdict
<1>2. CASE Next
  <2>1. CASE \E m \in Usable : Use(m)
    BY <2>1, UseIInv
  <2>2. CASE Start \/ NoHandler
    BY <2>2, StartIInv
  <2>3. CASE Begin
    BY <2>3, BeginIInv
  <2>4. CASE Enter
    BY <2>4, EnterIInv
  <2>5. CASE \E r \in Answers : SkipNext(r)
    BY <2>5, TurnIInv
  <2>6. CASE \E r \in Answers : CallHandler(r)
    BY <2>6, TurnIInv
  <2>7. CASE LeaveLogging \/ LeaveRecovery \/ LeaveTimeout \/ LeaveMetrics
             \/ \E r \in Answers : LeaveCustom(r)
    BY <2>7, LeaveIInv
  <2>8. CASE RunHandler
    BY <2>8, RunHandlerIInv
  <2>9. CASE Acknowledge
    BY <2>9, AcknowledgeIInv
  <2>10. CASE FailDead
    BY <2>10, FailDeadIInv
  <2>11. CASE \E jitter \in Jitters : FailRetry(jitter)
    BY <2>11, FailRetryIInv
  <2> QED BY <1>2, <2>1, <2>2, <2>3, <2>4, <2>5, <2>6, <2>7, <2>8, <2>9, <2>10, <2>11
          DEF Next, WorkerNext
<1> QED BY <1>1, <1>2

\* The invariant that the safety properties rest on.
THEOREM Invariance == Spec => []IInv
<1>1. IInv /\ [Next]_vars => IInv'
  BY NextIInv
<1> QED BY InitIInv, <1>1, PTL DEF Spec

-----------------------------------------------------------------------------
(* What follows from it                                                    *)

\* Every variable keeps its type; of these, that the attempts of a job stay
\* within its budget, and counters and timers within the middlewares added.
THEOREM TypeCorrect == Spec => []TypeOK
<1>1. IInv => TypeOK
  BY DEF IInv
<1> QED BY Invariance, <1>1, PTL

\* Whatever the chain, runHandler and the middlewares of the repository hand the
\* last word of the user's code to the pool: only its nil is acknowledged, and
\* never turned into a failure.
THEOREM VerdictIsKept == Spec => []OutcomeIsVerdict
<1>1. IInv => OutcomeIsVerdict
  BY DEF IInv
<1> QED BY Invariance, <1>1, PTL

\* Every "job started" has its "job finished" in a chain whose logging is
\* shielded by a recovery, whatever else is in it and in any order.
THEOREM LogLinesPaired == Spec => []LogsPaired
<1>1. IInv => LogsPaired
  BY DEF IInv, WayOut, LogsPaired
<1> QED BY Invariance, <1>1, PTL

\* The metrics count the outcome that the pool acts on, once for each metrics
\* middleware that a recovery shields and nothing custom surrounds.
THEOREM MetricsAgree == Spec => []MetricsMatchOutcome
<1>1. ASSUME IInv, stage = "returned", MetricsClean
      PROVE  counted = [success |-> IF result = "nil" THEN Cardinality(MetricsAt) ELSE 0,
                        failure |-> IF result = "nil" THEN 0 ELSE Cardinality(MetricsAt)]
  <2>1. Below(middleware, "metrics", depth) = MetricsAt
    BY <1>1 DEF IInv, TypeOK, Below, MetricsAt
  <2> QED BY <1>1, <2>1 DEF IInv, WayOut, Counts
<1>2. IInv => MetricsMatchOutcome
  BY <1>1 DEF MetricsMatchOutcome, MetricsClean
<1> QED BY Invariance, <1>2, PTL

\* No attempt leaves a timer behind, however it ends.
THEOREM NoTimerLeft == Spec => []TimersReleased
<1>1. IInv => TimersReleased
  BY DEF IInv, TimerInv, TimersReleased
<1> QED BY Invariance, <1>1, PTL

\* After the third failure a delay is longer than any that the failure before
\* it could have given.
LEMMA DelayGrows ==
  ASSUME NEW a \in Nat, a >= 3
  PROVE  (a + 1) * (a + 1) * (a + 1) * (a + 1) > a * a * a * a + 29 * (a + 1)
OBVIOUS

LEMMA BackoffStep ==
  ASSUME IInv, [Next]_vars, attempts >= 3, delay' # delay
  PROVE  delay' > delay
<1>1. PICK jitter \in Jitters : FailRetry(jitter)
  BY DEF Next, WorkerNext, Use, Start, NoHandler, Begin, Enter, SkipNext, CallHandler, Answer, Leave,
    LeaveLogging, LeaveRecovery, LeaveTimeout, LeaveMetrics, LeaveCustom, RunHandler, Acknowledge,
    FailDead, vars, jobVars
<1>2. PICK a \in Nat : a = attempts
  BY DEF IInv, TypeOK
<1>3. delay \in Nat /\ delay <= a * a * a * a + 15 + 29 * (a + 1)
  BY <1>1, <1>2 DEF FailRetry, IInv, TypeOK, AttemptInv
<1>4. PICK n \in Nat : n = a + 1
  OBVIOUS
<1>5. delay' = NextDelay(n, jitter)
  BY <1>1, <1>2, <1>4 DEF FailRetry, CountedAttempts
<1>6. delay' \in Nat /\ delay' >= n * n * n * n + 15
  BY <1>5, NextDelayFacts
<1>7. n * n * n * n > a * a * a * a + 29 * (a + 1)
  BY <1>2, <1>4, DelayGrows
<1> DEFINE x == n * n * n * n
           y == a * a * a * a
           z == 29 * (a + 1)
<1>8. x \in Nat /\ y \in Nat /\ z \in Nat
  OBVIOUS
<1> HIDE DEF x, y, z
<1>9. delay <= y + 15 + z /\ delay' >= x + 15 /\ x > y + z
  BY <1>3, <1>6, <1>7 DEF x, y, z
<1> QED BY <1>3, <1>6, <1>8, <1>9

\* Retry delays grow after the third failure, whatever the jitter.
THEOREM DelaysGrow == Spec => BackoffGrows
<1>1. IInv /\ [Next]_vars => [attempts >= 3 /\ delay' # delay => delay' > delay]_vars
  BY BackoffStep
<1> QED BY Invariance, <1>1, PTL DEF Spec, BackoffGrows
==============================================================================
