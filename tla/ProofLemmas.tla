---------------------------- MODULE ProofLemmas ----------------------------
(***************************************************************************)
(* Facts about numbers and sequences that the proofs of several components *)
(* rest on.                                                                *)
(***************************************************************************)
EXTENDS Integers, SequencesExt, FiniteSetTheorems, WellFoundedInduction, TLAPS

Elems(s) == {s[i] : i \in DOMAIN s}
Distinct(s) == \A i, k \in DOMAIN s : s[i] = s[k] => i = k

-----------------------------------------------------------------------------
(* Numbers                                                                 *)

\* Every set of numbers that is not empty has a least element.
LEMMA LeastElement ==
  ASSUME NEW T, T \subseteq Nat, T # {}
  PROVE  \E x \in T : \A y \in T : x <= y
<1> DEFINE R == OpToRel(<, Nat)
<1>1. IsWellFoundedOn(R, Nat)
  BY NatLessThanWellFounded
<1>2. \A m, n \in Nat : m < n => <<m, n>> \in R
  BY DEF OpToRel
<1> HIDE DEF R
<1>3. PICK x \in T : \A y \in T : ~(<<y, x>> \in R)
  BY <1>1, WFMin
<1>4. ASSUME NEW y \in T PROVE x <= y
  <2>1. x \in Nat /\ y \in Nat
    OBVIOUS
  <2>2. ~(y < x)
    BY <1>2, <1>3, <2>1
  <2> QED BY <2>1, <2>2
<1> QED BY <1>4

\* Induction, for the numbers that a set collects: a set that has 0 and with
\* each number its successor, up to N, has all numbers up to N.
LEMMA InductionUpTo ==
  ASSUME NEW N \in Nat, NEW T, 0 \in T, \A n \in 0..(N - 1) : n \in T => n + 1 \in T
  PROVE  \A n \in 0..N : n \in T
<1> DEFINE U == {n \in 0..N : n \notin T}
<1> SUFFICES ASSUME U # {} PROVE FALSE
  OBVIOUS
<1>1. U \subseteq Nat
  OBVIOUS
<1>2. PICK x \in U : \A y \in U : x <= y
  <2> HIDE DEF U
  <2> QED BY <1>1, LeastElement
<1>3. x # 0 /\ x \in 0..N /\ x \notin T
  OBVIOUS
<1>4. x - 1 \in 0..(N - 1) /\ x - 1 < x
  BY <1>3
<1>5. x - 1 \in T
  BY <1>2, <1>3, <1>4
<1> QED BY <1>3, <1>4, <1>5

-----------------------------------------------------------------------------
(* Sequences                                                               *)

\* An element is added at the end.
LEMMA AppendElems ==
  ASSUME NEW S, NEW s \in Seq(S), NEW e \in S
  PROVE  /\ Append(s, e) \in Seq(S)
         /\ Elems(Append(s, e)) = Elems(s) \cup {e}
<1> DEFINE t == Append(s, e)
<1>1. t \in Seq(S) /\ Len(t) = Len(s) + 1 /\ DOMAIN t = 1..(Len(s) + 1) /\ DOMAIN s = 1..Len(s)
  OBVIOUS
<1>2. /\ \A i \in 1..Len(s) : t[i] = s[i]
      /\ t[Len(s) + 1] = e
      /\ Len(s) \in Nat
  OBVIOUS
<1> HIDE DEF t
<1>3. ASSUME NEW x \in Elems(t) PROVE x \in Elems(s) \cup {e}
  BY <1>1, <1>2, <1>3 DEF Elems
<1>4. ASSUME NEW x \in Elems(s) \cup {e} PROVE x \in Elems(t)
  <2>1. CASE x = e
    BY <1>1, <1>2, <2>1 DEF Elems
  <2>2. CASE x \in Elems(s)
    <3>1. PICK i \in 1..Len(s) : x = s[i]
      BY <1>1, <2>2 DEF Elems
    <3>2. t[i] = x /\ i \in DOMAIN t
      BY <1>1, <1>2, <3>1
    <3> QED BY <3>2 DEF Elems
  <2> QED BY <1>4, <2>1, <2>2
<1> QED BY <1>1, <1>3, <1>4 DEF t

\* The first element is taken off; it may occur again behind.
LEMMA TailElems ==
  ASSUME NEW S, NEW s \in Seq(S), s # <<>>
  PROVE  /\ Tail(s) \in Seq(S)
         /\ Head(s) \in S
         /\ Elems(s) = Elems(Tail(s)) \cup {Head(s)}
<1> DEFINE t == Tail(s)
<1>1. /\ t \in Seq(S) /\ Len(s) \in Nat /\ Len(s) >= 1
      /\ DOMAIN t = 1..(Len(s) - 1) /\ DOMAIN s = 1..Len(s)
      /\ Head(s) = s[1]
  OBVIOUS
<1>2. \A i \in 1..(Len(s) - 1) : t[i] = s[i + 1]
  OBVIOUS
<1>3. Head(s) \in S /\ Head(s) \in Elems(s)
  BY <1>1 DEF Elems
<1> HIDE DEF t
<1>4. ASSUME NEW x \in Elems(t) PROVE x \in Elems(s)
  <2>1. PICK i \in 1..(Len(s) - 1) : x = t[i]
    BY <1>1 DEF Elems
  <2>2. x = s[i + 1] /\ i + 1 \in DOMAIN s
    BY <1>1, <1>2, <2>1
  <2> QED BY <2>2 DEF Elems
<1>5. ASSUME NEW x \in Elems(s), x # Head(s) PROVE x \in Elems(t)
  <2>1. PICK i \in 1..Len(s) : x = s[i]
    BY <1>1 DEF Elems
  <2>2. i # 1
    BY <1>1, <1>5, <2>1
  <2>3. i - 1 \in 1..(Len(s) - 1) /\ (i - 1) + 1 = i
    BY <1>1, <2>1, <2>2
  <2>4. t[i - 1] = x
    BY <1>2, <2>1, <2>3
  <2> QED BY <1>1, <2>3, <2>4 DEF Elems
<1> QED BY <1>1, <1>3, <1>4, <1>5 DEF t

\* An element that the sequence lacks is added at its end (LPUSH, a channel's
\* send): this element is new, and elements stay distinct.
LEMMA AppendFacts ==
  ASSUME NEW S, NEW s \in Seq(S), NEW e \in S, Distinct(s), e \notin Elems(s)
  PROVE  /\ Append(s, e) \in Seq(S)
         /\ Distinct(Append(s, e))
         /\ Elems(Append(s, e)) = Elems(s) \cup {e}
<1> DEFINE t == Append(s, e)
<1>1. t \in Seq(S) /\ Len(t) = Len(s) + 1 /\ DOMAIN t = 1..(Len(s) + 1) /\ DOMAIN s = 1..Len(s)
  OBVIOUS
<1>2. /\ \A i \in 1..Len(s) : t[i] = s[i]
      /\ t[Len(s) + 1] = e
      /\ Len(s) \in Nat
  OBVIOUS
<1> HIDE DEF t
<1>3. Distinct(t)
  BY <1>1, <1>2 DEF Distinct, Elems
<1>4. Elems(t) = Elems(s) \cup {e}
  BY AppendElems DEF t
<1> QED BY <1>1, <1>3, <1>4 DEF t

\* The first element is taken off (RPOP, a channel's receive): exactly this
\* element is gone.
LEMMA TailFacts ==
  ASSUME NEW S, NEW s \in Seq(S), Distinct(s), s # <<>>
  PROVE  /\ Tail(s) \in Seq(S)
         /\ Head(s) \in Elems(s)
         /\ Head(s) \in S
         /\ Distinct(Tail(s))
         /\ Elems(Tail(s)) = Elems(s) \ {Head(s)}
<1> DEFINE t == Tail(s)
<1>1. /\ t \in Seq(S) /\ Len(s) \in Nat /\ Len(s) >= 1
      /\ DOMAIN t = 1..(Len(s) - 1) /\ DOMAIN s = 1..Len(s)
      /\ Head(s) = s[1]
  OBVIOUS
<1>2. \A i \in 1..(Len(s) - 1) : t[i] = s[i + 1]
  OBVIOUS
<1>3. Head(s) \in S /\ Head(s) \in Elems(s)
  BY <1>1 DEF Elems
<1> HIDE DEF t
<1>4. Distinct(t)
  <2> SUFFICES ASSUME NEW i \in 1..(Len(s) - 1), NEW k \in 1..(Len(s) - 1), t[i] = t[k]
              PROVE  i = k
    BY <1>1 DEF Distinct
  <2>1. s[i + 1] = s[k + 1] /\ i + 1 \in DOMAIN s /\ k + 1 \in DOMAIN s
    BY <1>1, <1>2
  <2>2. i + 1 = k + 1
    BY <2>1 DEF Distinct
  <2> QED BY <2>2
<1>5. Elems(t) = Elems(s) \ {Head(s)}
  <2>1. ASSUME NEW x \in Elems(t) PROVE x \in Elems(s) \ {Head(s)}
    <3>1. PICK i \in 1..(Len(s) - 1) : x = t[i]
      BY <1>1 DEF Elems
    <3>2. x = s[i + 1] /\ i + 1 \in DOMAIN s /\ 1 \in DOMAIN s /\ i + 1 # 1
      BY <1>1, <1>2, <3>1
    <3>3. s[i + 1] # s[1]
      BY <3>2 DEF Distinct
    <3> QED BY <1>1, <3>2, <3>3 DEF Elems
  <2>2. ASSUME NEW x \in Elems(s) \ {Head(s)} PROVE x \in Elems(t)
    <3>1. PICK i \in 1..Len(s) : x = s[i]
      BY <1>1 DEF Elems
    <3>2. i # 1
      BY <1>1, <3>1
    <3>3. i - 1 \in 1..(Len(s) - 1) /\ (i - 1) + 1 = i
      BY <1>1, <3>1, <3>2
    <3>4. t[i - 1] = x
      BY <1>2, <3>1, <3>3
    <3> QED BY <1>1, <3>3, <3>4 DEF Elems
  <2> QED BY <2>1, <2>2
<1> QED BY <1>1, <1>3, <1>4, <1>5 DEF t

\* RemoveFirst leaves a sequence of the same type.
LEMMA RemoveFirstType ==
  ASSUME NEW S, NEW s \in Seq(S), NEW e
  PROVE  RemoveFirst(s, e) \in Seq(S)
<1> DEFINE I == {i \in 1..Len(s) : s[i] = e}
<1>1. CASE I = {}
  BY <1>1 DEF RemoveFirst
<1>2. CASE I # {}
  <2>1. I \subseteq Nat
    OBVIOUS
  <2>2. \E x \in I : \A y \in I : x <= y
    <3> HIDE DEF I
    <3> QED BY <1>2, <2>1, LeastElement
  <2>3. Min(I) \in I
    <3> HIDE DEF I
    <3> QED BY <2>2 DEF Min
  <2>4. RemoveFirst(s, e) = RemoveAt(s, Min(I))
    BY <1>2 DEF RemoveFirst, SelectInSeq
  <2>5. ASSUME NEW i \in 1..Len(s) PROVE RemoveAt(s, i) \in Seq(S)
    <3>1. SubSeq(s, 1, i - 1) \in Seq(S) /\ SubSeq(s, i + 1, Len(s)) \in Seq(S)
      OBVIOUS
    <3> QED BY <3>1 DEF RemoveAt
  <2>6. Min(I) \in 1..Len(s)
    BY <2>3
  <2> QED BY <2>4, <2>5, <2>6
<1> QED BY <1>1, <1>2

\* An ordering of a finite set is a sequence of its elements.
LEMMA SetToSeqsType ==
  ASSUME NEW S, NEW U, U \subseteq S, IsFiniteSet(U), NEW s \in SetToSeqs(U)
  PROVE  s \in Seq(S)
<1>1. Cardinality(U) \in Nat
  BY FS_CardinalityType
<1>2. s \in [1..Cardinality(U) -> U]
  BY DEF SetToSeqs
<1> QED BY <1>1, <1>2

\* An element put in front.
LEMMA ConsFacts ==
  ASSUME NEW S, NEW e \in S, NEW s \in Seq(S)
  PROVE  /\ <<e>> \o s \in Seq(S) /\ Len(<<e>> \o s) = Len(s) + 1
         /\ (<<e>> \o s)[1] = e
         /\ \A i \in 1..Len(s) : (<<e>> \o s)[i + 1] = s[i]
<1>1. <<e>> \in Seq(S) /\ Len(<<e>>) = 1
  OBVIOUS
<1>2. <<e>> \o s \in Seq(S) /\ Len(<<e>> \o s) = Len(s) + 1
  BY <1>1
<1>3. (<<e>> \o s)[1] = e
  BY <1>1
<1>4. ASSUME NEW i \in 1..Len(s) PROVE (<<e>> \o s)[i + 1] = s[i]
  BY <1>1
<1> QED BY <1>2, <1>3, <1>4

-----------------------------------------------------------------------------
(* Finite sets and sums                                                    *)

\* Induction, for the subsets of a finite set that a set collects.
LEMMA SubsetInduction ==
  ASSUME NEW S, IsFiniteSet(S), NEW T, {} \in T,
         \A s \in SUBSET S : s \in T => \A x \in S \ s : s \cup {x} \in T
  PROVE  \A s \in SUBSET S : s \in T
<1> DEFINE N == Cardinality(S)
           M == {n \in Nat : \A s \in SUBSET S : Cardinality(s) = n => s \in T}
<1>1. N \in Nat /\ \A s \in SUBSET S : /\ IsFiniteSet(s)
                                       /\ Cardinality(s) \in 0..N
  BY FS_CardinalityType, FS_Subset
<1>2. 0 \in M
  BY <1>1, FS_EmptySet
<1>3. ASSUME NEW n \in 0..(N - 1), n \in M PROVE n + 1 \in M
  <2> SUFFICES ASSUME NEW s \in SUBSET S, Cardinality(s) = n + 1 PROVE s \in T
    BY <1>1
  <2>1. s # {}
    BY <1>1, FS_EmptySet
  <2>2. PICK x : x \in s
    BY <2>1
  <2>3. IsFiniteSet(s \ {x}) /\ Cardinality(s \ {x}) = Cardinality(s) - 1
    BY <1>1, <2>2, FS_RemoveElement
  <2>4. s \ {x} \in T
    BY <1>3, <2>3
  <2>5. x \in S \ (s \ {x}) /\ (s \ {x}) \cup {x} = s
    BY <2>2
  <2> QED BY <2>4, <2>5
<1>4. \A n \in 0..N : n \in M
  <2> HIDE DEF M, N
  <2> QED BY <1>1, <1>2, <1>3, InductionUpTo
<1> QED BY <1>1, <1>4

\* h sums up f over every subset of S, in whatever order.
SumsUp(f, S, h) ==
  /\ h[{}] = 0
  /\ \A s \in SUBSET S : h[s] \in Nat /\ \A x \in s : h[s] = f[x] + h[s \ {x}]

\* Every finite set has such an h.
LEMMA SumsExist ==
  ASSUME NEW S, IsFiniteSet(S), NEW f, \A x \in S : f[x] \in Nat
  PROVE  \E h : SumsUp(f, S, h)
<1> DEFINE T == {s \in SUBSET S : \E h : SumsUp(f, s, h)}
<1>1. {} \in T
  <2> DEFINE h == [s \in {{}} |-> 0]
  <2>1. SumsUp(f, {}, h)
    BY DEF SumsUp
  <2> QED BY <2>1
<1>2. ASSUME NEW s \in SUBSET S, s \in T, NEW y \in S \ s PROVE s \cup {y} \in T
  <2>1. PICK h : SumsUp(f, s, h)
    BY <1>2
  <2> DEFINE g == [t \in SUBSET (s \cup {y}) |-> IF y \in t THEN f[y] + h[t \ {y}] ELSE h[t]]
  <2>2. \A t \in SUBSET (s \cup {y}) :
          /\ y \in t => t \ {y} \in SUBSET s /\ g[t] = f[y] + h[t \ {y}]
          /\ y \notin t => t \in SUBSET s /\ g[t] = h[t]
    OBVIOUS
  <2> HIDE DEF g
  <2>3. g[{}] = 0
    BY <2>1, <2>2 DEF SumsUp
  <2>4. ASSUME NEW t \in SUBSET (s \cup {y}) PROVE g[t] \in Nat
    <3>1. f[y] \in Nat /\ \A u \in SUBSET s : h[u] \in Nat
      BY <2>1 DEF SumsUp
    <3>2. CASE y \in t
      <4>1. PICK u \in SUBSET s : g[t] = f[y] + h[u]
        BY <2>2, <3>2
      <4> QED BY <3>1, <4>1
    <3>3. CASE y \notin t
      BY <2>2, <3>1, <3>3
    <3> QED BY <3>2, <3>3
  <2>5. ASSUME NEW t \in SUBSET (s \cup {y}), NEW x \in t PROVE g[t] = f[x] + g[t \ {x}]
    <3>1. t \ {x} \in SUBSET (s \cup {y}) /\ f[x] \in Nat /\ f[y] \in Nat
      OBVIOUS
    <3>2. CASE y \notin t
      <4>1. g[t] = h[t] /\ g[t \ {x}] = h[t \ {x}] /\ t \in SUBSET s
        BY <2>2, <3>1, <3>2
      <4> QED BY <2>1, <4>1 DEF SumsUp
    <3>3. CASE x = y
      <4>1. g[t] = f[y] + h[t \ {y}] /\ g[t \ {y}] = h[t \ {y}]
        BY <2>2, <3>1, <3>3
      <4> QED BY <3>3, <4>1
    <3>4. CASE y \in t /\ x # y
      <4> DEFINE u == t \ {y}
                 v == (t \ {x}) \ {y}
      <4>1. u \in SUBSET s /\ x \in u /\ u \ {x} = v /\ v \in SUBSET s
        BY <3>4
      <4>2. g[t] = f[y] + h[u] /\ g[t \ {x}] = f[y] + h[v]
        BY <2>2, <3>1, <3>4
      <4>3. h[u] = f[x] + h[v] /\ h[v] \in Nat
        BY <2>1, <4>1 DEF SumsUp
      <4> HIDE DEF u, v
      <4> QED BY <3>1, <4>2, <4>3
    <3> QED BY <3>2, <3>3, <3>4
  <2>6. SumsUp(f, s \cup {y}, g)
    BY <2>3, <2>4, <2>5 DEF SumsUp
  <2> QED BY <2>6
<1>3. S \in T
  <2> HIDE DEF T
  <2> QED BY <1>1, <1>2, SubsetInduction
<1> QED BY <1>3

\* It is what SumFunctionOnSet computes.
LEMMA SumIsSumsUp ==
  ASSUME NEW S, IsFiniteSet(S), NEW f, NEW h, SumsUp(f, S, h)
  PROVE  SumFunctionOnSet(f, S) = h[S]
<1> DEFINE Body(g) == [s \in SUBSET S |->
                         IF s = {} THEN 0
                         ELSE f[CHOOSE x \in s : TRUE] + g[s \ {CHOOSE x \in s : TRUE}]]
           up == CHOOSE g : g = Body(g)
           k == [s \in SUBSET S |-> h[s]]
<1>1. SumFunctionOnSet(f, S) = up[S]
  BY DEF SumFunctionOnSet, FoldFunctionOnSet, MapThenFoldSet
<1>2. ASSUME NEW s \in SUBSET S, s # {}
      PROVE  (CHOOSE x \in s : TRUE) \in s
  BY <1>2
<1>3. k = Body(k)
  <2>1. ASSUME NEW s \in SUBSET S PROVE k[s] = Body(k)[s]
    <3>1. CASE s = {}
      BY <3>1 DEF SumsUp
    <3>2. CASE s # {}
      <4> DEFINE x == CHOOSE x \in s : TRUE
      <4>1. x \in s
        BY <1>2, <3>2
      <4>2. Body(k)[s] = f[x] + k[s \ {x}]
        BY <3>2
      <4> HIDE DEF x
      <4> QED BY <4>1, <4>2 DEF SumsUp
    <3> QED BY <3>1, <3>2
  <2> QED BY <2>1
<1>4. up = Body(up)
  <2> HIDE DEF Body
  <2> QED BY <1>3
<1> HIDE DEF up, k, Body
<1> DEFINE N == Cardinality(S)
           M == {n \in Nat : \A s \in SUBSET S : Cardinality(s) = n => up[s] = k[s]}
<1>5. N \in Nat /\ \A s \in SUBSET S : IsFiniteSet(s) /\ Cardinality(s) \in Nat
  BY FS_CardinalityType, FS_Subset
<1>6. 0 \in M
  <2> SUFFICES ASSUME NEW s \in SUBSET S, Cardinality(s) = 0 PROVE up[s] = k[s]
    OBVIOUS
  <2>1. s = {}
    BY <1>5, FS_EmptySet
  <2>2. Body(up)[s] = 0 /\ Body(k)[s] = 0
    BY <2>1 DEF Body
  <2> QED BY <1>3, <1>4, <2>2
<1>7. ASSUME NEW n \in 0..(N - 1), n \in M PROVE n + 1 \in M
  <2>0. n \in Nat /\ n + 1 \in Nat
    BY <1>5
  <2> SUFFICES ASSUME NEW s \in SUBSET S, Cardinality(s) = n + 1 PROVE up[s] = k[s]
    BY <2>0
  <2> DEFINE x == CHOOSE x \in s : TRUE
  <2>1. s # {}
    BY <1>5, FS_EmptySet
  <2>2. x \in s
    BY <1>2, <2>1
  <2>3. Body(up)[s] = f[x] + up[s \ {x}] /\ Body(k)[s] = f[x] + k[s \ {x}]
    BY <2>1 DEF Body
  <2> HIDE DEF x
  <2>4. s \ {x} \in SUBSET S /\ Cardinality(s \ {x}) = n
    BY <1>5, <2>2, FS_RemoveElement
  <2>5. up[s \ {x}] = k[s \ {x}]
    BY <1>7, <2>4
  <2> QED BY <1>3, <1>4, <2>3, <2>5
<1>8. \A n \in 0..N : n \in M
  <2> HIDE DEF M, N
  <2> QED BY <1>5, <1>6, <1>7, InductionUpTo
<1>9. up[S] = k[S]
  BY <1>5, <1>8
<1> QED BY <1>1, <1>9 DEF k

\* The sum over a finite set: 0 over none, and any element can be split off.
LEMMA SumFacts ==
  ASSUME NEW S, IsFiniteSet(S), NEW f, \A x \in S : f[x] \in Nat
  PROVE  /\ SumFunctionOnSet(f, {}) = 0
         /\ SumFunctionOnSet(f, S) \in Nat
         /\ \A x \in S : SumFunctionOnSet(f, S) = f[x] + SumFunctionOnSet(f, S \ {x})
<1>1. PICK h : SumsUp(f, S, h)
  BY SumsExist
<1>2. ASSUME NEW s \in SUBSET S PROVE SumFunctionOnSet(f, s) = h[s]
  <2>1. SumsUp(f, s, h)
    BY <1>1 DEF SumsUp
  <2>2. IsFiniteSet(s)
    BY FS_Subset
  <2> QED BY <2>1, <2>2, SumIsSumsUp
<1> QED BY <1>1, <1>2 DEF SumsUp

\* Larger summands give a larger sum.
LEMMA SumMonotone ==
  ASSUME NEW S, IsFiniteSet(S), NEW f, NEW g,
         \A x \in S : f[x] \in Nat /\ g[x] \in Nat /\ f[x] <= g[x]
  PROVE  SumFunctionOnSet(f, S) <= SumFunctionOnSet(g, S)
<1> DEFINE T == {s \in SUBSET S : SumFunctionOnSet(f, s) <= SumFunctionOnSet(g, s)}
<1>1. {} \in T
  BY SumFacts
<1>2. ASSUME NEW s \in SUBSET S, s \in T, NEW x \in S \ s PROVE s \cup {x} \in T
  <2> DEFINE t == s \cup {x}
  <2>1. IsFiniteSet(s) /\ IsFiniteSet(t) /\ t \in SUBSET S /\ x \in t /\ t \ {x} = s
    BY FS_Subset
  <2>2. /\ SumFunctionOnSet(f, s) \in Nat /\ SumFunctionOnSet(g, s) \in Nat
        /\ SumFunctionOnSet(f, t) = f[x] + SumFunctionOnSet(f, s)
        /\ SumFunctionOnSet(g, t) = g[x] + SumFunctionOnSet(g, s)
    <3> HIDE DEF t
    <3> QED BY <2>1, SumFacts
  <2>3. SumFunctionOnSet(f, s) <= SumFunctionOnSet(g, s)
    BY <1>2
  <2>4. f[x] \in Nat /\ g[x] \in Nat /\ f[x] <= g[x]
    OBVIOUS
  <2>5. SumFunctionOnSet(f, t) <= SumFunctionOnSet(g, t)
    BY <2>2, <2>3, <2>4
  <2> QED BY <2>1, <2>5
<1>3. S \in T
  <2> HIDE DEF T
  <2> QED BY <1>1, <1>2, SubsetInduction
<1> QED BY <1>3
=============================================================================
