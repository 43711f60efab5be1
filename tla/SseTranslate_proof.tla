-------------------------- MODULE SseTranslate_proof --------------------------
(***************************************************************************)
(* What module SseTranslate promises of every reply, proved for any habits *)
(* of the provider and any lists of calls, chunks and cap: the message is  *)
(* well formed, and the report of an exchange is what the agent was sent.  *)
(* And what module ToolLoop promises of a reply that keeps text and calls  *)
(* apart: it is the same streamed and whole, and it returns in the next    *)
(* request.                                                                *)
(***************************************************************************)
EXTENDS SseTranslate, ToolLoop, FiniteSetTheorems, SequenceTheorems, WellFoundedInduction, TLAPS

-----------------------------------------------------------------------------
(* Sequences *)

\* A set of natural numbers that is not empty has a least one.
LEMMA LeastNatural ==
    ASSUME NEW S, S \subseteq Nat, S # {}
    PROVE  \E k \in S : \A j \in S : k <= j
<1>. DEFINE R == StrictSubsetOrdering(Nat)
            F == FiniteSubsetsOf(Nat)
            T == {1..k : k \in S}
<1>1. T \subseteq F
  <2>1. ASSUME NEW k \in Nat PROVE 1..k \in F
    <3>1. IsFiniteSet(1..k)
      BY FS_Interval
    <3>. QED BY <3>1 DEF FiniteSubsetsOf
  <2>. HIDE DEF F
  <2>. QED BY <2>1
<1>2. T # {}
  OBVIOUS
<1>3. IsWellFoundedOn(R, F)
  BY FS_StrictSubsetOrderingWellFounded
<1>4. PICK t \in T : \A u \in T : ~ (<<u, t>> \in R)
  <2>. HIDE DEF R, F, T
  <2>. QED BY <1>1, <1>2, <1>3, WFMin
<1>5. PICK k \in S : t = 1..k
  OBVIOUS
<1>6. ASSUME NEW j \in S, j < k PROVE FALSE
  <2>1. j \in Nat /\ k \in Nat
    OBVIOUS
  <2>2. 1..j \subseteq 1..k /\ k \in 1..k /\ k \notin 1..j
    BY <2>1, <1>6
  <2>3. <<1..j, t>> \in R
    BY <1>5, <2>1, <2>2 DEF StrictSubsetOrdering
  <2>4. 1..j \in T
    OBVIOUS
  <2>. HIDE DEF R, T
  <2>. QED BY <1>4, <2>3, <2>4
<1>7. \A j \in S : k <= j
  BY <1>6
<1>. QED BY <1>7

\* What holds of the first number of an interval and of the next one each time
\* holds of the interval.
LEMMA IntervalInduction ==
    ASSUME NEW n \in Nat, NEW T, 1 \in T, \A k \in 1..n : k \in T /\ k + 1 \in 1..n => k + 1 \in T
    PROVE  1..n \subseteq T
<1>. DEFINE S == (1..n) \ T
<1>1. CASE S = {}
  BY <1>1
<1>2. CASE S # {}
  <2>0. S \subseteq Nat
    OBVIOUS
  <2>1. PICK k \in S : \A j \in S : k <= j
    <3>. HIDE DEF S
    <3>. QED BY <2>0, <1>2, LeastNatural
  <2>2. k \in 1..n /\ k \notin T /\ k # 1 /\ k - 1 \in 1..n /\ k - 1 \notin S
    BY <2>1
  <2>3. k - 1 \in T /\ (k - 1) + 1 = k
    BY <2>2
  <2>. QED BY <2>2, <2>3
<1>. QED BY <1>1, <1>2

\* The sequences that were flattened so far, the last of them the whole.
Flattens(g, q, n) == g = [i \in 1..n |-> IF i = 1 THEN q[i] ELSE g[i - 1] \o q[i]]

LEMMA FlattensExists ==
    ASSUME NEW q, NEW n \in Nat, n # 0
    PROVE  \E g : Flattens(g, q, n)
<1>. DEFINE T == {k \in Nat : \E g : Flattens(g, q, k)}
<1>1. 1 \in T
  <2>. DEFINE g == [i \in 1..1 |-> q[1]]
  <2>1. Flattens(g, q, 1)
    BY DEF Flattens
  <2>. QED BY <2>1
<1>2. ASSUME NEW k \in 1..n, k \in T PROVE k + 1 \in T
  <2>1. PICK g : Flattens(g, q, k)
    BY <1>2
  <2>. DEFINE h == [i \in 1..(k + 1) |-> IF i = k + 1 THEN g[k] \o q[k + 1] ELSE g[i]]
  <2>2. \A i \in 1..k : g[i] = IF i = 1 THEN q[i] ELSE g[i - 1] \o q[i]
    BY <2>1 DEF Flattens
  <2>3. \A i \in 1..k : h[i] = g[i]
    <3>1. \A i \in 1..k : i \in 1..(k + 1) /\ i # k + 1
      OBVIOUS
    <3>. QED BY <3>1
  <2>4. h[k + 1] = g[k] \o q[k + 1]
    <3>1. k + 1 \in 1..(k + 1)
      OBVIOUS
    <3>. QED BY <3>1
  <2>5. \A i \in 1..(k + 1) : h[i] = IF i = 1 THEN q[i] ELSE h[i - 1] \o q[i]
    <3>. SUFFICES ASSUME NEW i \in 1..(k + 1)
         PROVE h[i] = IF i = 1 THEN q[i] ELSE h[i - 1] \o q[i]
      OBVIOUS
    <3>. HIDE DEF h
    <3>1. CASE i = k + 1
      <4>1. i # 1 /\ i - 1 = k /\ k \in 1..k
        BY <3>1
      <4>. QED BY <4>1, <3>1, <2>3, <2>4
    <3>2. CASE i = 1
      BY <3>2, <2>2, <2>3
    <3>3. CASE i # 1 /\ i # k + 1
      <4>1. i \in 1..k /\ i - 1 \in 1..k
        BY <3>3
      <4>. QED BY <4>1, <3>3, <2>2, <2>3
    <3>. QED BY <3>1, <3>2, <3>3
  <2>6. h = [i \in 1..(k + 1) |-> h[i]]
    OBVIOUS
  <2>7. Flattens(h, q, k + 1)
    <3>. HIDE DEF h
    <3>. QED BY <2>5, <2>6 DEF Flattens
  <2>. QED BY <2>7
<1>3. 1..n \subseteq T
  <2>. HIDE DEF T
  <2>. QED BY <1>1, <1>2, IntervalInduction
<1>. QED BY <1>3

\* The flattenings of the first elements of q.
Partials(g, q, S) ==
    /\ g \in [0..Len(q) -> Seq(S)] /\ g[0] = <<>>
    /\ \A i \in 1..Len(q) : g[i] = g[i - 1] \o q[i]

LEMMA PartialsExist ==
    ASSUME NEW S, NEW q \in Seq(Seq(S))
    PROVE  \E g : Partials(g, q, S) /\ g[Len(q)] = FlattenSeq(q)
<1>. DEFINE n == Len(q)
<1>1. n \in Nat /\ \A i \in 1..n : q[i] \in Seq(S)
  OBVIOUS
<1>2. <<>> \in Seq(S)
  OBVIOUS
<1>3. CASE n = 0
  <2>. DEFINE g == [i \in 0..0 |-> <<>>]
  <2>1. q = <<>> /\ FlattenSeq(q) = <<>>
    BY <1>3 DEF FlattenSeq
  <2>2. g \in [0..n -> Seq(S)] /\ g[0] = <<>> /\ g[n] = <<>>
    BY <1>2, <1>3
  <2>3. 1..n = {}
    BY <1>3
  <2>. HIDE DEF g
  <2>. QED BY <2>1, <2>2, <2>3 DEF Partials
<1>4. CASE n # 0
  <2>. DEFINE f == CHOOSE f : Flattens(f, q, n)
  <2>1. Flattens(f, q, n)
    <3>1. \E f0 : Flattens(f0, q, n)
      BY <1>1, <1>4, FlattensExists
    <3>. QED BY <3>1
  <2>2. FlattenSeq(q) = f[n]
    BY <1>4 DEF FlattenSeq, Flattens
  <2>. HIDE DEF f
  <2>3. \A i \in 1..n : f[i] = IF i = 1 THEN q[i] ELSE f[i - 1] \o q[i]
    BY <2>1 DEF Flattens
  <2>. DEFINE T == {k \in 1..n : f[k] \in Seq(S)}
  <2>4. 1 \in T
    BY <1>1, <1>4, <2>3
  <2>5. ASSUME NEW k \in 1..n, k \in T, k + 1 \in 1..n PROVE k + 1 \in T
    <3>1. f[k + 1] = f[k] \o q[k + 1]
      <4>1. k + 1 # 1 /\ (k + 1) - 1 = k
        BY <1>1
      <4>. QED BY <4>1, <2>3, <2>5
    <3>2. f[k] \in Seq(S) /\ q[k + 1] \in Seq(S)
      BY <1>1, <2>5
    <3>3. f[k] \o q[k + 1] \in Seq(S)
      BY <3>2
    <3>. QED BY <3>1, <3>3, <2>5
  <2>6. 1..n \subseteq T
    <3>. HIDE DEF T, n
    <3>. QED BY <1>1, <2>4, <2>5, IntervalInduction
  <2>. DEFINE g == [i \in 0..n |-> IF i = 0 THEN <<>> ELSE f[i]]
  <2>7. g[0] = <<>> /\ \A i \in 1..n : g[i] = f[i] /\ g[i] \in Seq(S)
    <3>1. 0 \in 0..n /\ \A i \in 1..n : i \in 0..n /\ i # 0
      BY <1>1
    <3>. QED BY <2>6, <3>1
  <2>8. g \in [0..n -> Seq(S)]
    <3>1. \A i \in 0..n : i = 0 \/ i \in 1..n
      BY <1>1
    <3>. QED BY <3>1, <2>6, <1>2
  <2>. HIDE DEF g, T
  <2>9. ASSUME NEW i \in 1..n PROVE g[i] = g[i - 1] \o q[i]
    <3>1. CASE i = 1
      <4>1. <<>> \o q[i] = q[i]
        BY <1>1, ConcatEmptySeq
      <4>2. i - 1 = 0 /\ f[i] = q[i]
        BY <2>3, <3>1
      <4>. QED BY <4>1, <4>2, <2>7
    <3>2. CASE i # 1
      <4>1. i - 1 \in 1..n
        BY <1>1, <3>2
      <4>. QED BY <4>1, <2>3, <2>7, <3>2
    <3>. QED BY <3>1, <3>2
  <2>10. n \in 1..n
    BY <1>1, <1>4
  <2>11. Partials(g, q, S)
    BY <2>7, <2>8, <2>9 DEF Partials
  <2>. QED BY <2>2, <2>7, <2>10, <2>11
<1>. QED BY <1>3, <1>4

LEMMA PartialsEnd ==
    ASSUME NEW S, NEW q \in Seq(Seq(S)), NEW g, Partials(g, q, S)
    PROVE  FlattenSeq(q) = g[Len(q)]
<1>1. PICK h : Partials(h, q, S) /\ h[Len(q)] = FlattenSeq(q)
  BY PartialsExist
<1>2. Len(q) \in Nat
  OBVIOUS
<1>. DEFINE T == {k \in 1..Len(q) : g[k] = h[k]}
<1>3. g[0] = h[0] /\ \A i \in 1..Len(q) : g[i] = g[i - 1] \o q[i] /\ h[i] = h[i - 1] \o q[i]
  BY <1>1 DEF Partials
<1>4. CASE Len(q) = 0
  BY <1>1, <1>3, <1>4
<1>5. CASE Len(q) # 0
  <2>1. 1 \in T
    <3>1. 1 \in 1..Len(q) /\ 1 - 1 = 0
      BY <1>2, <1>5
    <3>2. g[1] = g[1 - 1] \o q[1] /\ h[1] = h[1 - 1] \o q[1]
      BY <3>1, <1>3
    <3>3. g[1 - 1] = h[1 - 1]
      BY <3>1, <1>3
    <3>. QED BY <3>1, <3>2, <3>3
  <2>2. ASSUME NEW k \in 1..Len(q), k \in T, k + 1 \in 1..Len(q) PROVE k + 1 \in T
    <3>1. (k + 1) - 1 = k
      OBVIOUS
    <3>. QED BY <3>1, <1>3, <2>2
  <2>3. 1..Len(q) \subseteq T
    <3>. HIDE DEF T
    <3>. QED BY <1>2, <2>1, <2>2, IntervalInduction
  <2>4. Len(q) \in 1..Len(q)
    BY <1>2, <1>5
  <2>. QED BY <1>1, <2>3, <2>4
<1>. QED BY <1>4, <1>5

\* Sequences over a set, flattened, are one over the set.
LEMMA FlattenType ==
    ASSUME NEW S, NEW q \in Seq(Seq(S))
    PROVE  FlattenSeq(q) \in Seq(S)
<1>1. PICK g : Partials(g, q, S) /\ g[Len(q)] = FlattenSeq(q)
  BY PartialsExist
<1>2. Len(q) \in 0..Len(q)
  OBVIOUS
<1>. QED BY <1>1, <1>2 DEF Partials

LEMMA FlattenConcat ==
    ASSUME NEW S, NEW q \in Seq(Seq(S)), NEW r \in Seq(Seq(S))
    PROVE  FlattenSeq(q \o r) = FlattenSeq(q) \o FlattenSeq(r)
<1>. DEFINE m == Len(q)  n == Len(r)  t == q \o r
<1>1. m \in Nat /\ n \in Nat
  OBVIOUS
<1>2. /\ t \in Seq(Seq(S)) /\ Len(t) = m + n
      /\ \A i \in 1..(m + n) : t[i] = IF i <= m THEN q[i] ELSE r[i - m]
  BY ConcatProperties
<1>3. PICK g : Partials(g, q, S) /\ g[m] = FlattenSeq(q)
  BY PartialsExist
<1>4. PICK h : Partials(h, r, S) /\ h[n] = FlattenSeq(r)
  BY PartialsExist
<1>5. /\ g[0] = <<>> /\ \A i \in 0..m : g[i] \in Seq(S)
      /\ \A i \in 1..m : g[i] = g[i - 1] \o q[i]
  BY <1>3 DEF Partials
<1>6. /\ h[0] = <<>> /\ \A i \in 0..n : h[i] \in Seq(S)
      /\ \A i \in 1..n : h[i] = h[i - 1] \o r[i]
  BY <1>4 DEF Partials
<1>6a. \A i \in 1..n : r[i] \in Seq(S)
  OBVIOUS
<1>. DEFINE f == [i \in 0..(m + n) |-> IF i <= m THEN g[i] ELSE g[m] \o h[i - m]]
<1>. HIDE DEF m, n, t
<1>7. ASSUME NEW i \in 0..(m + n) PROVE f[i] = IF i <= m THEN g[i] ELSE g[m] \o h[i - m]
  OBVIOUS
<1>8. f \in [0..(m + n) -> Seq(S)]
  <2>1. ASSUME NEW i \in 0..(m + n) PROVE (IF i <= m THEN g[i] ELSE g[m] \o h[i - m]) \in Seq(S)
    <3>1. CASE i <= m
      <4>1. i \in 0..m
        BY <1>1, <3>1
      <4>. QED BY <4>1, <3>1, <1>5
    <3>2. CASE ~(i <= m)
      <4>1. i - m \in 0..n /\ m \in 0..m
        BY <1>1, <3>2
      <4>2. g[m] \in Seq(S) /\ h[i - m] \in Seq(S)
        BY <4>1, <1>5, <1>6
      <4>3. g[m] \o h[i - m] \in Seq(S)
        BY <4>2
      <4>. QED BY <4>3, <3>2
    <3>. QED BY <3>1, <3>2
  <2>. QED BY <2>1
<1>9. f[0] = <<>>
  <2>1. 0 \in 0..(m + n) /\ 0 <= m
    BY <1>1
  <2>. QED BY <2>1, <1>5
<1>10. f[m + n] = g[m] \o h[n]
  <2>1. m + n \in 0..(m + n) /\ (m + n <= m <=> n = 0) /\ (m + n) - m = n /\ m \in 0..m
    BY <1>1
  <2>2. CASE n = 0
    <3>1. f[m + n] = g[m + n] /\ m + n = m
      BY <2>1, <2>2, <1>1, <1>7
    <3>2. h[n] = <<>> /\ g[m] \in Seq(S)
      BY <2>1, <2>2, <1>5, <1>6
    <3>3. g[m] \o <<>> = g[m]
      BY <3>2, ConcatEmptySeq
    <3>. QED BY <3>1, <3>2, <3>3
  <2>3. CASE n # 0
    <3>1. f[m + n] = g[m] \o h[(m + n) - m]
      BY <2>1, <2>3, <1>7
    <3>. QED BY <3>1, <2>1
  <2>. QED BY <2>2, <2>3
<1>. HIDE DEF f
<1>11. ASSUME NEW i \in 1..(m + n) PROVE f[i] = f[i - 1] \o t[i]
  <2>1. i \in 0..(m + n) /\ i - 1 \in 0..(m + n)
    BY <1>1
  <2>2. CASE i <= m
    <3>1. i \in 1..m /\ i - 1 <= m
      BY <1>1, <2>2
    <3>2. f[i] = g[i] /\ f[i - 1] = g[i - 1]
      BY <3>1, <2>1, <2>2, <1>7
    <3>. QED BY <3>1, <3>2, <2>2, <1>2, <1>5
  <2>3. CASE ~(i <= m)
    <3>1. i - m \in 1..n /\ (i - m) - 1 = (i - 1) - m /\ m \in 0..m /\ (i - m) - 1 \in 0..n
      BY <1>1, <2>3
    <3>2. f[i] = g[m] \o h[i - m] /\ t[i] = r[i - m]
      BY <2>1, <2>3, <1>2, <1>7
    <3>3. h[i - m] = h[(i - m) - 1] \o r[i - m]
      BY <3>1, <1>6
    <3>4. f[i - 1] = g[m] \o h[(i - 1) - m]
      <4>1. CASE i - 1 <= m
        <5>1. i - 1 = m /\ (i - 1) - m = 0
          BY <4>1, <2>3, <1>1
        <5>2. g[m] \o <<>> = g[m]
          BY <3>1, <1>5, ConcatEmptySeq
        <5>. QED BY <5>1, <5>2, <4>1, <2>1, <1>6, <1>7
      <4>2. CASE ~(i - 1 <= m)
        BY <4>2, <2>1, <1>7
      <4>. QED BY <4>1, <4>2
    <3>5. g[m] \in Seq(S) /\ h[(i - m) - 1] \in Seq(S) /\ r[i - m] \in Seq(S)
      BY <3>1, <1>5, <1>6, <1>6a
    <3>6. \A u, v, w \in Seq(S) : u \o (v \o w) = (u \o v) \o w
      BY ConcatAssociative, SMTT(30)
    <3>7. g[m] \o (h[(i - m) - 1] \o r[i - m]) = (g[m] \o h[(i - m) - 1]) \o r[i - m]
      BY <3>5, <3>6
    <3>. QED BY <3>1, <3>2, <3>3, <3>4, <3>7
  <2>. QED BY <2>2, <2>3
<1>12. Partials(f, t, S)
  BY <1>2, <1>8, <1>9, <1>11 DEF Partials
<1>13. FlattenSeq(t) = f[m + n]
  BY <1>2, <1>12, PartialsEnd
<1>. QED BY <1>3, <1>4, <1>10, <1>13 DEF m, n, t

\* What f finds in the elements of s, one after the other.
Collect(s, f) == FlattenSeq([p \in 1..Len(s) |-> f[s[p]]])

LEMMA CollectType ==
    ASSUME NEW E, NEW S, NEW f \in [E -> Seq(S)], NEW s \in Seq(E)
    PROVE  /\ [p \in 1..Len(s) |-> f[s[p]]] \in Seq(Seq(S))
           /\ Collect(s, f) \in Seq(S)
<1>1. Len(s) \in Nat /\ \A p \in 1..Len(s) : f[s[p]] \in Seq(S)
  OBVIOUS
<1>2. [p \in 1..Len(s) |-> f[s[p]]] \in Seq(Seq(S))
  BY <1>1
<1>. QED BY <1>2, FlattenType DEF Collect

LEMMA CollectNone == ASSUME NEW f PROVE Collect(<<>>, f) = <<>>
<1>1. [p \in 1..Len(<<>>) |-> f[<<>>[p]]] = <<>>
  OBVIOUS
<1>2. FlattenSeq(<<>>) = <<>>
  BY DEF FlattenSeq
<1>. QED BY <1>1, <1>2 DEF Collect

LEMMA CollectOne ==
    ASSUME NEW E, NEW S, NEW f \in [E -> Seq(S)], NEW e \in E
    PROVE  Collect(<<e>>, f) = f[e]
<1>. DEFINE q == [p \in 1..Len(<<e>>) |-> f[<<e>>[p]]]
<1>1. f[e] \in Seq(S)
  OBVIOUS
<1>2. q = <<f[e]>>
  OBVIOUS
<1>. HIDE DEF q
<1>3. q \in Seq(Seq(S)) /\ Len(q) = 1 /\ q[1] = f[e]
  BY <1>1, <1>2
<1>4. PICK g : Partials(g, q, S) /\ g[Len(q)] = FlattenSeq(q)
  BY <1>3, PartialsExist
<1>5. g[1] = g[1 - 1] \o q[1] /\ g[1 - 1] = <<>>
  <2>1. 1 \in 1..Len(q) /\ 1 - 1 = 0
    BY <1>3
  <2>. QED BY <2>1, <1>4 DEF Partials
<1>6. <<>> \o f[e] = f[e]
  BY <1>1, ConcatEmptySeq
<1>. QED BY <1>3, <1>4, <1>5, <1>6 DEF Collect, q

LEMMA CollectConcat ==
    ASSUME NEW E, NEW S, NEW f \in [E -> Seq(S)], NEW s \in Seq(E), NEW t \in Seq(E)
    PROVE  Collect(s \o t, f) = Collect(s, f) \o Collect(t, f)
<1>. DEFINE a == [p \in 1..Len(s) |-> f[s[p]]]
            b == [p \in 1..Len(t) |-> f[t[p]]]
            c == [p \in 1..Len(s \o t) |-> f[(s \o t)[p]]]
<1>1. /\ s \o t \in Seq(E) /\ Len(s \o t) = Len(s) + Len(t) /\ Len(s) \in Nat /\ Len(t) \in Nat
      /\ \A i \in 1..(Len(s) + Len(t)) : (s \o t)[i] = IF i <= Len(s) THEN s[i] ELSE t[i - Len(s)]
  BY ConcatProperties
<1>2. a \in Seq(Seq(S)) /\ b \in Seq(Seq(S)) /\ c \in Seq(Seq(S))
  BY <1>1, CollectType
<1>3. /\ Len(a) = Len(s) /\ Len(b) = Len(t) /\ Len(c) = Len(s) + Len(t)
      /\ \A i \in 1..Len(s) : a[i] = f[s[i]]
      /\ \A i \in 1..Len(t) : b[i] = f[t[i]]
      /\ \A i \in 1..(Len(s) + Len(t)) : c[i] = f[(s \o t)[i]]
  BY <1>1
<1>4. Collect(s, f) = FlattenSeq(a) /\ Collect(t, f) = FlattenSeq(b) /\ Collect(s \o t, f) = FlattenSeq(c)
  BY DEF Collect
<1>. HIDE DEF a, b, c
<1>5. /\ a \o b \in Seq(Seq(S)) /\ Len(a \o b) = Len(a) + Len(b)
      /\ \A i \in 1..(Len(a) + Len(b)) : (a \o b)[i] = IF i <= Len(a) THEN a[i] ELSE b[i - Len(a)]
  BY <1>2, ConcatProperties
<1>6. ASSUME NEW i \in 1..Len(c) PROVE c[i] = (a \o b)[i]
  <2>1. CASE i <= Len(s)
    <3>1. i \in 1..Len(s) /\ i \in 1..(Len(s) + Len(t))
      BY <1>1, <1>3, <2>1
    <3>. QED BY <3>1, <2>1, <1>1, <1>3, <1>5
  <2>2. CASE ~(i <= Len(s))
    <3>1. i - Len(s) \in 1..Len(t) /\ i \in 1..(Len(s) + Len(t))
      BY <1>1, <1>3, <2>2
    <3>2. c[i] = f[t[i - Len(s)]] /\ (a \o b)[i] = b[i - Len(s)]
      BY <3>1, <2>2, <1>1, <1>3, <1>5
    <3>. QED BY <3>1, <3>2, <1>3
  <2>. QED BY <2>1, <2>2
<1>7. c = a \o b
  BY <1>2, <1>3, <1>5, <1>6, SeqEqual, ZenonT(30)
<1>8. FlattenSeq(a \o b) = FlattenSeq(a) \o FlattenSeq(b)
  BY <1>2, FlattenConcat
<1>. QED BY <1>4, <1>7, <1>8

LEMMA CollectFlatten ==
    ASSUME NEW E, NEW S, NEW f \in [E -> Seq(S)], NEW q \in Seq(Seq(E))
    PROVE  Collect(FlattenSeq(q), f) = FlattenSeq([k \in 1..Len(q) |-> Collect(q[k], f)])
<1>. DEFINE n == Len(q)
            r == [k \in 1..n |-> Collect(q[k], f)]
<1>1. n \in Nat /\ \A k \in 1..n : q[k] \in Seq(E)
  OBVIOUS
<1>2. \A k \in 1..n : Collect(q[k], f) \in Seq(S)
  BY <1>1, CollectType
<1>3. /\ r \in Seq(Seq(S)) /\ Len(r) = n
      /\ \A k \in 1..n : r[k] = Collect(q[k], f)
  BY <1>1, <1>2
<1>4. PICK g : Partials(g, q, E) /\ g[n] = FlattenSeq(q)
  BY PartialsExist
<1>5. /\ g[0] = <<>> /\ \A i \in 0..n : g[i] \in Seq(E)
      /\ \A i \in 1..n : g[i] = g[i - 1] \o q[i]
  BY <1>4 DEF Partials
<1>. DEFINE h == [i \in 0..n |-> Collect(g[i], f)]
<1>. HIDE DEF n, r
<1>6. h \in [0..n -> Seq(S)]
  <2>1. \A i \in 0..n : Collect(g[i], f) \in Seq(S)
    BY <1>5, CollectType
  <2>. QED BY <2>1
<1>7. \A i \in 0..n : h[i] = Collect(g[i], f)
  OBVIOUS
<1>. HIDE DEF h
<1>8. h[0] = <<>>
  <2>1. 0 \in 0..n
    BY <1>1
  <2>. QED BY <2>1, <1>5, <1>7, CollectNone
<1>9. ASSUME NEW i \in 1..n PROVE h[i] = h[i - 1] \o r[i]
  <2>1. i \in 0..n /\ i - 1 \in 0..n
    BY <1>1
  <2>2. g[i - 1] \in Seq(E) /\ q[i] \in Seq(E) /\ g[i] = g[i - 1] \o q[i]
    BY <2>1, <1>1, <1>5
  <2>3. Collect(g[i - 1] \o q[i], f) = Collect(g[i - 1], f) \o Collect(q[i], f)
    BY <2>2, CollectConcat, ZenonT(30)
  <2>. QED BY <2>1, <2>2, <2>3, <1>3, <1>7
<1>10. Partials(h, r, S)
  BY <1>3, <1>6, <1>8, <1>9 DEF Partials
<1>11. FlattenSeq(r) = h[n]
  BY <1>3, <1>10, PartialsEnd
<1>12. n \in 0..n
  BY <1>1
<1>. QED BY <1>4, <1>7, <1>11, <1>12 DEF n, r

\* Nothing is found where nothing is found in any element.
LEMMA CollectNothing ==
    ASSUME NEW f, NEW S, NEW s \in Seq(S), \A p \in 1..Len(s) : f[s[p]] = <<>>
    PROVE  Collect(s, f) = <<>>
<1>. DEFINE n == Len(s)
            q == [p \in 1..n |-> f[s[p]]]
            g == [i \in 0..n |-> <<>>]
<1>1. n \in Nat /\ <<>> \in Seq(S) /\ <<>> \o <<>> = <<>>
  OBVIOUS
<1>2. q \in Seq(Seq(S)) /\ Len(q) = n /\ \A p \in 1..n : q[p] = <<>>
  <2>1. \A p \in 1..n : q[p] = <<>> /\ q[p] \in Seq(S)
    BY <1>1
  <2>2. q = [p \in 1..n |-> q[p]]
    OBVIOUS
  <2>. HIDE DEF q
  <2>. QED BY <2>1, <2>2, <1>1
<1>3. /\ g \in [0..n -> Seq(S)] /\ \A i \in 0..n : g[i] = <<>>
      /\ 0 \in 0..n /\ n \in 0..n /\ \A i \in 1..n : i \in 0..n /\ i - 1 \in 0..n
  BY <1>1
<1>. HIDE DEF g, q, n
<1>4. Partials(g, q, S)
  BY <1>1, <1>2, <1>3 DEF Partials
<1>5. FlattenSeq(q) = g[n]
  BY <1>2, <1>4, PartialsEnd
<1>. QED BY <1>3, <1>5 DEF Collect, q, n

\* The first elements of a sequence.
LEMMA UptoFacts ==
    ASSUME NEW S, NEW s \in Seq(S), NEW n \in Nat
    PROVE  /\ Upto(s, n) \in Seq(S)
           /\ Len(Upto(s, n)) = IF n < Len(s) THEN n ELSE Len(s)
           /\ \A i \in 1..Len(Upto(s, n)) : Upto(s, n)[i] = s[i]
<1>. DEFINE m == IF n < Len(s) THEN n ELSE Len(s)
<1>1. m \in Nat /\ m <= Len(s)
  OBVIOUS
<1>2. \A i \in 1..m : s[i] \in S
  BY <1>1
<1>3. Upto(s, n) = SubSeq(s, 1, m)
  BY DEF Upto
<1>. HIDE DEF m
<1>4. /\ SubSeq(s, 1, m) \in Seq(S)
      /\ Len(SubSeq(s, 1, m)) = IF 1 <= m THEN m - 1 + 1 ELSE 0
      /\ \A i \in 1..(m - 1 + 1) : SubSeq(s, 1, m)[i] = s[1 + i - 1]
  BY <1>1, <1>2, SubSeqProperties
<1>5. Len(Upto(s, n)) = m
  BY <1>1, <1>3, <1>4
<1>6. \A i \in 1..m : Upto(s, n)[i] = s[i]
  BY <1>1, <1>3, <1>4
<1>. QED BY <1>3, <1>4, <1>5, <1>6 DEF m

\* What is captured while there is room is the beginning of the whole.
LEMMA CapturedSoFar ==
    ASSUME NEW S, NEW s \in Seq(S), NEW t \in Seq(S), NEW n \in Nat
    PROVE  LET room == n - Len(Upto(s, n)) IN
           /\ Upto(s, n) \o Upto(t, room) = Upto(s \o t, n)
           /\ Len(s) > n \/ Len(t) > room <=> Len(s \o t) > n
<1>. DEFINE room == n - Len(Upto(s, n))
<1>1. room \in Nat /\ room = IF n < Len(s) THEN 0 ELSE n - Len(s)
  BY UptoFacts, SMTT(30)
<1>. HIDE DEF room
<1>2. /\ s \o t \in Seq(S) /\ Len(s \o t) = Len(s) + Len(t)
      /\ \A i \in 1..(Len(s) + Len(t)) : (s \o t)[i] = IF i <= Len(s) THEN s[i] ELSE t[i - Len(s)]
  BY ConcatProperties
<1>3. Len(s) > n \/ Len(t) > room <=> Len(s \o t) > n
  BY <1>1, <1>2
<1>. DEFINE a == Upto(s, n)  b == Upto(t, room)  u == Upto(s \o t, n)
<1>4. /\ a \in Seq(S) /\ Len(a) = IF n < Len(s) THEN n ELSE Len(s)
      /\ \A i \in 1..Len(a) : a[i] = s[i]
  BY UptoFacts
<1>5. /\ b \in Seq(S) /\ Len(b) = IF room < Len(t) THEN room ELSE Len(t)
      /\ \A i \in 1..Len(b) : b[i] = t[i]
  BY <1>1, UptoFacts
<1>6. /\ u \in Seq(S) /\ Len(u) = IF n < Len(s) + Len(t) THEN n ELSE Len(s) + Len(t)
      /\ \A i \in 1..Len(u) : u[i] = (s \o t)[i]
  BY <1>2, UptoFacts
<1>. HIDE DEF a, b, u
<1>7. /\ a \o b \in Seq(S) /\ Len(a \o b) = Len(a) + Len(b)
      /\ \A i \in 1..(Len(a) + Len(b)) : (a \o b)[i] = IF i <= Len(a) THEN a[i] ELSE b[i - Len(a)]
  <2>1. a \in Seq(S) /\ b \in Seq(S)
    BY <1>4, <1>5
  <2>. QED BY <2>1, ConcatProperties
<1>8. Len(a \o b) = Len(u)
  <2>1. Len(s) \in Nat /\ Len(t) \in Nat
    OBVIOUS
  <2>3. /\ Len(a) = IF n < Len(s) THEN n ELSE Len(s)
        /\ Len(b) = IF room < Len(t) THEN room ELSE Len(t)
        /\ Len(u) = IF n < Len(s) + Len(t) THEN n ELSE Len(s) + Len(t)
    <3>1. Len(a) = IF n < Len(s) THEN n ELSE Len(s)
      BY <1>4
    <3>2. Len(b) = IF room < Len(t) THEN room ELSE Len(t)
      BY <1>5
    <3>3. Len(u) = IF n < Len(s) + Len(t) THEN n ELSE Len(s) + Len(t)
      BY <1>6
    <3>. QED BY <3>1, <3>2, <3>3
  <2>2. Len(a) + Len(b) = Len(u)
    <3>1. CASE n < Len(s)
      <4>1. room = 0 /\ Len(a) = n /\ Len(b) = 0 /\ Len(u) = n
        BY <2>1, <2>3, <1>1, <3>1
      <4>. QED BY <4>1
    <3>2. CASE ~(n < Len(s))
      <4>1. room = n - Len(s) /\ Len(a) = Len(s)
        BY <2>3, <1>1, <3>2
      <4>2. room < Len(t) <=> n < Len(s) + Len(t)
        BY <4>1, <2>1
      <4>3. CASE room < Len(t)
        <5>1. Len(b) = room /\ Len(u) = n
          BY <4>2, <4>3, <2>3
        <5>. QED BY <5>1, <4>1, <2>1
      <4>4. CASE ~(room < Len(t))
        <5>1. Len(b) = Len(t) /\ Len(u) = Len(s) + Len(t)
          BY <4>2, <4>4, <2>3
        <5>. QED BY <5>1, <4>1
      <4>. QED BY <4>3, <4>4
    <3>. QED BY <3>1, <3>2
  <2>. QED BY <2>2, <1>7
<1>9. ASSUME NEW i \in 1..Len(a \o b) PROVE (a \o b)[i] = u[i]
  <2>1. i \in 1..Len(u) /\ i \in 1..(Len(s) + Len(t)) /\ i \in 1..(Len(a) + Len(b))
    BY <1>6, <1>7, <1>8
  <2>2. CASE i <= Len(a)
    <3>1. i \in 1..Len(a) /\ i <= Len(s)
      BY <1>4, <2>1, <2>2
    <3>. QED BY <3>1, <2>1, <2>2, <1>2, <1>4, <1>6, <1>7
  <2>3. CASE ~(i <= Len(a))
    <3>1. Len(a) = Len(s) /\ i - Len(a) \in 1..Len(b)
      BY <1>1, <1>4, <1>5, <2>1, <2>3
    <3>. QED BY <3>1, <2>1, <2>3, <1>2, <1>5, <1>6, <1>7
  <2>. QED BY <2>2, <2>3
<1>10. a \o b = u
  BY <1>6, <1>7, <1>8, <1>9, SeqEqual
<1>. QED BY <1>3, <1>10 DEF room, a, b, u

\* What was captured and the final events, cut, are the beginning of the whole.
LEMMA CapturedAtEnd ==
    ASSUME NEW S, NEW s \in Seq(S), NEW t \in Seq(S), NEW n \in Nat
    PROVE  /\ Upto(Upto(s, n) \o t, n) = Upto(s \o t, n)
           /\ Len(s) > n \/ Len(Upto(s, n) \o t) > n <=> Len(s \o t) > n
<1>. DEFINE a == Upto(s, n)
<1>1. /\ a \in Seq(S) /\ Len(a) = IF n < Len(s) THEN n ELSE Len(s)
      /\ \A i \in 1..Len(a) : a[i] = s[i]
  BY UptoFacts
<1>. HIDE DEF a
<1>2. /\ s \o t \in Seq(S) /\ Len(s \o t) = Len(s) + Len(t)
      /\ \A i \in 1..(Len(s) + Len(t)) : (s \o t)[i] = IF i <= Len(s) THEN s[i] ELSE t[i - Len(s)]
  BY ConcatProperties
<1>3. /\ a \o t \in Seq(S) /\ Len(a \o t) = Len(a) + Len(t)
      /\ \A i \in 1..(Len(a) + Len(t)) : (a \o t)[i] = IF i <= Len(a) THEN a[i] ELSE t[i - Len(a)]
  BY <1>1, ConcatProperties
<1>4. Len(s) > n \/ Len(a \o t) > n <=> Len(s \o t) > n
  BY <1>1, <1>2, <1>3
<1>. DEFINE x == Upto(a \o t, n)  u == Upto(s \o t, n)
<1>5. /\ x \in Seq(S) /\ Len(x) = IF n < Len(a) + Len(t) THEN n ELSE Len(a) + Len(t)
      /\ \A i \in 1..Len(x) : x[i] = (a \o t)[i]
  BY <1>3, UptoFacts
<1>6. /\ u \in Seq(S) /\ Len(u) = IF n < Len(s) + Len(t) THEN n ELSE Len(s) + Len(t)
      /\ \A i \in 1..Len(u) : u[i] = (s \o t)[i]
  BY <1>2, UptoFacts
<1>. HIDE DEF x, u
<1>7. Len(x) = Len(u)
  BY <1>1, <1>5, <1>6, SMTT(30)
<1>8. ASSUME NEW i \in 1..Len(x) PROVE x[i] = u[i]
  <2>1. i \in 1..Len(u) /\ i \in 1..(Len(s) + Len(t)) /\ i \in 1..(Len(a) + Len(t))
    BY <1>1, <1>5, <1>6, <1>7
  <2>2. CASE i <= Len(a)
    <3>1. i \in 1..Len(a) /\ i <= Len(s)
      BY <1>1, <2>1, <2>2
    <3>. QED BY <3>1, <2>1, <2>2, <1>1, <1>2, <1>3, <1>5, <1>6
  <2>3. CASE ~(i <= Len(a))
    <3>1. Len(a) = Len(s)
      BY <1>1, <1>5, <2>1, <2>3
    <3>. QED BY <3>1, <2>1, <2>3, <1>2, <1>3, <1>5, <1>6
  <2>. QED BY <2>2, <2>3
<1>9. x = u
  BY <1>5, <1>6, <1>7, <1>8, SeqEqual
<1>. QED BY <1>4, <1>9 DEF a, x, u

-----------------------------------------------------------------------------
(* Events *)

Pieces == [kind : {"text", "tool"}, index : Index, chunk : Nat]

\* The events that do not stop the message.
Quiet ==
    {[ev |-> "message_start"], [ev |-> "message_delta"]}
    \cup {BlockStart(kind, i) : kind \in {"text", "tool"}, i \in Index}
    \cup {BlockDelta(f) : f \in Pieces}
    \cup {BlockStop(i) : i \in Index}

Stop == [ev |-> "message_stop"]
Events == Quiet \cup {Stop}

LEMMA QuietNames == \A e \in Quiet : e.ev \in Names /\ e.ev # "message_stop"
<1>1. ASSUME NEW i \in Index PROVE BlockStop(i).ev = "content_block_stop"
  BY DEF BlockStop
<1>2. ASSUME NEW f \in Pieces PROVE BlockDelta(f).ev = "content_block_delta"
  BY DEF BlockDelta
<1>3. ASSUME NEW k \in {"text", "tool"}, NEW i \in Index PROVE BlockStart(k, i).ev = "content_block_start"
  BY DEF BlockStart
<1>4. SUFFICES ASSUME NEW e \in Quiet PROVE e.ev \in Names /\ e.ev # "message_stop"
  OBVIOUS
<1>5. CASE e \in {[ev |-> "message_start"], [ev |-> "message_delta"]}
  BY <1>5 DEF Names
<1>6. CASE \E k \in {"text", "tool"}, i \in Index : e = BlockStart(k, i)
  BY <1>6, <1>3 DEF Names
<1>7. CASE \E f \in Pieces : e = BlockDelta(f)
  BY <1>7, <1>2 DEF Names
<1>8. CASE \E i \in Index : e = BlockStop(i)
  BY <1>8, <1>1 DEF Names
<1>. QED BY <1>4, <1>5, <1>6, <1>7, <1>8 DEF Quiet

LEMMA EventNames == \A e \in Events : e.ev \in Names
<1>1. Stop.ev \in Names
  BY DEF Stop, Names
<1>. QED BY <1>1, QuietNames DEF Events

Call == [index : Index, named : BOOLEAN, args : BOOLEAN]

LEMMA ChunkCalls == \A c \in Chunk : c.calls \in Seq(Call)
BY SseAssumption DEF Chunk, Call

LEMMA ArgsQuiet ==
    ASSUME number \in Nat, NEW call \in Call
    PROVE  ArgsEvents(call) \in Seq(Quiet)
<1>1. Fragment("tool", call.index, number + 1) \in Pieces
  BY DEF Fragment, Pieces, Call
<1>2. BlockDelta(Fragment("tool", call.index, number + 1)) \in Quiet
  BY <1>1 DEF Quiet
<1>. HIDE DEF Quiet
<1>3. <<BlockDelta(Fragment("tool", call.index, number + 1))>> \in Seq(Quiet) /\ <<>> \in Seq(Quiet)
  BY <1>2
<1>. QED BY <1>3 DEF ArgsEvents

LEMMA TextQuiet ==
    ASSUME number \in Nat, NEW c \in Chunk
    PROVE  TextEvents(c) \in Seq(Quiet)
<1>1. Fragment("text", 0, number + 1) \in Pieces
  BY SseAssumption DEF Fragment, Pieces
<1>2. BlockDelta(Fragment("text", 0, number + 1)) \in Quiet
  BY <1>1 DEF Quiet
<1>. HIDE DEF Quiet
<1>3. <<BlockDelta(Fragment("text", 0, number + 1))>> \in Seq(Quiet) /\ <<>> \in Seq(Quiet)
  BY <1>2
<1>. QED BY <1>3 DEF TextEvents

LEMMA OpenQuiet ==
    ASSUME number \in Nat, NEW calls \in Seq(Call)
    PROVE  OpenAll(calls) \in Seq(Quiet) /\ OpenUnknown(calls) \in Seq(Quiet)
<1>1. Len(calls) \in Nat /\ \A k \in 1..Len(calls) : calls[k] \in Call
  OBVIOUS
<1>2. ASSUME NEW k \in 1..Len(calls)
      PROVE  /\ ArgsEvents(calls[k]) \in Seq(Quiet)
             /\ <<BlockStart("tool", calls[k].index)>> \o ArgsEvents(calls[k]) \in Seq(Quiet)
  <2>1. ArgsEvents(calls[k]) \in Seq(Quiet)
    BY <1>1, ArgsQuiet
  <2>2. BlockStart("tool", calls[k].index) \in Quiet
    <3>1. calls[k].index \in Index
      BY <1>1 DEF Call
    <3>. QED BY <3>1 DEF Quiet
  <2>3. <<BlockStart("tool", calls[k].index)>> \in Seq(Quiet)
    BY <2>2
  <2>. QED BY <2>1, <2>3, ConcatProperties
<1>. DEFINE q == [k \in 1..Len(calls) |-> <<BlockStart("tool", calls[k].index)>> \o ArgsEvents(calls[k])]
            r == [k \in 1..Len(calls) |->
                     IF calls[k].named /\ ~Contains(tool_indices, calls[k].index)
                     THEN <<BlockStart("tool", calls[k].index)>> \o ArgsEvents(calls[k])
                     ELSE ArgsEvents(calls[k])]
<1>3. \A k \in 1..Len(calls) : q[k] \in Seq(Quiet) /\ r[k] \in Seq(Quiet)
  BY <1>2
<1>4. q = [k \in 1..Len(calls) |-> q[k]] /\ r = [k \in 1..Len(calls) |-> r[k]]
  OBVIOUS
<1>5. OpenAll(calls) = FlattenSeq(q) /\ OpenUnknown(calls) = FlattenSeq(r)
  BY DEF OpenAll, OpenUnknown
<1>. HIDE DEF q, r
<1>6. q \in Seq(Seq(Quiet)) /\ r \in Seq(Seq(Quiet))
  BY <1>1, <1>3, <1>4
<1>. QED BY <1>5, <1>6, FlattenType

LEMMA IndicesType ==
    ASSUME NEW calls \in Seq(Call)
    PROVE  Indices(calls) \in Seq(Index)
<1>1. Len(calls) \in Nat /\ \A k \in 1..Len(calls) : calls[k] \in Call
  OBVIOUS
<1>2. \A k \in 1..Len(calls) : calls[k].index \in Index
  BY <1>1 DEF Call
<1>. QED BY <1>1, <1>2 DEF Indices

LEMMA StopsQuiet ==
    ASSUME NEW indices \in Seq(Index)
    PROVE  StopAll(indices) \in Seq(Quiet)
<1>1. Len(indices) \in Nat /\ \A k \in 1..Len(indices) : BlockStop(indices[k]) \in Quiet
  BY DEF Quiet
<1>. QED BY <1>1 DEF StopAll

LEMMA OneQuiet ==
    /\ <<>> \in Seq(Quiet) /\ <<MessageStart>> \in Seq(Quiet) /\ <<BlockStop(0)>> \in Seq(Quiet)
    /\ <<MessageStart, BlockStart("text", 0)>> \in Seq(Quiet)
    /\ <<[ev |-> "message_delta"]>> \in Seq(Quiet)
<1>1. /\ MessageStart \in Quiet /\ BlockStop(0) \in Quiet /\ BlockStart("text", 0) \in Quiet
      /\ [ev |-> "message_delta"] \in Quiet
  BY SseAssumption DEF Quiet, MessageStart
<1>. QED BY <1>1

-----------------------------------------------------------------------------
(* Outcomes *)

\* The message goes on.
Runs(o) == o.state \in {"Initial", "TextContent", "ToolCalls"} /\ o.tools \in Seq(Index) /\ o.events \in Seq(Quiet)

\* The message stops.
Ends(o) ==
    /\ o.state = "Finished" /\ o.tools = <<>>
    /\ \E q \in Seq(Quiet) : o.events = q \o <<Stop>>

\* It has stopped.
Rests(o) == o.state = "Finished" /\ o.tools = <<>> /\ o.events = <<>>

LEMMA EndingLast ==
    ASSUME NEW q \in Seq(Quiet)
    PROVE  \E r \in Seq(Quiet) : q \o Ending = r \o <<Stop>>
<1>. DEFINE d == [ev |-> "message_delta"]
<1>1. <<d>> \in Seq(Quiet) /\ q \in Seq(Events) /\ <<d>> \in Seq(Events) /\ <<Stop>> \in Seq(Events)
  <2>1. d \in Quiet
    BY DEF Quiet
  <2>. HIDE DEF d
  <2>. HIDE DEF Quiet
  <2>2. q \in Seq(Events)
    BY SeqMonotonic DEF Events
  <2>3. d \in Events /\ Stop \in Events
    BY <2>1 DEF Events
  <2>. QED BY <2>1, <2>2, <2>3
<1>2. Ending = <<d>> \o <<Stop>>
  BY DEF Ending, Stop
<1>. HIDE DEF d
<1>3. q \o (<<d>> \o <<Stop>>) = (q \o <<d>>) \o <<Stop>>
  BY <1>1, ConcatAssociative
<1>4. q \o <<d>> \in Seq(Quiet)
  BY <1>1, ConcatProperties
<1>. QED BY <1>2, <1>3, <1>4

LEMMA FinishingEnds ==
    ASSUME NEW o, o.events \in Seq(Quiet), NEW closing \in Seq(Quiet)
    PROVE  Ends(Finishing(o, closing))
<1>1. o.events \o closing \in Seq(Quiet)
  BY ConcatProperties
<1>2. \E q \in Seq(Quiet) : (o.events \o closing) \o Ending = q \o <<Stop>>
  BY <1>1, EndingLast
<1>. QED BY <1>2 DEF Ends, Finishing, Outcome

LEMMA PushOutcome ==
    ASSUME number \in Nat, tool_indices \in Seq(Index),
           state \in {"Initial", "TextContent", "ToolCalls", "Finished"}, NEW c \in Chunk
    PROVE  /\ state = "Finished" => Rests(PushChunk(c))
           /\ state # "Finished" => Runs(PushChunk(c)) \/ Ends(PushChunk(c))
<1>1. /\ c.calls \in Seq(Call) /\ c.delta \in {"none", "text", "tools"}
      /\ TextEvents(c) \in Seq(Quiet) /\ OpenAll(c.calls) \in Seq(Quiet)
      /\ OpenUnknown(c.calls) \in Seq(Quiet) /\ Indices(c.calls) \in Seq(Index)
      /\ StopAll(tool_indices) \in Seq(Quiet) /\ <<>> \in Seq(Index)
  <2>1. c.calls \in Seq(Call)
    BY ChunkCalls
  <2>2. c.delta \in {"none", "text", "tools"}
    BY DEF Chunk
  <2>. QED BY <2>1, <2>2, TextQuiet, OpenQuiet, IndicesType, StopsQuiet
<1>2. /\ <<MessageStart>> \o OpenAll(c.calls) \in Seq(Quiet)
      /\ <<MessageStart, BlockStart("text", 0)>> \o TextEvents(c) \in Seq(Quiet)
      /\ <<BlockStop(0)>> \o OpenAll(c.calls) \in Seq(Quiet)
  <2>. HIDE DEF Quiet
  <2>. QED BY <1>1, OneQuiet, ConcatProperties
<1>3. CASE state = "Initial"
  <2>. DEFINE shown ==
          CASE c.delta = "none" -> Outcome(<<MessageStart>>, "Initial", <<>>)
            [] c.delta = "tools" -> Outcome(<<MessageStart>> \o OpenAll(c.calls),
                                            "ToolCalls", Indices(c.calls))
            [] c.delta = "text" -> Outcome(<<MessageStart, BlockStart("text", 0)>> \o TextEvents(c),
                                           "TextContent", <<>>)
  <2>1. Runs(shown)
    BY <1>1, <1>2, OneQuiet DEF Runs, Outcome
  <2>2. PushChunk(c) = IF c.finish THEN Finishing(shown, <<>>) ELSE shown
    BY <1>3 DEF PushChunk, HandleInitial
  <2>. HIDE DEF shown
  <2>3. Ends(Finishing(shown, <<>>))
    BY <2>1, OneQuiet, FinishingEnds DEF Runs
  <2>. QED BY <2>1, <2>2, <2>3, <1>3
<1>4. CASE state = "TextContent"
  <2>. DEFINE shown ==
          CASE c.delta = "none" -> Outcome(<<>>, "TextContent", <<>>)
            [] c.delta = "tools" -> Outcome(<<BlockStop(0)>> \o OpenAll(c.calls),
                                            "ToolCalls", Indices(c.calls))
            [] c.delta = "text" -> Outcome(TextEvents(c), "TextContent", <<>>)
  <2>1. Runs(shown)
    BY <1>1, <1>2, OneQuiet DEF Runs, Outcome
  <2>2. PushChunk(c) = IF c.finish THEN Finishing(shown, <<BlockStop(0)>>) ELSE shown
    BY <1>4 DEF PushChunk, HandleText
  <2>. HIDE DEF shown
  <2>3. Ends(Finishing(shown, <<BlockStop(0)>>))
    BY <2>1, OneQuiet, FinishingEnds DEF Runs
  <2>. QED BY <2>1, <2>2, <2>3, <1>4
<1>5. CASE state = "ToolCalls"
  <2>. DEFINE shown == Outcome(IF c.delta = "tools" THEN OpenUnknown(c.calls) ELSE <<>>,
                               "ToolCalls", tool_indices)
  <2>1. Runs(shown)
    BY <1>1, OneQuiet DEF Runs, Outcome
  <2>2. PushChunk(c) = IF c.finish THEN Finishing(shown, StopAll(tool_indices)) ELSE shown
    BY <1>5 DEF PushChunk, HandleToolCalls
  <2>. HIDE DEF shown
  <2>3. Ends(Finishing(shown, StopAll(tool_indices)))
    BY <2>1, <1>1, FinishingEnds DEF Runs
  <2>. QED BY <2>1, <2>2, <2>3, <1>5
<1>6. CASE state = "Finished"
  <2>1. PushChunk(c) = Outcome(<<>>, "Finished", <<>>)
    BY <1>6 DEF PushChunk
  <2>. QED BY <2>1, <1>6 DEF Rests, Outcome
<1>. QED BY <1>3, <1>4, <1>5, <1>6

LEMMA FinishOutcome ==
    ASSUME tool_indices \in Seq(Index),
           state \in {"Initial", "TextContent", "ToolCalls", "Finished"}
    PROVE  /\ state = "Finished" => Rests(FinishInner)
           /\ state # "Finished" => Ends(FinishInner)
<1>. HIDE DEF Quiet
<1>1. StopAll(tool_indices) \in Seq(Quiet)
  BY StopsQuiet
<1>2. ASSUME NEW q \in Seq(Quiet), FinishInner = Outcome(q \o Ending, "Finished", <<>>)
      PROVE  Ends(FinishInner)
  <2>1. \E r \in Seq(Quiet) : q \o Ending = r \o <<Stop>>
    BY EndingLast
  <2>. QED BY <1>2, <2>1 DEF Ends, Outcome
<1>3. CASE state = "Initial"
  <2>1. FinishInner = Outcome(<<MessageStart>> \o Ending, "Finished", <<>>)
    BY <1>3 DEF FinishInner
  <2>. QED BY <2>1, <1>2, <1>3, OneQuiet
<1>4. CASE state = "TextContent"
  <2>1. FinishInner = Outcome(<<BlockStop(0)>> \o Ending, "Finished", <<>>)
    BY <1>4 DEF FinishInner
  <2>. QED BY <2>1, <1>2, <1>4, OneQuiet
<1>5. CASE state = "ToolCalls"
  <2>1. FinishInner = Outcome(StopAll(tool_indices) \o Ending, "Finished", <<>>)
    BY <1>5 DEF FinishInner
  <2>. QED BY <2>1, <1>1, <1>2, <1>5
<1>6. CASE state = "Finished"
  <2>1. FinishInner = Outcome(<<>>, "Finished", <<>>)
    BY <1>6 DEF FinishInner
  <2>. QED BY <2>1, <1>6 DEF Rests, Outcome
<1>. QED BY <1>3, <1>4, <1>5, <1>6

-----------------------------------------------------------------------------
(* The invariant *)

States == {"Initial", "TextContent", "ToolCalls", "Finished"}

TranslatorType == state \in States /\ tool_indices \in Seq(Index)
BodyType ==
    /\ sent \in Seq(Events) /\ captured \in Seq(Events) /\ Len(captured) <= Len(sent)
    /\ truncated \in BOOLEAN /\ finished \in BOOLEAN
    /\ report.made \in BOOLEAN /\ Len(report.body) <= Cap

PiecesOf(n) == [kind : {"text", "tool"}, index : Index, chunk : 1..n]
ProviderType ==
    /\ number \in 0..MaxChunks /\ announced \subseteq Index
    /\ said \subseteq {"text", "tools", "finish"} /\ odd \subseteq Habits
    /\ given \in Seq(PiecesOf(number))

\* The translator is finished when the message has stopped.
Stopped ==
    /\ state # "Finished" => sent \in Seq(Quiet)
    /\ state = "Finished" => \E q \in Seq(Quiet) : sent = q \o <<Stop>>
    /\ finished => state = "Finished"

\* What will be reported.
Captured ==
    ~report.made =>
        /\ ~finished => captured = Upto(sent, Cap) /\ (truncated <=> Len(sent) > Cap)
        /\ Upto(captured, Cap) = Upto(sent, Cap)
        /\ truncated \/ Len(captured) > Cap <=> Len(sent) > Cap

IInv == TranslatorType /\ BodyType /\ ProviderType /\ Stopped /\ Captured /\ ReportedIsSent

\* What the agent is told of the reason is what the provider said of it: a message
\* that is over has been ended by the provider, or by the end of the body.
ReasonInv ==
    /\ reason \in Reasons \cup {"none"} /\ stop_reason \in StopReasons \cup {"none"}
    /\ state = "Finished" => "finish" \in said \/ finished
    /\ reason # "none" => state = "Finished" /\ stop_reason = StopReason(reason)

LEMMA TypeImplied == IInv /\ ReasonInv => TypeOK
<1>. SUFFICES ASSUME IInv, ReasonInv PROVE TypeOK
  OBVIOUS
<1>1. \A p \in 1..Len(sent) : sent[p].ev \in Names
  <2>. HIDE DEF Events
  <2>1. sent \in Seq(Events)
    BY DEF IInv, BodyType
  <2>2. \A p \in 1..Len(sent) : sent[p] \in Events
    BY <2>1
  <2>. QED BY <2>2, EventNames
<1>2. \A p \in 1..Len(given) : given[p].chunk \in 1..number
  <2>1. given \in Seq(PiecesOf(number))
    BY DEF IInv, ProviderType
  <2>2. \A p \in 1..Len(given) : given[p] \in PiecesOf(number)
    <3>. HIDE DEF PiecesOf
    <3>. QED BY <2>1
  <2>. QED BY <2>2 DEF PiecesOf
<1>. QED BY <1>1, <1>2 DEF TypeOK, IInv, ReasonInv, TranslatorType, BodyType, ProviderType, States

LEMMA StoppedImplied == TranslatorType /\ BodyType /\ Stopped => StoppedOnce
<1>. SUFFICES ASSUME TranslatorType, BodyType, Stopped PROVE StoppedOnce
  OBVIOUS
<1>. HIDE DEF Quiet, Stop
<1>1. CASE state # "Finished"
  <2>1. sent \in Seq(Quiet) /\ ~finished
    BY <1>1 DEF Stopped
  <2>2. \A p \in 1..Len(sent) : sent[p] \in Quiet
    BY <2>1
  <2>3. \A p \in 1..Len(sent) : ~At(p, "message_stop")
    BY <2>2, QuietNames DEF At
  <2>. QED BY <2>1, <2>3 DEF StoppedOnce
<1>2. CASE state = "Finished"
  <2>1. PICK q \in Seq(Quiet) : sent = q \o <<Stop>>
    BY <1>2 DEF Stopped
  <2>2. q \in Seq(Events) /\ <<Stop>> \in Seq(Events) /\ Len(q) \in Nat
    <3>1. Stop \in Events
      BY DEF Events
    <3>2. q \in Seq(Events)
      BY SeqMonotonic DEF Events
    <3>. QED BY <3>1, <3>2
  <2>3. /\ Len(sent) = Len(q) + 1
        /\ \A p \in 1..(Len(q) + 1) : sent[p] = IF p <= Len(q) THEN q[p] ELSE <<Stop>>[p - Len(q)]
    BY <2>1, <2>2, ConcatProperties
  <2>4. \A p \in 1..Len(q) : q[p] \in Quiet
    OBVIOUS
  <2>5. ASSUME NEW p \in 1..Len(sent), p # Len(sent) PROVE ~At(p, "message_stop")
    <3>1. p \in 1..Len(q) /\ p \in 1..(Len(q) + 1) /\ p <= Len(q)
      BY <2>2, <2>3, <2>5
    <3>2. sent[p] \in Quiet
      BY <3>1, <2>3, <2>4
    <3>. QED BY <3>2, QuietNames DEF At
  <2>6. sent[Len(sent)] = Stop
    <3>1. Len(sent) \in 1..(Len(q) + 1) /\ ~(Len(sent) <= Len(q)) /\ Len(sent) - Len(q) = 1
      BY <2>2, <2>3
    <3>. QED BY <3>1, <2>3
  <2>7. sent # <<>> /\ Last(sent).ev = "message_stop"
    BY <2>2, <2>3, <2>6 DEF Last, Stop
  <2>. QED BY <2>5, <2>7 DEF StoppedOnce, Ended
<1>. QED BY <1>1, <1>2

\* Events of an outcome, after what was sent.
LEMMA StoppedAgain ==
    ASSUME BodyType, Stopped, NEW o, Translated(o),
           finished' => finished \/ state' = "Finished",
           state \in States,
           state = "Finished" => Rests(o), state # "Finished" => Runs(o) \/ Ends(o)
    PROVE  Stopped' /\ TranslatorType' /\ sent' \in Seq(Events) /\ o.events \in Seq(Events)
<1>. HIDE DEF Quiet, Stop
<1>0. Stop \in Events /\ Quiet \subseteq Events
  BY DEF Events
<1>1. CASE Rests(o)
  <2>1. sent \o <<>> = sent /\ <<>> \in Seq(Events) /\ <<>> \in Seq(Index)
    BY ConcatEmptySeq DEF BodyType
  <2>2. sent' = sent /\ state' = "Finished" /\ tool_indices' = <<>> /\ o.events = <<>>
    BY <1>1, <2>1 DEF Translated, Rests
  <2>3. state = "Finished"
    <3>1. ~Runs(o)
      BY <1>1 DEF Runs, Rests
    <3>2. ~Ends(o)
      <4>1. ASSUME NEW q \in Seq(Quiet), <<>> = q \o <<Stop>> PROVE FALSE
        <5>1. Len(q \o <<Stop>>) = Len(q) + 1 /\ Len(q) \in Nat /\ Len(<<>>) = 0
          OBVIOUS
        <5>. QED BY <4>1, <5>1
      <4>. QED BY <4>1, <1>1 DEF Ends, Rests
    <3>. QED BY <3>1, <3>2
  <2>. QED BY <2>1, <2>2, <2>3 DEF Stopped, TranslatorType, States, BodyType
<1>2. CASE state # "Finished" /\ Runs(o)
  <2>1. sent \in Seq(Quiet) /\ o.events \in Seq(Quiet) /\ ~finished
    BY <1>2 DEF Stopped, Runs
  <2>2. sent' = sent \o o.events /\ state' = o.state /\ tool_indices' = o.tools
    BY DEF Translated
  <2>3. sent' \in Seq(Quiet)
    BY <2>1, <2>2, ConcatProperties
  <2>4. sent' \in Seq(Events) /\ o.events \in Seq(Events)
    BY <2>1, <2>3, <1>0, SeqMonotonic
  <2>5. state' \in {"Initial", "TextContent", "ToolCalls"} /\ tool_indices' \in Seq(Index)
    BY <1>2, <2>2 DEF Runs
  <2>. QED BY <2>1, <2>3, <2>4, <2>5 DEF Stopped, TranslatorType, States
<1>3. CASE state # "Finished" /\ Ends(o)
  <2>1. PICK q \in Seq(Quiet) : o.events = q \o <<Stop>>
    BY <1>3 DEF Ends
  <2>2. sent \in Seq(Quiet) /\ ~finished
    BY <1>3 DEF Stopped
  <2>3. sent' = sent \o o.events /\ state' = "Finished" /\ tool_indices' = <<>>
    BY <1>3 DEF Translated, Ends
  <2>4. sent \in Seq(Events) /\ q \in Seq(Events) /\ <<Stop>> \in Seq(Events) /\ sent \o q \in Seq(Quiet)
    BY <2>2, <1>0, SeqMonotonic, ConcatProperties
  <2>5. sent' = (sent \o q) \o <<Stop>>
    <3>. HIDE DEF Events
    <3>1. sent \o (q \o <<Stop>>) = (sent \o q) \o <<Stop>>
      BY <2>4, ConcatAssociative
    <3>. QED BY <3>1, <2>1, <2>3
  <2>6. sent' \in Seq(Events) /\ o.events \in Seq(Events)
    <3>. HIDE DEF Events
    <3>1. q \o <<Stop>> \in Seq(Events)
      BY <2>4, ConcatProperties
    <3>2. sent \o (q \o <<Stop>>) \in Seq(Events)
      BY <3>1, <2>4, ConcatProperties
    <3>. QED BY <3>1, <3>2, <2>1, <2>3
  <2>7. \E r \in Seq(Quiet) : sent' = r \o <<Stop>>
    BY <2>4, <2>5
  <2>8. <<>> \in Seq(Index)
    OBVIOUS
  <2>. QED BY <2>2, <2>3, <2>6, <2>7, <2>8 DEF Stopped, TranslatorType, States
<1>. QED BY <1>1, <1>2, <1>3

LEMMA InitOK == Init => IInv
<1>. SUFFICES ASSUME Init PROVE IInv
  OBVIOUS
<1>. HIDE DEF Quiet, Stop
<1>1. sent = <<>> /\ captured = <<>> /\ given = <<>> /\ tool_indices = <<>> /\ state = "Initial"
  BY DEF Init
<1>2. <<>> \in Seq(Events) /\ <<>> \in Seq(Quiet) /\ <<>> \in Seq(Index) /\ Len(<<>>) = 0
  OBVIOUS
<1>3. TranslatorType
  BY <1>1, <1>2 DEF TranslatorType, States
<1>4. BodyType
  <2>1. report.made = FALSE /\ report.body = <<>> /\ truncated = FALSE /\ finished = FALSE
    BY DEF Init, NoReport
  <2>2. Cap \in Nat /\ 0 <= Cap
    BY SseAssumption
  <2>3. Len(report.body) <= Cap /\ Len(captured) <= Len(sent)
    BY <2>1, <2>2, <1>1, <1>2
  <2>. HIDE DEF Events
  <2>. QED BY <2>1, <2>3, <1>1, <1>2 DEF BodyType
<1>5. ProviderType
  <2>1. <<>> \in Seq(PiecesOf(number))
    OBVIOUS
  <2>. QED BY <2>1, SseAssumption DEF ProviderType, Init
<1>6. Stopped
  BY <1>1, <1>2 DEF Stopped, Init
<1>7. Captured
  <2>1. Upto(<<>>, Cap) = <<>>
    <3>1. Upto(<<>>, Cap) \in Seq(Events) /\ Len(Upto(<<>>, Cap)) = 0
      BY <1>2, SseAssumption, UptoFacts
    <3>. QED BY <3>1
  <2>2. captured = Upto(sent, Cap) /\ Upto(captured, Cap) = Upto(sent, Cap)
    BY <1>1, <2>1
  <2>3. ~(Len(sent) > Cap) /\ ~(Len(captured) > Cap) /\ ~truncated
    BY <1>1, <1>2, SseAssumption DEF Init
  <2>. QED BY <2>2, <2>3 DEF Captured
<1>8. ReportedIsSent
  BY DEF ReportedIsSent, Init, NoReport
<1>. QED BY <1>3, <1>4, <1>5, <1>6, <1>7, <1>8 DEF IInv

\* What the provider adds is of its type.
LEMMA ProvidesType ==
    ASSUME ProviderType, number < MaxChunks, NEW c \in Chunk, Provides(c), Provide(c)
    PROVE  ProviderType'
<1>1. number \in Nat /\ number' = number + 1 /\ number' \in 0..MaxChunks
  BY SseAssumption DEF ProviderType, Provide
<1>2. c.calls \in Seq(Call) /\ c.delta \in {"none", "text", "tools"}
  <2>1. c.delta \in {"none", "text", "tools"}
    BY DEF Chunk
  <2>. QED BY <2>1, ChunkCalls
<1>3. \A k \in 1..Len(c.calls) : c.calls[k].index \in Index
  <2>1. \A k \in 1..Len(c.calls) : c.calls[k] \in Call
    BY <1>2
  <2>. QED BY <2>1 DEF Call
<1>4. announced' \subseteq Index
  BY <1>3 DEF ProviderType, Provide
<1>5. said' \subseteq {"text", "tools", "finish"}
  BY <1>2 DEF ProviderType, Provide
<1>6. odd' \subseteq Habits
  BY DEF ProviderType, Provide, Provides
<1>. DEFINE P == PiecesOf(number + 1)
<1>7. given \in Seq(P)
  <2>1. given \in Seq(PiecesOf(number))
    BY DEF ProviderType
  <2>2. PiecesOf(number) \subseteq P
    BY <1>1 DEF PiecesOf
  <2>. QED BY <2>1, <2>2, SeqMonotonic
<1>8. Fragment("text", 0, number + 1) \in P
  BY <1>1, SseAssumption DEF PiecesOf, Fragment
<1>9. \A k \in 1..Len(c.calls) : Fragment("tool", c.calls[k].index, number + 1) \in P
  BY <1>1, <1>3 DEF PiecesOf, Fragment
<1>. HIDE DEF P
<1>10. FragmentsOf(c) \in Seq(P)
  <2>. DEFINE h == IF c.text THEN <<Fragment("text", 0, number + 1)>> ELSE <<>>
              q == [k \in 1..Len(c.calls) |->
                       IF c.calls[k].args
                       THEN <<Fragment("tool", c.calls[k].index, number + 1)>> ELSE <<>>]
  <2>1. h \in Seq(P)
    BY <1>8
  <2>2. \A k \in 1..Len(c.calls) : q[k] \in Seq(P)
    <3>. SUFFICES ASSUME NEW k \in 1..Len(c.calls) PROVE q[k] \in Seq(P)
      OBVIOUS
    <3>1. <<Fragment("tool", c.calls[k].index, number + 1)>> \in Seq(P) /\ <<>> \in Seq(P)
      BY <1>9
    <3>. QED BY <3>1
  <2>3. q = [k \in 1..Len(c.calls) |-> q[k]] /\ Len(c.calls) \in Nat
    BY <1>2
  <2>4. FragmentsOf(c) = h \o FlattenSeq(q)
    BY DEF FragmentsOf
  <2>. HIDE DEF h, q
  <2>5. q \in Seq(Seq(P))
    BY <2>2, <2>3
  <2>6. FlattenSeq(q) \in Seq(P)
    BY <2>5, FlattenType
  <2>. QED BY <2>1, <2>4, <2>6, ConcatProperties
<1>11. given' \in Seq(PiecesOf(number'))
  <2>1. given' = given \o FragmentsOf(c)
    BY DEF Provide
  <2>2. given' \in Seq(P)
    BY <2>1, <1>7, <1>10, ConcatProperties
  <2>. QED BY <2>2, <1>1 DEF P
<1>. QED BY <1>1, <1>4, <1>5, <1>6, <1>11 DEF ProviderType

\* While the body is polled the events of an outcome are captured up to the cap.
LEMMA CapturesOutcome ==
    ASSUME BodyType, Captured, ~finished, ~report.made, UNCHANGED <<finished, report>>,
           NEW o, o.events \in Seq(Events), Translated(o), Capture(o.events)
    PROVE  BodyType' /\ Captured' /\ ReportedIsSent'
<1>. HIDE DEF Events
<1>. DEFINE t == o.events
            room == Cap - Len(Upto(sent, Cap))
<1>1. /\ sent \in Seq(Events) /\ t \in Seq(Events) /\ sent' = sent \o t
      /\ captured = Upto(sent, Cap) /\ (truncated <=> Len(sent) > Cap) /\ Cap \in Nat
      /\ captured' = captured \o Upto(t, Cap - Len(captured))
      /\ truncated' = (truncated \/ Len(t) > Cap - Len(captured))
  BY SseAssumption DEF BodyType, Captured, Translated, Capture
<1>2. /\ Upto(sent, Cap) \o Upto(t, room) = Upto(sent \o t, Cap)
      /\ Len(sent) > Cap \/ Len(t) > room <=> Len(sent \o t) > Cap
  BY <1>1, CapturedSoFar
<1>3. captured' = Upto(sent', Cap)
  BY <1>1, <1>2
<1>4. truncated' <=> Len(sent') > Cap
  BY <1>1, <1>2
<1>. HIDE DEF t, room
<1>5. sent' \in Seq(Events)
  BY <1>1, ConcatProperties
<1>6. /\ captured' \in Seq(Events)
      /\ Len(captured') = IF Cap < Len(sent') THEN Cap ELSE Len(sent')
  <2>. DEFINE u == sent'
  <2>1. u \in Seq(Events) /\ Cap \in Nat
    BY <1>1, <1>5
  <2>2. captured' = Upto(u, Cap)
    BY <1>3
  <2>. HIDE DEF u
  <2>3. /\ Upto(u, Cap) \in Seq(Events)
        /\ Len(Upto(u, Cap)) = IF Cap < Len(u) THEN Cap ELSE Len(u)
    BY <2>1, UptoFacts
  <2>. QED BY <2>2, <2>3 DEF u
<1>7. Len(sent') \in Nat
  BY <1>5
<1>8. Len(captured') <= Len(sent') /\ ~(Len(captured') > Cap)
  BY <1>1, <1>6, <1>7
<1>9. Upto(captured', Cap) = captured'
  <2>1. ~(Cap < Len(captured'))
    BY <1>8
  <2>2. Upto(captured', Cap) = SubSeq(captured', 1, Len(captured'))
    BY <2>1 DEF Upto
  <2>. QED BY <2>2, <1>6, SubSeqFull
<1>10. truncated' \in BOOLEAN
  BY <1>1
<1>11. BodyType'
  BY <1>5, <1>6, <1>8, <1>10 DEF BodyType
<1>12. Captured'
  BY <1>3, <1>4, <1>8, <1>9 DEF Captured
<1>13. ReportedIsSent'
  BY DEF ReportedIsSent
<1>. QED BY <1>11, <1>12, <1>13

LEMMA PollChunkOK == IInv /\ PollChunk => IInv'
<1>. SUFFICES ASSUME IInv, PollChunk PROVE IInv'
  OBVIOUS
<1>. USE DEF IInv
<1>. HIDE DEF Quiet, Stop, Events
<1>1. PICK c \in Chunk :
        Provides(c) /\ Provide(c) /\ Translated(PushChunk(c)) /\ Capture(PushChunk(c).events)
  BY DEF PollChunk
<1>. DEFINE o == PushChunk(c)
<1>2. number \in Nat /\ tool_indices \in Seq(Index) /\ state \in States
  BY SseAssumption DEF ProviderType, TranslatorType
<1>3. (state = "Finished" => Rests(o)) /\ (state # "Finished" => Runs(o) \/ Ends(o))
  BY <1>2, PushOutcome DEF States
<1>4. Translated(o) /\ Capture(o.events)
  BY <1>1
<1>5. ~finished /\ ~report.made /\ number < MaxChunks /\ UNCHANGED <<finished, report>>
  BY DEF PollChunk
<1>. HIDE DEF o
<1>6. Stopped' /\ TranslatorType' /\ o.events \in Seq(Events)
  BY <1>2, <1>3, <1>4, <1>5, StoppedAgain
<1>7. BodyType' /\ Captured' /\ ReportedIsSent'
  BY <1>4, <1>5, <1>6, CapturesOutcome
<1>8. ProviderType'
  BY <1>1, <1>5, ProvidesType
<1>. QED BY <1>6, <1>7, <1>8

LEMMA PollDoneOK == IInv /\ PollDone => IInv'
<1>. SUFFICES ASSUME IInv, PollDone PROVE IInv'
  OBVIOUS
<1>. USE DEF IInv
<1>. HIDE DEF Quiet, Stop, Events
<1>. DEFINE o == FinishInner
<1>1. tool_indices \in Seq(Index) /\ state \in States
  BY DEF TranslatorType
<1>2. (state = "Finished" => Rests(o)) /\ (state # "Finished" => Runs(o) \/ Ends(o))
  BY <1>1, FinishOutcome DEF States
<1>3. /\ Translated(o) /\ Capture(o.events)
      /\ ~finished /\ ~report.made /\ UNCHANGED <<finished, report>>
  BY DEF PollDone
<1>. HIDE DEF o
<1>4. Stopped' /\ TranslatorType' /\ o.events \in Seq(Events)
  BY <1>1, <1>2, <1>3, StoppedAgain
<1>5. BodyType' /\ Captured' /\ ReportedIsSent'
  BY <1>3, <1>4, CapturesOutcome
<1>6. ProviderType'
  BY DEF PollDone, ProviderType
<1>. QED BY <1>4, <1>5, <1>6

LEMMA PollEndOK == IInv /\ PollEnd => IInv'
<1>. SUFFICES ASSUME IInv, PollEnd PROVE IInv'
  OBVIOUS
<1>. USE DEF IInv
<1>. HIDE DEF Quiet, Stop, Events
<1>. DEFINE o == FinishInner
<1>1. tool_indices \in Seq(Index) /\ state \in States
  BY DEF TranslatorType
<1>2. /\ state = "Finished" => Rests(o)
      /\ state # "Finished" => Ends(o)
  BY <1>1, FinishOutcome DEF States
<1>3. /\ Translated(o) /\ captured' = captured \o o.events /\ finished' = TRUE
      /\ ~finished /\ ~report.made /\ UNCHANGED <<truncated, report, provider>>
  BY DEF PollEnd
<1>. HIDE DEF o
<1>4. o.state = "Finished" /\ state' = "Finished"
  BY <1>2, <1>3 DEF Rests, Ends, Translated
<1>5. Stopped' /\ TranslatorType' /\ sent' \in Seq(Events) /\ o.events \in Seq(Events)
  BY <1>1, <1>2, <1>3, <1>4, StoppedAgain
<1>. DEFINE t == o.events
<1>6. /\ sent \in Seq(Events) /\ t \in Seq(Events) /\ sent' = sent \o t
      /\ captured = Upto(sent, Cap) /\ (truncated <=> Len(sent) > Cap) /\ Cap \in Nat
      /\ captured' = captured \o t /\ truncated' = truncated
  BY <1>3, <1>5, SseAssumption DEF BodyType, Captured, Translated
<1>. HIDE DEF t
<1>7. /\ Upto(Upto(sent, Cap) \o t, Cap) = Upto(sent \o t, Cap)
      /\ Len(sent) > Cap \/ Len(Upto(sent, Cap) \o t) > Cap <=> Len(sent \o t) > Cap
  BY <1>6, CapturedAtEnd
<1>8. Captured'
  <2>1. Upto(captured', Cap) = Upto(sent', Cap)
    BY <1>6, <1>7
  <2>2. truncated' \/ Len(captured') > Cap <=> Len(sent') > Cap
    BY <1>6, <1>7
  <2>3. finished' = TRUE
    BY <1>3
  <2>. QED BY <2>1, <2>2, <2>3 DEF Captured
<1>9. captured' \in Seq(Events) /\ Len(captured') <= Len(sent')
  <2>1. captured \in Seq(Events) /\ Len(captured) <= Len(sent)
    BY DEF BodyType
  <2>2. Len(captured') = Len(captured) + Len(t) /\ Len(sent') = Len(sent) + Len(t)
    BY <2>1, <1>6, ConcatProperties
  <2>3. Len(captured) \in Nat /\ Len(sent) \in Nat /\ Len(t) \in Nat
    BY <2>1, <1>6
  <2>. QED BY <2>1, <2>2, <2>3, <1>6, ConcatProperties
<1>10. BodyType'
  BY <1>3, <1>5, <1>9 DEF BodyType
<1>11. ProviderType'
  BY <1>3 DEF ProviderType, provider
<1>12. ReportedIsSent'
  BY <1>3 DEF ReportedIsSent
<1>. QED BY <1>5, <1>8, <1>10, <1>11, <1>12

LEMMA DropOK == IInv /\ Drop => IInv'
<1>. SUFFICES ASSUME IInv, Drop PROVE IInv'
  OBVIOUS
<1>. USE DEF IInv
<1>. HIDE DEF Quiet, Stop, Events
<1>1. /\ ~report.made /\ captured' = <<>>
      /\ report' = [body |-> Upto(captured, Cap), truncated |-> truncated \/ Len(captured) > Cap, made |-> TRUE]
      /\ UNCHANGED <<translator, sent, truncated, finished, provider>>
  BY DEF Drop
<1>2. TranslatorType' /\ ProviderType' /\ Stopped'
  BY <1>1 DEF TranslatorType, ProviderType, Stopped, translator, provider
<1>3. Len(Upto(captured, Cap)) <= Cap
  <2>1. captured \in Seq(Events) /\ Cap \in Nat
    BY SseAssumption DEF BodyType
  <2>2. Len(Upto(captured, Cap)) = IF Cap < Len(captured) THEN Cap ELSE Len(captured)
    BY <2>1, UptoFacts
  <2>. QED BY <2>1, <2>2
<1>4. BodyType'
  <2>1. <<>> \in Seq(Events) /\ Len(<<>>) <= Len(sent)
    BY DEF BodyType
  <2>. QED BY <2>1, <1>1, <1>3 DEF BodyType
<1>5. Captured' /\ ReportedIsSent'
  BY <1>1 DEF Captured, ReportedIsSent
<1>. QED BY <1>2, <1>4, <1>5

LEMMA StepOK == IInv /\ [Next]_vars => IInv'
<1>. SUFFICES ASSUME IInv, [Next]_vars PROVE IInv'
  OBVIOUS
<1>1. CASE UNCHANGED vars
  <2>. USE <1>1 DEF vars, translator, provider
  <2>1. TranslatorType' /\ BodyType' /\ ProviderType'
    BY DEF IInv, TranslatorType, BodyType, ProviderType
  <2>2. Stopped' /\ Captured' /\ ReportedIsSent'
    BY DEF IInv, Stopped, Captured, ReportedIsSent
  <2>. QED BY <2>1, <2>2 DEF IInv
<1>. QED BY <1>1, PollChunkOK, PollDoneOK, PollEndOK, DropOK DEF Next

-----------------------------------------------------------------------------
(* Fragments *)

\* The fragments of a kind in an event, and in what the provider sends.
DeltaOf(kind) ==
    [e \in Events |-> IF e.ev = "content_block_delta" /\ e.of.kind = kind THEN <<e.of>> ELSE <<>>]
PieceOf(kind) == [f \in Pieces |-> IF f.kind = kind THEN <<f>> ELSE <<>>]

LEMMA DeltaEvent ==
    \A e \in Events : e.ev = "content_block_delta" =>
        \E f \in Pieces : e = BlockDelta(f) /\ e.of = f /\ e.index = f.index
<1>. SUFFICES ASSUME NEW e \in Events, e.ev = "content_block_delta"
     PROVE  \E f \in Pieces : e = BlockDelta(f) /\ e.of = f /\ e.index = f.index
  OBVIOUS
<1>1. ASSUME NEW i \in Index PROVE BlockStop(i).ev # "content_block_delta"
  BY DEF BlockStop
<1>2. ASSUME NEW k \in {"text", "tool"}, NEW i \in Index PROVE BlockStart(k, i).ev # "content_block_delta"
  BY DEF BlockStart
<1>3. e \notin {[ev |-> "message_start"], [ev |-> "message_delta"]} /\ e # Stop
  BY DEF Stop
<1>4. PICK f \in Pieces : e = BlockDelta(f)
  <2>1. e \in {BlockDelta(f) : f \in Pieces}
    BY <1>1, <1>2, <1>3 DEF Events, Quiet
  <2>. QED BY <2>1
<1>5. e.of = f /\ e.index = f.index
  BY <1>4 DEF BlockDelta
<1>. QED BY <1>4, <1>5

LEMMA DeltaOfType == \A kind : DeltaOf(kind) \in [Events -> Seq(Pieces)]
<1>. SUFFICES ASSUME NEW kind PROVE DeltaOf(kind) \in [Events -> Seq(Pieces)]
  OBVIOUS
<1>1. ASSUME NEW e \in Events
      PROVE  (IF e.ev = "content_block_delta" /\ e.of.kind = kind THEN <<e.of>> ELSE <<>>) \in Seq(Pieces)
  <2>1. CASE e.ev = "content_block_delta"
    <3>1. e.of \in Pieces
      BY <2>1, DeltaEvent
    <3>. HIDE DEF Pieces
    <3>2. <<e.of>> \in Seq(Pieces) /\ <<>> \in Seq(Pieces)
      BY <3>1
    <3>. QED BY <3>2
  <2>2. CASE e.ev # "content_block_delta"
    BY <2>2
  <2>. QED BY <2>1, <2>2
<1>. HIDE DEF Events, Pieces
<1>. QED BY <1>1 DEF DeltaOf

LEMMA PieceOfType == \A kind : PieceOf(kind) \in [Pieces -> Seq(Pieces)]
<1>. HIDE DEF Pieces
<1>. QED BY DEF PieceOf

\* What the agent was sent and what the provider gave, collected.
LEMMA Collected ==
    ASSUME NEW s \in Seq(Events), NEW g \in Seq(Pieces), NEW kind
    PROVE  /\ FlattenSeq([p \in 1..Len(s) |->
                  IF s[p].ev = "content_block_delta" /\ s[p].of.kind = kind
                  THEN <<s[p].of>> ELSE <<>>]) = Collect(s, DeltaOf(kind))
           /\ FlattenSeq([n \in 1..Len(g) |-> IF g[n].kind = kind THEN <<g[n]>> ELSE <<>>])
              = Collect(g, PieceOf(kind))
<1>. HIDE DEF Events, Pieces
<1>1. ASSUME NEW p \in 1..Len(s)
      PROVE  DeltaOf(kind)[s[p]] = IF s[p].ev = "content_block_delta" /\ s[p].of.kind = kind
                                   THEN <<s[p].of>> ELSE <<>>
  <2>1. s[p] \in Events
    OBVIOUS
  <2>. QED BY <2>1 DEF DeltaOf
<1>2. ASSUME NEW n \in 1..Len(g)
      PROVE  PieceOf(kind)[g[n]] = IF g[n].kind = kind THEN <<g[n]>> ELSE <<>>
  <2>1. g[n] \in Pieces
    OBVIOUS
  <2>. QED BY <2>1 DEF PieceOf
<1>. QED BY <1>1, <1>2 DEF Collect

LEMMA DeltaOfEvents ==
    ASSUME NEW kind
    PROVE  /\ \A f \in Pieces : DeltaOf(kind)[BlockDelta(f)] = IF f.kind = kind THEN <<f>> ELSE <<>>
           /\ \A e \in Events : e.ev # "content_block_delta" => DeltaOf(kind)[e] = <<>>
<1>1. ASSUME NEW f \in Pieces
      PROVE  DeltaOf(kind)[BlockDelta(f)] = IF f.kind = kind THEN <<f>> ELSE <<>>
  <2>1. BlockDelta(f) \in Events
    BY DEF Events, Quiet
  <2>2. BlockDelta(f).ev = "content_block_delta" /\ BlockDelta(f).of = f
    BY DEF BlockDelta
  <2>. HIDE DEF Events, Pieces
  <2>. QED BY <2>1, <2>2 DEF DeltaOf
<1>2. ASSUME NEW e \in Events, e.ev # "content_block_delta" PROVE DeltaOf(kind)[e] = <<>>
  <2>. HIDE DEF Events
  <2>. QED BY <1>2 DEF DeltaOf
<1>. QED BY <1>1, <1>2

\* The arguments in an array of calls.
ArgsOf(calls) ==
    [k \in 1..Len(calls) |->
        IF calls[k].args THEN <<Fragment("tool", calls[k].index, number + 1)>> ELSE <<>>]
TextOf(c) == IF c.text THEN <<Fragment("text", 0, number + 1)>> ELSE <<>>

LEMMA FragmentFacts ==
    ASSUME number \in Nat
    PROVE  /\ Fragment("text", 0, number + 1) \in Pieces
           /\ Fragment("text", 0, number + 1).kind = "text"
           /\ \A i \in Index : /\ Fragment("tool", i, number + 1) \in Pieces
                               /\ Fragment("tool", i, number + 1).kind = "tool"
<1>1. number + 1 \in Nat /\ 0 \in Index
  BY SseAssumption
<1>. QED BY <1>1 DEF Fragment, Pieces

LEMMA ArgsOfType ==
    ASSUME number \in Nat, NEW calls \in Seq(Call)
    PROVE  /\ ArgsOf(calls) \in Seq(Seq(Pieces))
           /\ Len(ArgsOf(calls)) = Len(calls)
           /\ \A k \in 1..Len(calls) : /\ ArgsOf(calls)[k] \in Seq(Pieces)
                                       /\ calls[k].index \in Index
<1>1. Len(calls) \in Nat /\ \A k \in 1..Len(calls) : calls[k].index \in Index
  <2>1. Len(calls) \in Nat /\ \A k \in 1..Len(calls) : calls[k] \in Call
    OBVIOUS
  <2>. QED BY <2>1 DEF Call
<1>2. ASSUME NEW k \in 1..Len(calls)
      PROVE  (IF calls[k].args THEN <<Fragment("tool", calls[k].index, number + 1)>> ELSE <<>>) \in Seq(Pieces)
  <2>1. Fragment("tool", calls[k].index, number + 1) \in Pieces
    BY <1>1, FragmentFacts
  <2>. QED BY <2>1
<1>. QED BY <1>1, <1>2 DEF ArgsOf

LEMMA TextOfType ==
    ASSUME number \in Nat, NEW c
    PROVE  TextOf(c) \in Seq(Pieces)
<1>1. Fragment("text", 0, number + 1) \in Pieces
  BY FragmentFacts
<1>. QED BY <1>1 DEF TextOf

\* What a chunk gives of each kind.
LEMMA GivenKinds ==
    ASSUME number \in Nat, NEW c \in Chunk
    PROVE  /\ FragmentsOf(c) \in Seq(Pieces)
           /\ Collect(FragmentsOf(c), PieceOf("tool")) = FlattenSeq(ArgsOf(c.calls))
           /\ Collect(FragmentsOf(c), PieceOf("text")) = TextOf(c)
<1>. DEFINE a == ArgsOf(c.calls)
            t == TextOf(c)
<1>1. c.calls \in Seq(Call)
  BY ChunkCalls
<1>2. a \in Seq(Seq(Pieces)) /\ t \in Seq(Pieces) /\ Len(a) = Len(c.calls)
      /\ \A k \in 1..Len(a) : a[k] \in Seq(Pieces) /\ c.calls[k].index \in Index
  BY <1>1, ArgsOfType, TextOfType
<1>3. FragmentsOf(c) = t \o FlattenSeq(a)
  BY DEF FragmentsOf, ArgsOf, TextOf
<1>4. FlattenSeq(a) \in Seq(Pieces)
  BY <1>2, FlattenType
<1>5. ASSUME NEW kind
      PROVE  Collect(FragmentsOf(c), PieceOf(kind))
             = Collect(t, PieceOf(kind)) \o FlattenSeq([k \in 1..Len(a) |-> Collect(a[k], PieceOf(kind))])
  <2>. HIDE DEF a, t
  <2>1. PieceOf(kind) \in [Pieces -> Seq(Pieces)]
    BY PieceOfType
  <2>2. Collect(t \o FlattenSeq(a), PieceOf(kind)) = Collect(t, PieceOf(kind)) \o Collect(FlattenSeq(a), PieceOf(kind))
    BY <1>2, <1>4, <2>1, CollectConcat, ZenonT(30)
  <2>3. Collect(FlattenSeq(a), PieceOf(kind)) = FlattenSeq([k \in 1..Len(a) |-> Collect(a[k], PieceOf(kind))])
    BY <1>2, <2>1, CollectFlatten
  <2>. QED BY <1>3, <2>2, <2>3
<1>6. \A f \in Pieces : /\ Collect(<<f>>, PieceOf("tool")) = IF f.kind = "tool" THEN <<f>> ELSE <<>>
                        /\ Collect(<<f>>, PieceOf("text")) = IF f.kind = "text" THEN <<f>> ELSE <<>>
  <2>1. ASSUME NEW f \in Pieces, NEW kind
        PROVE  Collect(<<f>>, PieceOf(kind)) = IF f.kind = kind THEN <<f>> ELSE <<>>
    <3>1. Collect(<<f>>, PieceOf(kind)) = PieceOf(kind)[f]
      BY PieceOfType, CollectOne
    <3>. QED BY <3>1 DEF PieceOf
  <2>. QED BY <2>1
<1>7. Collect(t, PieceOf("tool")) = <<>> /\ Collect(t, PieceOf("text")) = t
  BY <1>6, FragmentFacts, CollectNone DEF TextOf
<1>8. ASSUME NEW k \in 1..Len(a)
      PROVE  Collect(a[k], PieceOf("tool")) = a[k] /\ Collect(a[k], PieceOf("text")) = <<>>
  <2>1. a[k] = IF c.calls[k].args THEN <<Fragment("tool", c.calls[k].index, number + 1)>> ELSE <<>>
    BY <1>2 DEF ArgsOf
  <2>2. c.calls[k].index \in Index
    BY <1>2
  <2>. HIDE DEF a
  <2>. QED BY <2>1, <2>2, <1>6, FragmentFacts, CollectNone
<1>9. [k \in 1..Len(a) |-> Collect(a[k], PieceOf("tool"))] = a
  <2>. HIDE DEF a
  <2>1. a = [k \in 1..Len(a) |-> a[k]]
    <3>1. a \in Seq(Seq(Pieces))
      BY <1>2
    <3>. QED BY <3>1
  <2>. QED BY <2>1, <1>8
<1>10. FlattenSeq([k \in 1..Len(a) |-> Collect(a[k], PieceOf("text"))]) = <<>>
  <2>. HIDE DEF a
  <2>. DEFINE none == [x \in Seq(Pieces) |-> <<>>]
  <2>1. \A x \in Seq(Pieces) : none[x] = <<>>
    OBVIOUS
  <2>. HIDE DEF none
  <2>2. \A k \in 1..Len(a) : a[k] \in Seq(Pieces) /\ none[a[k]] = <<>>
    BY <1>2, <2>1
  <2>3. [k \in 1..Len(a) |-> Collect(a[k], PieceOf("text"))] = [k \in 1..Len(a) |-> none[a[k]]]
    BY <1>8, <2>2
  <2>4. Collect(a, none) = <<>>
    BY <1>2, <2>2, CollectNothing
  <2>. QED BY <2>3, <2>4 DEF Collect
<1>. HIDE DEF a, t
<1>11. <<>> \o FlattenSeq(a) = FlattenSeq(a) /\ t \o <<>> = t
  BY <1>2, <1>4, ConcatEmptySeq
<1>12. t \o FlattenSeq(a) \in Seq(Pieces)
  BY <1>2, <1>4, ConcatProperties
<1>13. Collect(FragmentsOf(c), PieceOf("tool")) = FlattenSeq(a)
  BY <1>5, <1>7, <1>9, <1>11
<1>14. Collect(FragmentsOf(c), PieceOf("text")) = t
  BY <1>5, <1>7, <1>10, <1>11
<1>. QED BY <1>3, <1>12, <1>13, <1>14 DEF a, t

LEMMA QuietEvents == Quiet \subseteq Events /\ \A s \in Seq(Quiet) : s \in Seq(Events)
<1>1. Quiet \subseteq Events
  BY DEF Events
<1>2. \A s \in Seq(Quiet) : s \in Seq(Events)
  BY <1>1, SeqMonotonic
<1>. QED BY <1>1, <1>2

\* Arguments of a call, after the start of its block or not.
LEMMA ArgsKinds ==
    ASSUME number \in Nat, NEW call \in Call,
           NEW s, s = ArgsEvents(call) \/ s = <<BlockStart("tool", call.index)>> \o ArgsEvents(call)
    PROVE  /\ s \in Seq(Events)
           /\ Collect(s, DeltaOf("tool")) =
                  IF call.args THEN <<Fragment("tool", call.index, number + 1)>> ELSE <<>>
           /\ Collect(s, DeltaOf("text")) = <<>>
<1>. DEFINE f == Fragment("tool", call.index, number + 1)
            b == BlockStart("tool", call.index)
<1>1. call.index \in Index
  BY DEF Call
<1>2. f \in Pieces /\ f.kind = "tool"
  BY <1>1, FragmentFacts
<1>3. BlockDelta(f) \in Events /\ b \in Events /\ b.ev # "content_block_delta"
  <2>1. BlockDelta(f) \in Events /\ b \in Events
    BY <1>1, <1>2 DEF Events, Quiet
  <2>2. b.ev = "content_block_start"
    BY DEF BlockStart
  <2>. QED BY <2>1, <2>2
<1>4. ArgsEvents(call) = IF call.args THEN <<BlockDelta(f)>> ELSE <<>>
  BY DEF ArgsEvents
<1>. HIDE DEF f, b, Events
<1>5. ArgsEvents(call) \in Seq(Events) /\ <<b>> \in Seq(Events)
  BY <1>3, <1>4
<1>6. ASSUME NEW kind
      PROVE  /\ Collect(ArgsEvents(call), DeltaOf(kind)) = IF call.args /\ kind = "tool" THEN <<f>> ELSE <<>>
             /\ Collect(<<b>> \o ArgsEvents(call), DeltaOf(kind)) = Collect(ArgsEvents(call), DeltaOf(kind))
  <2>1. DeltaOf(kind) \in [Events -> Seq(Pieces)]
    BY DeltaOfType
  <2>2. Collect(<<BlockDelta(f)>>, DeltaOf(kind)) = IF kind = "tool" THEN <<f>> ELSE <<>>
    <3>1. Collect(<<BlockDelta(f)>>, DeltaOf(kind)) = DeltaOf(kind)[BlockDelta(f)]
      BY <1>3, <2>1, CollectOne
    <3>2. DeltaOf(kind)[BlockDelta(f)] = IF f.kind = kind THEN <<f>> ELSE <<>>
      BY <1>2, DeltaOfEvents
    <3>. QED BY <1>2, <3>1, <3>2
  <2>3. Collect(ArgsEvents(call), DeltaOf(kind)) = IF call.args /\ kind = "tool" THEN <<f>> ELSE <<>>
    BY <1>4, <2>2, CollectNone
  <2>4. Collect(<<b>>, DeltaOf(kind)) = <<>>
    <3>1. Collect(<<b>>, DeltaOf(kind)) = DeltaOf(kind)[b]
      BY <1>3, <2>1, CollectOne
    <3>. QED BY <3>1, <1>3, DeltaOfEvents
  <2>5. Collect(<<b>> \o ArgsEvents(call), DeltaOf(kind))
            = Collect(<<b>>, DeltaOf(kind)) \o Collect(ArgsEvents(call), DeltaOf(kind))
    BY <1>5, <2>1, CollectConcat
  <2>6. Collect(ArgsEvents(call), DeltaOf(kind)) \in Seq(Pieces)
    BY <1>5, <2>1, CollectType
  <2>7. <<>> \o Collect(ArgsEvents(call), DeltaOf(kind)) = Collect(ArgsEvents(call), DeltaOf(kind))
    BY <2>6, ConcatEmptySeq
  <2>. QED BY <2>3, <2>4, <2>5, <2>7
<1>7. <<b>> \o ArgsEvents(call) \in Seq(Events)
  BY <1>5, ConcatProperties
<1>8. s \in Seq(Events)
  BY <1>5, <1>7 DEF b
<1>9. ASSUME NEW kind
      PROVE  Collect(s, DeltaOf(kind)) = IF call.args /\ kind = "tool" THEN <<f>> ELSE <<>>
  BY <1>6 DEF b
<1>10. Collect(s, DeltaOf("tool")) = IF call.args THEN <<f>> ELSE <<>>
  BY <1>9
<1>11. Collect(s, DeltaOf("text")) = <<>>
  BY <1>9
<1>. QED BY <1>8, <1>10, <1>11 DEF f

LEMMA CallsKinds ==
    ASSUME number \in Nat, NEW calls \in Seq(Call), NEW q, q = [k \in 1..Len(calls) |-> q[k]],
           \A k \in 1..Len(calls) :
               \/ q[k] = ArgsEvents(calls[k])
               \/ q[k] = <<BlockStart("tool", calls[k].index)>> \o ArgsEvents(calls[k])
    PROVE  /\ Collect(FlattenSeq(q), DeltaOf("tool")) = FlattenSeq(ArgsOf(calls))
           /\ Collect(FlattenSeq(q), DeltaOf("text")) = <<>>
<1>1. Len(calls) \in Nat /\ \A k \in 1..Len(calls) : calls[k] \in Call
  OBVIOUS
<1>2. ASSUME NEW k \in 1..Len(calls)
      PROVE  /\ q[k] \in Seq(Events)
             /\ Collect(q[k], DeltaOf("tool")) =
                    IF calls[k].args THEN <<Fragment("tool", calls[k].index, number + 1)>> ELSE <<>>
             /\ Collect(q[k], DeltaOf("text")) = <<>>
  <2>1. calls[k] \in Call
    BY <1>1
  <2>. QED BY <2>1, ArgsKinds
<1>. HIDE DEF Events
<1>3. q \in Seq(Seq(Events)) /\ Len(q) = Len(calls)
  BY <1>1, <1>2
<1>4. ASSUME NEW kind
      PROVE  Collect(FlattenSeq(q), DeltaOf(kind)) = FlattenSeq([k \in 1..Len(q) |-> Collect(q[k], DeltaOf(kind))])
  BY <1>3, DeltaOfType, CollectFlatten, ZenonT(60)
<1>5. [k \in 1..Len(q) |-> Collect(q[k], DeltaOf("tool"))] = ArgsOf(calls)
  BY <1>2, <1>3 DEF ArgsOf
<1>6. FlattenSeq([k \in 1..Len(q) |-> Collect(q[k], DeltaOf("text"))]) = <<>>
  <2>. DEFINE none == [x \in Seq(Events) |-> <<>>]
  <2>1. \A x \in Seq(Events) : none[x] = <<>>
    OBVIOUS
  <2>. HIDE DEF none
  <2>2. \A k \in 1..Len(q) : q[k] \in Seq(Events) /\ none[q[k]] = <<>>
    BY <1>2, <1>3, <2>1
  <2>3. [k \in 1..Len(q) |-> Collect(q[k], DeltaOf("text"))] = [k \in 1..Len(q) |-> none[q[k]]]
    BY <1>2, <1>3, <2>2
  <2>4. Collect(q, none) = <<>>
    BY <1>3, <2>2, CollectNothing
  <2>. QED BY <2>3, <2>4 DEF Collect
<1>. QED BY <1>4, <1>5, <1>6

LEMMA OpenKinds ==
    ASSUME number \in Nat, NEW calls \in Seq(Call)
    PROVE  /\ Collect(OpenAll(calls), DeltaOf("tool")) = FlattenSeq(ArgsOf(calls))
           /\ Collect(OpenAll(calls), DeltaOf("text")) = <<>>
           /\ Collect(OpenUnknown(calls), DeltaOf("tool")) = FlattenSeq(ArgsOf(calls))
           /\ Collect(OpenUnknown(calls), DeltaOf("text")) = <<>>
<1>. DEFINE q == [k \in 1..Len(calls) |-> <<BlockStart("tool", calls[k].index)>> \o ArgsEvents(calls[k])]
            r == [k \in 1..Len(calls) |->
                     IF calls[k].named /\ ~Contains(tool_indices, calls[k].index)
                     THEN <<BlockStart("tool", calls[k].index)>> \o ArgsEvents(calls[k])
                     ELSE ArgsEvents(calls[k])]
<1>1. \A k \in 1..Len(calls) :
          /\ q[k] = <<BlockStart("tool", calls[k].index)>> \o ArgsEvents(calls[k])
          /\ \/ r[k] = ArgsEvents(calls[k])
             \/ r[k] = <<BlockStart("tool", calls[k].index)>> \o ArgsEvents(calls[k])
  OBVIOUS
<1>2. q = [k \in 1..Len(calls) |-> q[k]] /\ r = [k \in 1..Len(calls) |-> r[k]]
  OBVIOUS
<1>3. OpenAll(calls) = FlattenSeq(q) /\ OpenUnknown(calls) = FlattenSeq(r)
  BY DEF OpenAll, OpenUnknown
<1>. HIDE DEF q, r
<1>4. /\ Collect(FlattenSeq(q), DeltaOf("tool")) = FlattenSeq(ArgsOf(calls))
      /\ Collect(FlattenSeq(q), DeltaOf("text")) = <<>>
  BY <1>1, <1>2, CallsKinds
<1>5. /\ Collect(FlattenSeq(r), DeltaOf("tool")) = FlattenSeq(ArgsOf(calls))
      /\ Collect(FlattenSeq(r), DeltaOf("text")) = <<>>
  BY <1>1, <1>2, CallsKinds
<1>. QED BY <1>3, <1>4, <1>5

LEMMA TextKinds ==
    ASSUME number \in Nat, NEW c
    PROVE  /\ TextEvents(c) \in Seq(Events)
           /\ Collect(TextEvents(c), DeltaOf("text")) = TextOf(c)
           /\ Collect(TextEvents(c), DeltaOf("tool")) = <<>>
<1>. DEFINE f == Fragment("text", 0, number + 1)
<1>1. f \in Pieces /\ f.kind = "text"
  BY FragmentFacts
<1>2. BlockDelta(f) \in Events
  BY <1>1 DEF Events, Quiet
<1>3. TextEvents(c) = (IF c.text THEN <<BlockDelta(f)>> ELSE <<>>) /\ TextOf(c) = IF c.text THEN <<f>> ELSE <<>>
  BY DEF TextEvents, TextOf
<1>. HIDE DEF f, Events
<1>4. ASSUME NEW kind
      PROVE  Collect(<<BlockDelta(f)>>, DeltaOf(kind)) = IF f.kind = kind THEN <<f>> ELSE <<>>
  <2>1. Collect(<<BlockDelta(f)>>, DeltaOf(kind)) = DeltaOf(kind)[BlockDelta(f)]
    BY <1>2, DeltaOfType, CollectOne
  <2>. QED BY <2>1, <1>1, DeltaOfEvents
<1>5. /\ Collect(<<BlockDelta(f)>>, DeltaOf("text")) = <<f>>
      /\ Collect(<<BlockDelta(f)>>, DeltaOf("tool")) = <<>>
  BY <1>1, <1>4
<1>6. TextEvents(c) \in Seq(Events)
  BY <1>2, <1>3
<1>. QED BY <1>3, <1>5, <1>6, CollectNone

\* Starts and stops carry nothing.
LEMMA OthersKinds ==
    ASSUME NEW kind, NEW indices \in Seq(Index)
    PROVE  \A s \in {<<>>, <<MessageStart>>, <<MessageStart, BlockStart("text", 0)>>,
                     <<BlockStop(0)>>, Ending, StopAll(indices)} :
               s \in Seq(Events) /\ Collect(s, DeltaOf(kind)) = <<>>
<1>1. MessageStart \in Events /\ MessageStart.ev # "content_block_delta"
  BY DEF Events, Quiet, MessageStart
<1>2. \A i \in Index : /\ BlockStop(i) \in Events /\ BlockStop(i).ev # "content_block_delta"
                       /\ BlockStart("text", i) \in Events /\ BlockStart("text", i).ev # "content_block_delta"
  <2>1. ASSUME NEW i \in Index PROVE BlockStop(i) \in Events /\ BlockStart("text", i) \in Events
    BY DEF Events, Quiet
  <2>2. ASSUME NEW i \in Index PROVE BlockStop(i).ev # "content_block_delta"
    BY DEF BlockStop
  <2>3. ASSUME NEW i \in Index PROVE BlockStart("text", i).ev # "content_block_delta"
    BY DEF BlockStart
  <2>. QED BY <2>1, <2>2, <2>3
<1>3. Stop \in Events /\ Stop.ev # "content_block_delta"
  BY DEF Events, Stop
<1>4. [ev |-> "message_delta"] \in Events /\ [ev |-> "message_delta"].ev # "content_block_delta"
  BY DEF Events, Quiet
<1>. DEFINE d == [ev |-> "message_delta"]
<1>5. Ending = <<d, Stop>>
  BY DEF Ending, Stop
<1>6. 0 \in Index
  BY SseAssumption
<1>. HIDE DEF d
<1>7. ASSUME NEW s \in Seq(Events), \A p \in 1..Len(s) : s[p].ev # "content_block_delta"
      PROVE  s \in Seq(Events) /\ Collect(s, DeltaOf(kind)) = <<>>
  <2>1. \A p \in 1..Len(s) : DeltaOf(kind)[s[p]] = <<>>
    <3>1. \A p \in 1..Len(s) : s[p] \in Events
      OBVIOUS
    <3>. QED BY <3>1, <1>7, DeltaOfEvents
  <2>. QED BY <2>1, CollectNothing
<1>8. ASSUME NEW a \in Events, a.ev # "content_block_delta"
      PROVE  <<a>> \in Seq(Events) /\ Collect(<<a>>, DeltaOf(kind)) = <<>>
  <2>1. <<a>> \in Seq(Events) /\ \A p \in 1..Len(<<a>>) : <<a>>[p] = a
    OBVIOUS
  <2>. QED BY <2>1, <1>7, <1>8
<1>9. ASSUME NEW a \in Events, a.ev # "content_block_delta", NEW b \in Events, b.ev # "content_block_delta"
      PROVE  <<a, b>> \in Seq(Events) /\ Collect(<<a, b>>, DeltaOf(kind)) = <<>>
  <2>1. <<a, b>> \in Seq(Events) /\ \A p \in 1..Len(<<a, b>>) : <<a, b>>[p] \in {a, b}
    OBVIOUS
  <2>2. \A p \in 1..Len(<<a, b>>) : <<a, b>>[p].ev # "content_block_delta"
    BY <2>1, <1>9
  <2>. HIDE DEF Events
  <2>. QED BY <2>1, <2>2, <1>7
<1>10. StopAll(indices) \in Seq(Events) /\ Collect(StopAll(indices), DeltaOf(kind)) = <<>>
  <2>1. Len(indices) \in Nat /\ \A k \in 1..Len(indices) : indices[k] \in Index
    OBVIOUS
  <2>2. StopAll(indices) = [k \in 1..Len(indices) |-> BlockStop(indices[k])]
    BY DEF StopAll
  <2>3. StopAll(indices) \in Seq(Events) /\ Len(StopAll(indices)) = Len(indices)
        /\ \A k \in 1..Len(indices) : StopAll(indices)[k] = BlockStop(indices[k])
    BY <2>1, <2>2, <1>2
  <2>4. \A k \in 1..Len(StopAll(indices)) : StopAll(indices)[k].ev # "content_block_delta"
    BY <2>1, <2>3, <1>2
  <2>. QED BY <2>3, <2>4, <1>7
<1>11. <<>> \in Seq(Events) /\ Collect(<<>>, DeltaOf(kind)) = <<>>
  BY CollectNone
<1>12. Collect(Ending, DeltaOf(kind)) = <<>> /\ Ending \in Seq(Events)
  BY <1>3, <1>4, <1>5, <1>9 DEF d
<1>13. /\ <<MessageStart, BlockStart("text", 0)>> \in Seq(Events)
       /\ Collect(<<MessageStart, BlockStart("text", 0)>>, DeltaOf(kind)) = <<>>
  BY <1>1, <1>2, <1>6, <1>9
<1>14. /\ <<MessageStart>> \in Seq(Events) /\ Collect(<<MessageStart>>, DeltaOf(kind)) = <<>>
       /\ <<BlockStop(0)>> \in Seq(Events) /\ Collect(<<BlockStop(0)>>, DeltaOf(kind)) = <<>>
  BY <1>1, <1>2, <1>6, <1>8
<1>. QED BY <1>10, <1>11, <1>12, <1>13, <1>14

\* The events carry what the chunk gives, except text among or after tool calls.
Carries(events, c) ==
    /\ Collect(events, DeltaOf("tool")) = Collect(FragmentsOf(c), PieceOf("tool"))
    /\ ~Shows(c, "textAfterTools") =>
           Collect(events, DeltaOf("text")) = Collect(FragmentsOf(c), PieceOf("text"))

LEMMA FinishingKinds ==
    ASSUME NEW o, o.events \in Seq(Events), NEW closing \in Seq(Events), NEW kind,
           Collect(closing, DeltaOf(kind)) = <<>>
    PROVE  Collect(Finishing(o, closing).events, DeltaOf(kind)) = Collect(o.events, DeltaOf(kind))
<1>. HIDE DEF Events
<1>1. Ending \in Seq(Events) /\ Collect(Ending, DeltaOf(kind)) = <<>>
  <2>1. <<>> \in Seq(Index)
    OBVIOUS
  <2>. QED BY <2>1, OthersKinds
<1>2. DeltaOf(kind) \in [Events -> Seq(Pieces)]
  BY DeltaOfType
<1>3. Finishing(o, closing).events = (o.events \o closing) \o Ending
  BY DEF Finishing, Outcome
<1>4. o.events \o closing \in Seq(Events)
  BY ConcatProperties
<1>5. Collect((o.events \o closing) \o Ending, DeltaOf(kind))
      = Collect(o.events \o closing, DeltaOf(kind)) \o Collect(Ending, DeltaOf(kind))
  BY <1>1, <1>2, <1>4, CollectConcat, ZenonT(30)
<1>6. Collect(o.events \o closing, DeltaOf(kind))
      = Collect(o.events, DeltaOf(kind)) \o Collect(closing, DeltaOf(kind))
  BY <1>2, CollectConcat
<1>7. /\ Collect(o.events, DeltaOf(kind)) \o <<>> = Collect(o.events, DeltaOf(kind))
      /\ Collect(o.events \o closing, DeltaOf(kind)) \o <<>> = Collect(o.events \o closing, DeltaOf(kind))
  <2>1. Collect(o.events, DeltaOf(kind)) \in Seq(Pieces) /\ Collect(o.events \o closing, DeltaOf(kind)) \in Seq(Pieces)
    BY <1>2, <1>4, CollectType
  <2>. QED BY <2>1, ConcatEmptySeq
<1>. QED BY <1>1, <1>3, <1>5, <1>6, <1>7

\* Events that carry a chunk do so behind a start, and in front of an end.
LEMMA CarriesMore ==
    ASSUME NEW c,
           NEW first \in Seq(Events), NEW s \in Seq(Events),
           \A kind : Collect(first, DeltaOf(kind)) = <<>>
    PROVE  /\ first \o s \in Seq(Events)
           /\ \A kind : Collect(first \o s, DeltaOf(kind)) = Collect(s, DeltaOf(kind))
<1>. HIDE DEF Events
<1>1. first \o s \in Seq(Events)
  BY ConcatProperties
<1>2. ASSUME NEW kind PROVE Collect(first \o s, DeltaOf(kind)) = Collect(s, DeltaOf(kind))
  <2>1. DeltaOf(kind) \in [Events -> Seq(Pieces)]
    BY DeltaOfType
  <2>2. Collect(first \o s, DeltaOf(kind)) = Collect(first, DeltaOf(kind)) \o Collect(s, DeltaOf(kind))
    BY <2>1, CollectConcat, ZenonT(30)
  <2>3. Collect(s, DeltaOf(kind)) \in Seq(Pieces)
    BY <2>1, CollectType
  <2>4. <<>> \o Collect(s, DeltaOf(kind)) = Collect(s, DeltaOf(kind))
    BY <2>3, ConcatEmptySeq
  <2>. QED BY <2>2, <2>4
<1>. QED BY <1>1, <1>2

LEMMA FinishingCarries ==
    ASSUME NEW c, NEW o, o.events \in Seq(Events), Carries(o.events, c),
           NEW closing \in Seq(Events), \A kind : Collect(closing, DeltaOf(kind)) = <<>>
    PROVE  Carries(Finishing(o, closing).events, c)
<1>1. \A kind : Collect(Finishing(o, closing).events, DeltaOf(kind)) = Collect(o.events, DeltaOf(kind))
  BY FinishingKinds
<1>. QED BY <1>1 DEF Carries

LEMMA PushCarries ==
    ASSUME number \in Nat, tool_indices \in Seq(Index),
           state \in {"Initial", "TextContent", "ToolCalls", "Finished"},
           state = "ToolCalls" => "tools" \in said,
           state = "Finished" => "finish" \in said,
           NEW c \in Chunk, Provides(c)
    PROVE  Carries(PushChunk(c).events, c)
<1>. DEFINE t == TextOf(c)
            a == FlattenSeq(ArgsOf(c.calls))
<1>1. c.calls \in Seq(Call) /\ c.delta \in {"none", "text", "tools"}
  <2>1. c.calls \in Seq(Call)
    BY ChunkCalls
  <2>2. c.delta \in {"none", "text", "tools"}
    BY DEF Chunk
  <2>. QED BY <2>1, <2>2
<1>2. /\ Collect(FragmentsOf(c), PieceOf("tool")) = a
      /\ Collect(FragmentsOf(c), PieceOf("text")) = t
  BY GivenKinds
<1>3. c.delta # "tools" => a = <<>>
  <2>1. ASSUME c.delta # "tools" PROVE a = <<>>
    <3>1. c.calls = <<>>
      BY <2>1 DEF Provides
    <3>2. ArgsOf(<<>>) = <<>>
      BY DEF ArgsOf
    <3>3. FlattenSeq(<<>>) = <<>>
      BY DEF FlattenSeq
    <3>. QED BY <3>1, <3>2, <3>3
  <2>. QED BY <2>1
<1>4. /\ c.delta = "none" => t = <<>>
      /\ ~c.text => t = <<>>
  BY DEF Provides, TextOf
<1>5. /\ c.text /\ c.delta = "tools" => Shows(c, "textAfterTools")
      /\ c.text /\ "tools" \in said => Shows(c, "textAfterTools")
  BY DEF Shows
<1>6. "finish" \in said => c.delta = "none"
  BY DEF Provides
<1>. HIDE DEF t, a, Events
<1>7. ASSUME NEW s, Collect(s, DeltaOf("tool")) = a, Collect(s, DeltaOf("text")) = <<>>,
             c.delta = "tools"
      PROVE  Carries(s, c)
  BY <1>2, <1>4, <1>5, <1>7 DEF Carries
<1>8. ASSUME NEW s, Collect(s, DeltaOf("tool")) = <<>>, Collect(s, DeltaOf("text")) = t,
             c.delta # "tools"
      PROVE  Carries(s, c)
  BY <1>2, <1>3, <1>8 DEF Carries
<1>9. ASSUME NEW s, \A kind : Collect(s, DeltaOf(kind)) = <<>>, c.delta = "none"
      PROVE  Carries(s, c)
  BY <1>4, <1>8, <1>9
<1>10. /\ OpenAll(c.calls) \in Seq(Events) /\ OpenUnknown(c.calls) \in Seq(Events)
       /\ Collect(OpenAll(c.calls), DeltaOf("tool")) = a /\ Collect(OpenAll(c.calls), DeltaOf("text")) = <<>>
       /\ Collect(OpenUnknown(c.calls), DeltaOf("tool")) = a
       /\ Collect(OpenUnknown(c.calls), DeltaOf("text")) = <<>>
  BY <1>1, OpenQuiet, OpenKinds, QuietEvents DEF a
<1>11. /\ TextEvents(c) \in Seq(Events)
       /\ Collect(TextEvents(c), DeltaOf("text")) = t /\ Collect(TextEvents(c), DeltaOf("tool")) = <<>>
  BY TextKinds DEF t
<1>12. ASSUME NEW s \in {<<>>, <<MessageStart>>, <<MessageStart, BlockStart("text", 0)>>,
                         <<BlockStop(0)>>, Ending, StopAll(tool_indices)}
       PROVE  s \in Seq(Events) /\ \A kind : Collect(s, DeltaOf(kind)) = <<>>
  BY OthersKinds
<1>13. CASE state = "Initial"
  <2>. DEFINE shown ==
          CASE c.delta = "none" -> Outcome(<<MessageStart>>, "Initial", <<>>)
            [] c.delta = "tools" -> Outcome(<<MessageStart>> \o OpenAll(c.calls),
                                            "ToolCalls", Indices(c.calls))
            [] c.delta = "text" -> Outcome(<<MessageStart, BlockStart("text", 0)>> \o TextEvents(c),
                                           "TextContent", <<>>)
  <2>1. PushChunk(c) = IF c.finish THEN Finishing(shown, <<>>) ELSE shown
    BY <1>13 DEF PushChunk, HandleInitial
  <2>2. shown.events \in Seq(Events) /\ Carries(shown.events, c)
    <3>1. CASE c.delta = "none"
      <4>1. shown.events = <<MessageStart>>
        BY <3>1 DEF Outcome
      <4>. HIDE DEF shown
      <4>. QED BY <4>1, <3>1, <1>9, <1>12
    <3>2. CASE c.delta = "tools"
      <4>1. shown.events = <<MessageStart>> \o OpenAll(c.calls)
        BY <3>2 DEF Outcome
      <4>. HIDE DEF shown
      <4>2. /\ <<MessageStart>> \o OpenAll(c.calls) \in Seq(Events)
            /\ \A kind : Collect(<<MessageStart>> \o OpenAll(c.calls), DeltaOf(kind))
                         = Collect(OpenAll(c.calls), DeltaOf(kind))
        BY <1>10, <1>12, CarriesMore
      <4>. QED BY <4>1, <4>2, <3>2, <1>7, <1>10
    <3>3. CASE c.delta = "text"
      <4>1. shown.events = <<MessageStart, BlockStart("text", 0)>> \o TextEvents(c)
        BY <3>3 DEF Outcome
      <4>. HIDE DEF shown
      <4>2. /\ <<MessageStart, BlockStart("text", 0)>> \o TextEvents(c) \in Seq(Events)
            /\ \A kind : Collect(<<MessageStart, BlockStart("text", 0)>> \o TextEvents(c), DeltaOf(kind))
                         = Collect(TextEvents(c), DeltaOf(kind))
        BY <1>11, <1>12, CarriesMore
      <4>. QED BY <4>1, <4>2, <3>3, <1>8, <1>11
    <3>. QED BY <3>1, <3>2, <3>3, <1>1
  <2>. HIDE DEF shown
  <2>3. Carries(Finishing(shown, <<>>).events, c)
    BY <2>2, <1>12, FinishingCarries
  <2>. QED BY <2>1, <2>2, <2>3
<1>14. CASE state = "TextContent"
  <2>. DEFINE shown ==
          CASE c.delta = "none" -> Outcome(<<>>, "TextContent", <<>>)
            [] c.delta = "tools" -> Outcome(<<BlockStop(0)>> \o OpenAll(c.calls),
                                            "ToolCalls", Indices(c.calls))
            [] c.delta = "text" -> Outcome(TextEvents(c), "TextContent", <<>>)
  <2>1. PushChunk(c) = IF c.finish THEN Finishing(shown, <<BlockStop(0)>>) ELSE shown
    BY <1>14 DEF PushChunk, HandleText
  <2>2. shown.events \in Seq(Events) /\ Carries(shown.events, c)
    <3>1. CASE c.delta = "none"
      <4>1. shown.events = <<>>
        BY <3>1 DEF Outcome
      <4>. HIDE DEF shown
      <4>. QED BY <4>1, <3>1, <1>9, <1>12
    <3>2. CASE c.delta = "tools"
      <4>1. shown.events = <<BlockStop(0)>> \o OpenAll(c.calls)
        BY <3>2 DEF Outcome
      <4>. HIDE DEF shown
      <4>2. /\ <<BlockStop(0)>> \o OpenAll(c.calls) \in Seq(Events)
            /\ \A kind : Collect(<<BlockStop(0)>> \o OpenAll(c.calls), DeltaOf(kind))
                         = Collect(OpenAll(c.calls), DeltaOf(kind))
        BY <1>10, <1>12, CarriesMore
      <4>. QED BY <4>1, <4>2, <3>2, <1>7, <1>10
    <3>3. CASE c.delta = "text"
      <4>1. shown.events = TextEvents(c)
        BY <3>3 DEF Outcome
      <4>. HIDE DEF shown
      <4>. QED BY <4>1, <3>3, <1>8, <1>11
    <3>. QED BY <3>1, <3>2, <3>3, <1>1
  <2>. HIDE DEF shown
  <2>3. Carries(Finishing(shown, <<BlockStop(0)>>).events, c)
    BY <2>2, <1>12, FinishingCarries
  <2>. QED BY <2>1, <2>2, <2>3
<1>15. CASE state = "ToolCalls"
  <2>. DEFINE shown == Outcome(IF c.delta = "tools" THEN OpenUnknown(c.calls) ELSE <<>>,
                               "ToolCalls", tool_indices)
  <2>1. PushChunk(c) = IF c.finish THEN Finishing(shown, StopAll(tool_indices)) ELSE shown
    BY <1>15 DEF PushChunk, HandleToolCalls
  <2>2. shown.events = IF c.delta = "tools" THEN OpenUnknown(c.calls) ELSE <<>>
    BY DEF Outcome
  <2>. HIDE DEF shown
  <2>3. shown.events \in Seq(Events) /\ Carries(shown.events, c)
    <3>1. CASE c.delta = "tools"
      BY <3>1, <2>2, <1>7, <1>10
    <3>2. CASE c.delta # "tools"
      <4>1. shown.events = <<>> /\ \A kind : Collect(<<>>, DeltaOf(kind)) = <<>>
        BY <3>2, <2>2, <1>12
      <4>2. a = <<>> /\ (c.text => Shows(c, "textAfterTools"))
        BY <3>2, <1>3, <1>5, <1>15
      <4>3. Carries(<<>>, c)
        BY <4>1, <4>2, <1>2, <1>4 DEF Carries
      <4>. QED BY <4>1, <4>3, <1>12
    <3>. QED BY <3>1, <3>2
  <2>4. Carries(Finishing(shown, StopAll(tool_indices)).events, c)
    BY <2>3, <1>12, FinishingCarries
  <2>. QED BY <2>1, <2>3, <2>4
<1>16. CASE state = "Finished"
  <2>1. PushChunk(c).events = <<>>
    BY <1>16 DEF PushChunk, Outcome
  <2>. QED BY <2>1, <1>6, <1>9, <1>12, <1>16
<1>. QED BY <1>13, <1>14, <1>15, <1>16

LEMMA FinishCarries ==
    ASSUME tool_indices \in Seq(Index), state \in States
    PROVE  FinishInner.events \in Seq(Events) /\ \A kind : Collect(FinishInner.events, DeltaOf(kind)) = <<>>
<1>. HIDE DEF Events
<1>1. ASSUME NEW s \in {<<>>, <<MessageStart>>, <<MessageStart, BlockStart("text", 0)>>,
                        <<BlockStop(0)>>, Ending, StopAll(tool_indices)}
       PROVE  s \in Seq(Events) /\ \A kind : Collect(s, DeltaOf(kind)) = <<>>
  BY OthersKinds
<1>2. ASSUME NEW s \in {<<MessageStart>>, <<BlockStop(0)>>, StopAll(tool_indices)}
      PROVE  s \o Ending \in Seq(Events) /\ \A kind : Collect(s \o Ending, DeltaOf(kind)) = <<>>
  <2>1. s \in Seq(Events) /\ Ending \in Seq(Events)
        /\ \A kind : Collect(s, DeltaOf(kind)) = <<>> /\ Collect(Ending, DeltaOf(kind)) = <<>>
    BY <1>1
  <2>. QED BY <2>1, CarriesMore
<1>3. CASE state = "Initial"
  <2>1. FinishInner.events = <<MessageStart>> \o Ending
    BY <1>3 DEF FinishInner, Outcome
  <2>. QED BY <2>1, <1>2
<1>4. CASE state = "TextContent"
  <2>1. FinishInner.events = <<BlockStop(0)>> \o Ending
    BY <1>4 DEF FinishInner, Outcome
  <2>. QED BY <2>1, <1>2
<1>5. CASE state = "ToolCalls"
  <2>1. FinishInner.events = StopAll(tool_indices) \o Ending
    BY <1>5 DEF FinishInner, Outcome
  <2>. QED BY <2>1, <1>2
<1>6. CASE state = "Finished"
  <2>1. FinishInner.events = <<>>
    BY <1>6 DEF FinishInner, Outcome
  <2>. QED BY <2>1, <1>1
<1>. QED BY <1>3, <1>4, <1>5, <1>6 DEF States

\* The state after a chunk, told from the state before it and the chunk.
LEMMA PushPath ==
    ASSUME state \in States, NEW c \in Chunk
    PROVE  LET o == PushChunk(c) IN
           /\ o.state = "Finished" => state = "Finished" \/ c.finish
           /\ o.state = "TextContent" => state = "TextContent" \/ c.delta = "text"
           /\ o.state = "ToolCalls" => state = "ToolCalls" \/ c.delta = "tools"
<1>. DEFINE o == PushChunk(c)
<1>1. c.delta \in {"none", "text", "tools"}
  BY DEF Chunk
<1>2. \A x, closing : Finishing(x, closing).state = "Finished"
  BY DEF Finishing, Outcome
<1>3. CASE state = "Initial"
  <2>1. o = HandleInitial(c)
    BY <1>3 DEF PushChunk
  <2>2. CASE c.finish
    <3>1. o.state = "Finished"
      BY <2>1, <2>2, <1>2 DEF HandleInitial
    <3>. QED BY <3>1, <2>2
  <2>3. CASE ~c.finish
    <3>1. o.state = CASE c.delta = "none" -> "Initial"
                      [] c.delta = "tools" -> "ToolCalls"
                      [] c.delta = "text" -> "TextContent"
      BY <2>1, <2>3, <1>1 DEF HandleInitial, Outcome
    <3>. QED BY <3>1, <1>1
  <2>. QED BY <2>2, <2>3
<1>4. CASE state = "TextContent"
  <2>1. o = HandleText(c)
    BY <1>4 DEF PushChunk
  <2>2. CASE c.finish
    <3>1. o.state = "Finished"
      BY <2>1, <2>2, <1>2 DEF HandleText
    <3>. QED BY <3>1, <2>2
  <2>3. CASE ~c.finish
    <3>1. o.state = CASE c.delta = "none" -> "TextContent"
                      [] c.delta = "tools" -> "ToolCalls"
                      [] c.delta = "text" -> "TextContent"
      BY <2>1, <2>3, <1>1 DEF HandleText, Outcome
    <3>. QED BY <3>1, <1>1, <1>4
  <2>. QED BY <2>2, <2>3
<1>5. CASE state = "ToolCalls"
  <2>1. o = HandleToolCalls(c)
    BY <1>5 DEF PushChunk
  <2>2. CASE c.finish
    <3>1. o.state = "Finished"
      BY <2>1, <2>2, <1>2 DEF HandleToolCalls
    <3>. QED BY <3>1, <2>2
  <2>3. CASE ~c.finish
    <3>1. o.state = "ToolCalls"
      BY <2>1, <2>3 DEF HandleToolCalls, Outcome
    <3>. QED BY <3>1, <1>5
  <2>. QED BY <2>2, <2>3
<1>6. CASE state = "Finished"
  <2>1. o.state = "Finished"
    BY <1>6 DEF PushChunk, Outcome
  <2>. QED BY <2>1, <1>6
<1>. QED BY <1>3, <1>4, <1>5, <1>6 DEF States

\* What the translator has been through, told from its state.
Path ==
    /\ state = "Finished" => "finish" \in said \/ finished
    /\ state = "TextContent" => "text" \in said
    /\ state = "ToolCalls" => "tools" \in said

\* What the agent was sent of each kind is what the provider gave.
Kept ==
    /\ Collect(sent, DeltaOf("tool")) = Collect(given, PieceOf("tool"))
    /\ "textAfterTools" \notin odd => Collect(sent, DeltaOf("text")) = Collect(given, PieceOf("text"))

KeptInv == Path /\ Kept

LEMMA CollectMore ==
    ASSUME NEW E, NEW S, NEW f \in [E -> Seq(S)], NEW s \in Seq(E), NEW t \in Seq(E),
           Collect(t, f) = <<>>
    PROVE  Collect(s \o t, f) = Collect(s, f)
<1>1. Collect(s \o t, f) = Collect(s, f) \o Collect(t, f)
  BY CollectConcat
<1>2. Collect(s, f) \in Seq(S)
  BY CollectType
<1>3. Collect(s, f) \o <<>> = Collect(s, f)
  BY <1>2, ConcatEmptySeq
<1>. QED BY <1>1, <1>3

LEMMA GivenType == ProviderType => given \in Seq(Pieces) /\ number \in Nat
<1>. SUFFICES ASSUME ProviderType PROVE given \in Seq(Pieces) /\ number \in Nat
  OBVIOUS
<1>1. given \in Seq(PiecesOf(number)) /\ number \in 0..MaxChunks
  BY DEF ProviderType
<1>2. number \in Nat
  BY <1>1, SseAssumption
<1>3. PiecesOf(number) \subseteq Pieces
  BY <1>2 DEF PiecesOf, Pieces
<1>. QED BY <1>1, <1>2, <1>3, SeqMonotonic

LEMMA ChunkKept == IInv /\ KeptInv /\ PollChunk => KeptInv'
<1>. SUFFICES ASSUME IInv, KeptInv, PollChunk PROVE KeptInv'
  OBVIOUS
<1>1. PICK c \in Chunk : Provides(c) /\ Provide(c) /\ Translated(PushChunk(c))
  BY DEF PollChunk
<1>2. /\ state \in States /\ tool_indices \in Seq(Index) /\ sent \in Seq(Events)
      /\ ~finished /\ given \in Seq(Pieces) /\ number \in Nat
  BY GivenType DEF IInv, TranslatorType, BodyType, PollChunk
<1>. DEFINE o == PushChunk(c)
            g == FragmentsOf(c)
<1>3. /\ state' = o.state /\ sent' = sent \o o.events /\ given' = given \o g
      /\ odd' = odd \cup Oddities(c)
      /\ said' = said \cup (IF c.delta = "none" THEN {} ELSE {c.delta})
                      \cup (IF c.finish THEN {"finish"} ELSE {})
  BY <1>1 DEF Translated, Provide
<1>4. Carries(o.events, c)
  BY <1>1, <1>2, PushCarries DEF States, KeptInv, Path
<1>5. o.events \in Seq(Events)
  <2>1. (state = "Finished" => Rests(o)) /\ (state # "Finished" => Runs(o) \/ Ends(o))
    BY <1>2, PushOutcome DEF States
  <2>. HIDE DEF o
  <2>2. Stop \in Events
    BY DEF Events
  <2>3. CASE Rests(o)
    BY <2>3 DEF Rests
  <2>4. CASE Runs(o)
    BY <2>4, QuietEvents DEF Runs
  <2>5. CASE Ends(o)
    <3>1. PICK q \in Seq(Quiet) : o.events = q \o <<Stop>>
      BY <2>5 DEF Ends
    <3>. HIDE DEF Events, Quiet
    <3>2. q \in Seq(Events) /\ <<Stop>> \in Seq(Events)
      BY <2>2, QuietEvents
    <3>. QED BY <3>1, <3>2, ConcatProperties
  <2>. QED BY <2>1, <2>3, <2>4, <2>5
<1>6. g \in Seq(Pieces)
  BY <1>2, GivenKinds
<1>7. Path'
  <2>1. /\ o.state = "Finished" => state = "Finished" \/ c.finish
        /\ o.state = "TextContent" => state = "TextContent" \/ c.delta = "text"
        /\ o.state = "ToolCalls" => state = "ToolCalls" \/ c.delta = "tools"
    BY <1>2, PushPath
  <2>. HIDE DEF o
  <2>. QED BY <2>1, <1>2, <1>3 DEF KeptInv, Path
<1>. HIDE DEF o, g, Events, Pieces
<1>8. \A kind : /\ Collect(sent', DeltaOf(kind)) = Collect(sent, DeltaOf(kind)) \o Collect(o.events, DeltaOf(kind))
                /\ Collect(given', PieceOf(kind)) = Collect(given, PieceOf(kind)) \o Collect(g, PieceOf(kind))
  <2>. SUFFICES ASSUME NEW kind
       PROVE  /\ Collect(sent \o o.events, DeltaOf(kind)) = Collect(sent, DeltaOf(kind)) \o Collect(o.events, DeltaOf(kind))
              /\ Collect(given \o g, PieceOf(kind)) = Collect(given, PieceOf(kind)) \o Collect(g, PieceOf(kind))
    BY <1>3
  <2>1. DeltaOf(kind) \in [Events -> Seq(Pieces)] /\ PieceOf(kind) \in [Pieces -> Seq(Pieces)]
    BY DeltaOfType, PieceOfType
  <2>2. Collect(sent \o o.events, DeltaOf(kind)) = Collect(sent, DeltaOf(kind)) \o Collect(o.events, DeltaOf(kind))
    BY <2>1, <1>2, <1>5, CollectConcat, ZenonT(30)
  <2>3. Collect(given \o g, PieceOf(kind)) = Collect(given, PieceOf(kind)) \o Collect(g, PieceOf(kind))
    BY <2>1, <1>2, <1>6, CollectConcat, ZenonT(30)
  <2>. QED BY <2>2, <2>3
<1>9. /\ Collect(o.events, DeltaOf("tool")) = Collect(g, PieceOf("tool"))
      /\ ~Shows(c, "textAfterTools") => Collect(o.events, DeltaOf("text")) = Collect(g, PieceOf("text"))
  BY <1>4 DEF Carries, g
<1>10. "textAfterTools" \notin odd' => "textAfterTools" \notin odd /\ ~Shows(c, "textAfterTools")
  BY <1>3 DEF Oddities, AllHabits
<1>11. Kept
  BY DEF KeptInv
<1>12. Collect(sent', DeltaOf("tool")) = Collect(given', PieceOf("tool"))
  BY <1>8, <1>9, <1>11 DEF Kept
<1>13. ASSUME "textAfterTools" \notin odd'
       PROVE  Collect(sent', DeltaOf("text")) = Collect(given', PieceOf("text"))
  BY <1>8, <1>9, <1>10, <1>11, <1>13 DEF Kept
<1>14. Kept'
  <2>1. /\ Collect(sent, DeltaOf("tool"))' = Collect(sent', DeltaOf("tool"))
        /\ Collect(given, PieceOf("tool"))' = Collect(given', PieceOf("tool"))
        /\ Collect(sent, DeltaOf("text"))' = Collect(sent', DeltaOf("text"))
        /\ Collect(given, PieceOf("text"))' = Collect(given', PieceOf("text"))
    BY DEF Collect, DeltaOf, PieceOf, Events, Quiet, Pieces
  <2>. QED BY <2>1, <1>12, <1>13 DEF Kept
<1>. QED BY <1>7, <1>14 DEF KeptInv

LEMMA KeptPrimed ==
    ASSUME KeptInv, UNCHANGED <<given, odd>>,
           Collect(sent', DeltaOf("tool")) = Collect(sent, DeltaOf("tool")),
           Collect(sent', DeltaOf("text")) = Collect(sent, DeltaOf("text"))
    PROVE  Kept'
<1>1. /\ Collect(sent, DeltaOf("tool"))' = Collect(sent', DeltaOf("tool"))
      /\ Collect(given, PieceOf("tool"))' = Collect(given', PieceOf("tool"))
      /\ Collect(sent, DeltaOf("text"))' = Collect(sent', DeltaOf("text"))
      /\ Collect(given, PieceOf("text"))' = Collect(given', PieceOf("text"))
  BY DEF Collect, DeltaOf, PieceOf, Events, Quiet, Pieces
<1>. QED BY <1>1 DEF KeptInv, Kept

\* The end of the stream adds no fragment.
LEMMA FinishKept ==
    ASSUME IInv, KeptInv, Translated(FinishInner), UNCHANGED <<given, odd>>,
           \/ said' = said \cup {"finish"} /\ finished' = finished
           \/ said' = said /\ finished' = TRUE
    PROVE  KeptInv'
<1>. HIDE DEF Events
<1>1. state \in States /\ tool_indices \in Seq(Index) /\ sent \in Seq(Events)
  BY DEF IInv, TranslatorType, BodyType
<1>2. FinishInner.events \in Seq(Events) /\ \A kind : Collect(FinishInner.events, DeltaOf(kind)) = <<>>
  BY <1>1, FinishCarries
<1>3. sent' = sent \o FinishInner.events /\ state' = "Finished"
  BY DEF Translated, FinishInner, Outcome
<1>4. ASSUME NEW kind PROVE Collect(sent', DeltaOf(kind)) = Collect(sent, DeltaOf(kind))
  <2>1. DeltaOf(kind) \in [Events -> Seq(Pieces)]
    BY DeltaOfType
  <2>. DEFINE t == FinishInner.events
  <2>2. t \in Seq(Events) /\ Collect(t, DeltaOf(kind)) = <<>> /\ sent' = sent \o t
    BY <1>2, <1>3
  <2>. HIDE DEF t
  <2>3. Collect(sent \o t, DeltaOf(kind)) = Collect(sent, DeltaOf(kind))
    BY <1>1, <2>1, <2>2, CollectMore
  <2>. QED BY <2>2, <2>3
<1>5. Kept'
  BY <1>4, KeptPrimed
<1>6. Path'
  BY <1>3 DEF Path
<1>. QED BY <1>5, <1>6 DEF KeptInv

LEMMA InitKept == Init => KeptInv
<1>. SUFFICES ASSUME Init PROVE KeptInv
  OBVIOUS
<1>1. sent = <<>> /\ given = <<>> /\ state = "Initial"
  BY DEF Init
<1>. QED BY <1>1, CollectNone DEF KeptInv, Path, Kept

LEMMA StepKept == IInv /\ KeptInv /\ [Next]_vars => KeptInv'
<1>. SUFFICES ASSUME IInv, KeptInv, [Next]_vars PROVE KeptInv'
  OBVIOUS
<1>1. CASE PollChunk
  BY <1>1, ChunkKept
<1>2. CASE PollDone
  <2>1. Translated(FinishInner) /\ said' = said \cup {"finish"} /\ UNCHANGED <<given, odd>> /\ finished' = finished
    BY <1>2 DEF PollDone
  <2>. QED BY <2>1, FinishKept
<1>3. CASE PollEnd
  <2>1. Translated(FinishInner) /\ said' = said /\ UNCHANGED <<given, odd>> /\ finished' = TRUE
    BY <1>3 DEF PollEnd, provider
  <2>. QED BY <2>1, FinishKept
<1>4. CASE Drop \/ UNCHANGED vars
  <2>1. UNCHANGED <<sent, given, odd, state, said, finished>>
    BY <1>4 DEF Drop, vars, translator, provider
  <2>2. Kept'
    BY <2>1, KeptPrimed
  <2>3. Path'
    BY <2>1 DEF KeptInv, Path
  <2>. QED BY <2>2, <2>3 DEF KeptInv
<1>. QED BY <1>1, <1>2, <1>3, <1>4 DEF Next

LEMMA KeptImplied == IInv /\ KeptInv => FragmentsKept
<1>. SUFFICES ASSUME IInv, KeptInv PROVE FragmentsKept
  OBVIOUS
<1>. HIDE DEF Events, Pieces
<1>1. sent \in Seq(Events) /\ given \in Seq(Pieces)
  BY GivenType DEF IInv, BodyType
<1>2. ASSUME NEW kind
      PROVE  Fragments(kind) = Collect(sent, DeltaOf(kind)) /\ Given(kind) = Collect(given, PieceOf(kind))
  BY <1>1, Collected DEF Fragments, Given, At
<1>. QED BY <1>2 DEF KeptInv, Kept, FragmentsKept

-----------------------------------------------------------------------------
(* Plain replies *)

StartAt(s, p) == s[p].ev = "content_block_start"
DeltaAt(s, p) == s[p].ev = "content_block_delta"
StopAt(s, p) == s[p].ev = "content_block_stop"

\* The events of a message whose blocks, all of one kind, are open.
Open(s, kind, indices) ==
    /\ s # <<>>
    /\ \A p \in 1..Len(s) : s[p].ev = "message_start" <=> p = 1
    /\ \A p \in 1..Len(s) : s[p].ev \notin {"content_block_stop", "message_stop"}
    /\ \A p \in 1..Len(s) : StartAt(s, p) => s[p].kind = kind /\ s[p].index \in indices
    /\ \A i \in indices : \E p \in 1..Len(s) : StartAt(s, p) /\ s[p].index = i
    /\ \A p, q \in 1..Len(s) : StartAt(s, p) /\ StartAt(s, q) /\ s[p].index = s[q].index => p = q
    /\ \A p \in 1..Len(s) : DeltaAt(s, p) =>
           /\ s[p].of.kind = kind
           /\ \E q \in 1..(p - 1) : StartAt(s, q) /\ s[q].index = s[p].index

\* The events of a message that has stopped, with all its blocks.
Closed(s) ==
    /\ \A p \in 1..Len(s) : s[p].ev = "message_start" <=> p = 1
    /\ \A p, q \in 1..Len(s) : StartAt(s, p) /\ StartAt(s, q) /\ s[p].index = s[q].index => p = q
    /\ \A p, q \in 1..Len(s) : StopAt(s, p) /\ StopAt(s, q) /\ s[p].index = s[q].index => p = q
    /\ \A p \in 1..Len(s) : StartAt(s, p) => \E q \in 1..Len(s) : StopAt(s, q) /\ s[q].index = s[p].index
    /\ \A p \in 1..Len(s) : StopAt(s, p) => \E q \in 1..Len(s) : StartAt(s, q) /\ s[q].index = s[p].index
    /\ \A p \in 1..Len(s) : DeltaAt(s, p) =>
           /\ \E q \in 1..(p - 1) : /\ StartAt(s, q) /\ s[q].index = s[p].index
                                    /\ s[q].kind = s[p].of.kind
           /\ \A q \in 1..Len(s) : StopAt(s, q) => p < q

Lists(q, indices) ==
    /\ \A i \in indices : \E k \in 1..Len(q) : q[k] = i
    /\ \A k \in 1..Len(q) : q[k] \in indices
    /\ \A j, k \in 1..Len(q) : q[j] = q[k] => j = k

\* The message of a plain reply.
Plain ==
    /\ state = "Initial" => sent = <<>> /\ said = {} /\ announced = {}
    /\ state = "TextContent" => Open(sent, "text", {0})
    /\ state = "ToolCalls" => Open(sent, "tool", announced) /\ Lists(tool_indices, announced)
    /\ state = "Finished" => Closed(sent)

Deltas(kind, indices) == {BlockDelta(f) : f \in {g \in Pieces : g.kind = kind /\ g.index \in indices}}

LEMMA EventFacts ==
    /\ \A i \in Index : /\ BlockStop(i) \in Events
                        /\ BlockStop(i).ev = "content_block_stop" /\ BlockStop(i).index = i
    /\ \A kind \in {"text", "tool"} : \A i \in Index :
           /\ BlockStart(kind, i) \in Events
           /\ BlockStart(kind, i).ev = "content_block_start"
           /\ BlockStart(kind, i).kind = kind /\ BlockStart(kind, i).index = i
    /\ \A f \in Pieces : /\ BlockDelta(f) \in Events
                         /\ BlockDelta(f).ev = "content_block_delta"
                         /\ BlockDelta(f).of = f /\ BlockDelta(f).index = f.index
    /\ MessageStart \in Events /\ MessageStart.ev = "message_start"
<1>1. ASSUME NEW i \in Index
      PROVE  BlockStop(i) \in Events /\ BlockStop(i).ev = "content_block_stop" /\ BlockStop(i).index = i
  <2>1. BlockStop(i) \in Events
    BY DEF Events, Quiet
  <2>. QED BY <2>1 DEF BlockStop
<1>2. ASSUME NEW kind \in {"text", "tool"}, NEW i \in Index
      PROVE  /\ BlockStart(kind, i) \in Events
             /\ BlockStart(kind, i).ev = "content_block_start"
             /\ BlockStart(kind, i).kind = kind /\ BlockStart(kind, i).index = i
  <2>1. BlockStart(kind, i) \in Events
    BY DEF Events, Quiet
  <2>. QED BY <2>1 DEF BlockStart
<1>3. ASSUME NEW f \in Pieces
      PROVE  /\ BlockDelta(f) \in Events /\ BlockDelta(f).ev = "content_block_delta"
             /\ BlockDelta(f).of = f /\ BlockDelta(f).index = f.index
  <2>1. BlockDelta(f) \in Events
    BY DEF Events, Quiet
  <2>. QED BY <2>1 DEF BlockDelta
<1>4. MessageStart \in Events /\ MessageStart.ev = "message_start"
  BY DEF Events, Quiet, MessageStart
<1>. QED BY <1>1, <1>2, <1>3, <1>4

LEMMA DeltasFacts ==
    ASSUME NEW kind, NEW indices
    PROVE  /\ Deltas(kind, indices) \subseteq Events
           /\ \A e \in Deltas(kind, indices) :
                  e.ev = "content_block_delta" /\ e.of.kind = kind /\ e.index \in indices
<1>1. ASSUME NEW e \in Deltas(kind, indices)
      PROVE  e \in Events /\ e.ev = "content_block_delta" /\ e.of.kind = kind /\ e.index \in indices
  <2>1. PICK f \in Pieces : f.kind = kind /\ f.index \in indices /\ e = BlockDelta(f)
    BY DEF Deltas
  <2>. QED BY <2>1, EventFacts
<1>. QED BY <1>1

\* An open message goes on with fragments of its blocks.
LEMMA OpenGoesOn ==
    ASSUME NEW s \in Seq(Events), NEW kind, NEW indices, Open(s, kind, indices),
           NEW t \in Seq(Deltas(kind, indices))
    PROVE  s \o t \in Seq(Events) /\ Open(s \o t, kind, indices)
<1>. DEFINE n == Len(s)  m == Len(t)  u == s \o t
<1>. HIDE DEF Events
<1>0. t \in Seq(Events)
  BY DeltasFacts, SeqMonotonic
<1>1. /\ u \in Seq(Events) /\ n \in Nat /\ m \in Nat /\ Len(u) = n + m
      /\ \A p \in 1..(n + m) : u[p] = IF p <= n THEN s[p] ELSE t[p - n]
  BY <1>0, ConcatProperties
<1>2. n >= 1
  BY DEF Open
<1>3. ASSUME NEW p \in 1..(n + m), p > n
      PROVE  u[p].ev = "content_block_delta" /\ u[p].of.kind = kind /\ u[p].index \in indices
  <2>1. p - n \in 1..m
    BY <1>1, <1>3
  <2>2. t[p - n] \in Deltas(kind, indices)
    BY <2>1
  <2>3. u[p] = t[p - n]
    BY <1>1, <1>3
  <2>. QED BY <2>2, <2>3, DeltasFacts
<1>4. \A p \in 1..n : p \in 1..(n + m) /\ u[p] = s[p]
  BY <1>1
<1>5. \A p \in 1..(n + m) : p \in 1..n \/ p > n
  BY <1>1
<1>. HIDE DEF n, m, u
<1>6. /\ \A p \in 1..n : s[p].ev = "message_start" <=> p = 1
      /\ \A p \in 1..n : s[p].ev \notin {"content_block_stop", "message_stop"}
      /\ \A p \in 1..n : StartAt(s, p) => s[p].kind = kind /\ s[p].index \in indices
      /\ \A i \in indices : \E p \in 1..n : StartAt(s, p) /\ s[p].index = i
      /\ \A p, q \in 1..n : StartAt(s, p) /\ StartAt(s, q) /\ s[p].index = s[q].index => p = q
      /\ \A p \in 1..n : DeltaAt(s, p) =>
             /\ s[p].of.kind = kind
             /\ \E q \in 1..(p - 1) : StartAt(s, q) /\ s[q].index = s[p].index
  BY DEF Open, n
<1>7. u # <<>>
  BY <1>1, <1>2
<1>8. ASSUME NEW p \in 1..(n + m) PROVE u[p].ev = "message_start" <=> p = 1
  <2>1. CASE p \in 1..n
    BY <2>1, <1>4, <1>6
  <2>2. CASE p > n
    <3>1. p # 1
      BY <2>2, <1>1, <1>2
    <3>. QED BY <3>1, <2>2, <1>3
  <2>. QED BY <2>1, <2>2, <1>5
<1>9. ASSUME NEW p \in 1..(n + m) PROVE u[p].ev \notin {"content_block_stop", "message_stop"}
  BY <1>3, <1>4, <1>5, <1>6
<1>10. ASSUME NEW p \in 1..(n + m), StartAt(u, p) PROVE p \in 1..n /\ StartAt(s, p) /\ u[p] = s[p]
  BY <1>3, <1>4, <1>5, <1>10 DEF StartAt
<1>11. ASSUME NEW p \in 1..n, StartAt(s, p) PROVE p \in 1..(n + m) /\ StartAt(u, p) /\ u[p] = s[p]
  BY <1>4, <1>11 DEF StartAt
<1>12. ASSUME NEW p \in 1..(n + m), DeltaAt(u, p)
       PROVE  u[p].of.kind = kind /\ \E q \in 1..(p - 1) : StartAt(u, q) /\ u[q].index = u[p].index
  <2>1. CASE p \in 1..n
    <3>1. DeltaAt(s, p) /\ u[p] = s[p]
      BY <2>1, <1>4, <1>12 DEF DeltaAt
    <3>2. PICK q \in 1..(p - 1) : StartAt(s, q) /\ s[q].index = s[p].index
      BY <3>1, <2>1, <1>6
    <3>3. q \in 1..n
      BY <2>1, <1>1
    <3>4. s[p].of.kind = kind
      BY <3>1, <2>1, <1>6
    <3>. QED BY <3>1, <3>2, <3>3, <3>4, <1>11
  <2>2. CASE p > n
    <3>1. u[p].of.kind = kind /\ u[p].index \in indices
      BY <2>2, <1>3
    <3>2. PICK q \in 1..n : StartAt(s, q) /\ s[q].index = u[p].index
      BY <3>1, <1>6
    <3>3. q \in 1..(p - 1)
      BY <2>2, <1>1
    <3>4. StartAt(u, q) /\ u[q] = s[q]
      BY <3>2, <1>11
    <3>. QED BY <3>1, <3>2, <3>3, <3>4
  <2>. QED BY <2>1, <2>2, <1>5
<1>13. \A i \in indices : \E p \in 1..(n + m) : StartAt(u, p) /\ u[p].index = i
  BY <1>6, <1>11
<1>14. \A p \in 1..(n + m) : StartAt(u, p) => u[p].kind = kind /\ u[p].index \in indices
  BY <1>6, <1>10
<1>15. \A p, q \in 1..(n + m) : StartAt(u, p) /\ StartAt(u, q) /\ u[p].index = u[q].index => p = q
  BY <1>6, <1>10
<1>16. Open(u, kind, indices)
  BY <1>1, <1>7, <1>8, <1>9, <1>12, <1>13, <1>14, <1>15 DEF Open
<1>. QED BY <1>1, <1>16 DEF u

\* An open message goes on with a block whose index is new.
LEMMA OpenStarts ==
    ASSUME NEW s \in Seq(Events), NEW kind \in {"text", "tool"}, NEW indices, Open(s, kind, indices),
           NEW i \in Index, i \notin indices
    PROVE  /\ s \o <<BlockStart(kind, i)>> \in Seq(Events)
           /\ Open(s \o <<BlockStart(kind, i)>>, kind, indices \cup {i})
<1>. DEFINE n == Len(s)  b == BlockStart(kind, i)  u == s \o <<b>>
<1>. HIDE DEF Events
<1>0. b \in Events /\ b.ev = "content_block_start" /\ b.kind = kind /\ b.index = i
  BY EventFacts
<1>. HIDE DEF b
<1>1. /\ u \in Seq(Events) /\ n \in Nat /\ Len(u) = n + 1 /\ u[n + 1] = b
      /\ \A p \in 1..n : u[p] = s[p]
  BY <1>0
<1>2. n >= 1
  BY DEF Open
<1>3. \A p \in 1..(n + 1) : p \in 1..n \/ p = n + 1
  BY <1>1
<1>4. \A p \in 1..n : p \in 1..(n + 1)
  BY <1>1
<1>. HIDE DEF n, u
<1>6. /\ \A p \in 1..n : s[p].ev = "message_start" <=> p = 1
      /\ \A p \in 1..n : s[p].ev \notin {"content_block_stop", "message_stop"}
      /\ \A p \in 1..n : StartAt(s, p) => s[p].kind = kind /\ s[p].index \in indices
      /\ \A j \in indices : \E p \in 1..n : StartAt(s, p) /\ s[p].index = j
      /\ \A p, q \in 1..n : StartAt(s, p) /\ StartAt(s, q) /\ s[p].index = s[q].index => p = q
      /\ \A p \in 1..n : DeltaAt(s, p) =>
             /\ s[p].of.kind = kind
             /\ \E q \in 1..(p - 1) : StartAt(s, q) /\ s[q].index = s[p].index
  BY DEF Open, n
<1>7. u # <<>>
  BY <1>1
<1>8. ASSUME NEW p \in 1..(n + 1) PROVE u[p].ev = "message_start" <=> p = 1
  <2>1. CASE p \in 1..n
    BY <2>1, <1>1, <1>6
  <2>2. CASE p = n + 1
    <3>1. p # 1
      BY <2>2, <1>1, <1>2
    <3>. QED BY <3>1, <2>2, <1>0, <1>1
  <2>. QED BY <2>1, <2>2, <1>3
<1>9. ASSUME NEW p \in 1..(n + 1) PROVE u[p].ev \notin {"content_block_stop", "message_stop"}
  BY <1>0, <1>1, <1>3, <1>6
<1>10. \A p \in 1..n : u[p] = s[p] /\ (StartAt(u, p) <=> StartAt(s, p)) /\ (DeltaAt(u, p) <=> DeltaAt(s, p))
  BY <1>1 DEF StartAt, DeltaAt
<1>11. StartAt(u, n + 1) /\ ~DeltaAt(u, n + 1) /\ u[n + 1].index = i /\ u[n + 1].kind = kind
  BY <1>0, <1>1 DEF StartAt, DeltaAt
<1>12. ASSUME NEW p \in 1..(n + 1), DeltaAt(u, p)
       PROVE  u[p].of.kind = kind /\ \E q \in 1..(p - 1) : StartAt(u, q) /\ u[q].index = u[p].index
  <2>1. p \in 1..n /\ DeltaAt(s, p) /\ u[p] = s[p]
    BY <1>3, <1>10, <1>11, <1>12
  <2>2. PICK q \in 1..(p - 1) : StartAt(s, q) /\ s[q].index = s[p].index
    BY <2>1, <1>6
  <2>3. q \in 1..n
    BY <2>1, <1>1
  <2>4. s[p].of.kind = kind
    BY <2>1, <1>6
  <2>. QED BY <2>1, <2>2, <2>3, <2>4, <1>10
<1>13. ASSUME NEW j \in indices \cup {i} PROVE \E p \in 1..(n + 1) : StartAt(u, p) /\ u[p].index = j
  <2>1. CASE j = i
    <3>1. n + 1 \in 1..(n + 1)
      BY <1>1
    <3>. QED BY <3>1, <2>1, <1>11
  <2>2. CASE j \in indices
    BY <2>2, <1>4, <1>6, <1>10
  <2>. QED BY <2>1, <2>2
<1>14. ASSUME NEW p \in 1..(n + 1), StartAt(u, p)
       PROVE  u[p].kind = kind /\ u[p].index \in indices \cup {i}
              /\ (p \in 1..n => u[p].index \in indices)
  BY <1>3, <1>6, <1>10, <1>11, <1>14
<1>15. ASSUME NEW p \in 1..(n + 1), NEW q \in 1..(n + 1),
              StartAt(u, p), StartAt(u, q), u[p].index = u[q].index
       PROVE  p = q
  <2>1. CASE p \in 1..n /\ q \in 1..n
    BY <2>1, <1>6, <1>10, <1>15
  <2>2. CASE p = n + 1 \/ q = n + 1
    BY <2>2, <1>3, <1>11, <1>14, <1>15
  <2>. QED BY <2>1, <2>2, <1>3
<1>16. Open(u, kind, indices \cup {i})
  BY <1>1, <1>7, <1>8, <1>9, <1>12, <1>13, <1>14, <1>15 DEF Open
<1>. QED BY <1>1, <1>16 DEF u, b

LEMMA OpenBegins == ASSUME NEW kind PROVE <<MessageStart>> \in Seq(Events) /\ Open(<<MessageStart>>, kind, {})
<1>. DEFINE s == <<MessageStart>>
<1>1. s \in Seq(Events) /\ s # <<>> /\ Len(s) = 1 /\ s[1] = MessageStart
  BY EventFacts
<1>2. MessageStart.ev = "message_start"
  BY EventFacts
<1>. HIDE DEF s
<1>3. \A p \in 1..Len(s) : p = 1 /\ s[p] = MessageStart
  BY <1>1
<1>4. \A p \in 1..Len(s) : ~StartAt(s, p) /\ ~DeltaAt(s, p)
  BY <1>2, <1>3 DEF StartAt, DeltaAt
<1>5. Open(s, kind, {})
  BY <1>1, <1>2, <1>3, <1>4 DEF Open
<1>. QED BY <1>1, <1>5 DEF s

\* Every call of the first array opens its block.
LEMMA OpensAll ==
    ASSUME number \in Nat, NEW calls \in Seq(Call),
           \A j, k \in 1..Len(calls) : calls[j].index = calls[k].index => j = k
    PROVE  Open(<<MessageStart>> \o OpenAll(calls), "tool", {calls[k].index : k \in 1..Len(calls)})
<1>. DEFINE n == Len(calls)
            s == <<MessageStart>>
            q == [k \in 1..n |-> <<BlockStart("tool", calls[k].index)>> \o ArgsEvents(calls[k])]
            upto(k) == {calls[j].index : j \in 1..k}
<1>1. n \in Nat /\ \A k \in 1..n : calls[k] \in Call /\ calls[k].index \in Index
  <2>1. n \in Nat /\ \A k \in 1..n : calls[k] \in Call
    OBVIOUS
  <2>. QED BY <2>1 DEF Call
<1>. HIDE DEF Events
<1>2. \A k \in 1..n : ArgsEvents(calls[k]) \in Seq(Events)
  BY <1>1, ArgsQuiet, QuietEvents
<1>3. \A k \in 1..n : <<BlockStart("tool", calls[k].index)>> \in Seq(Events)
  BY <1>1, EventFacts
<1>4. \A k \in 1..n : /\ q[k] = <<BlockStart("tool", calls[k].index)>> \o ArgsEvents(calls[k])
                      /\ <<BlockStart("tool", calls[k].index)>> \o ArgsEvents(calls[k]) \in Seq(Events)
  BY <1>2, <1>3, ConcatProperties
<1>5. q \in Seq(Seq(Events)) /\ Len(q) = n
  <2>1. q = [k \in 1..n |-> q[k]]
    OBVIOUS
  <2>. DEFINE E == Seq(Events)
  <2>2. n \in Nat /\ \A k \in 1..n : q[k] \in E
    BY <1>1, <1>4
  <2>. HIDE DEF q, n, E
  <2>3. q \in Seq(E) /\ Len(q) = n
    BY <2>1, <2>2
  <2>. QED BY <2>3 DEF E
<1>6. OpenAll(calls) = FlattenSeq(q)
  BY DEF OpenAll
<1>. HIDE DEF q
<1>7. PICK g : Partials(g, q, Events) /\ g[n] = FlattenSeq(q)
  BY <1>5, PartialsExist
<1>8. /\ g[0] = <<>> /\ \A k \in 0..n : g[k] \in Seq(Events)
      /\ \A k \in 1..n : g[k] = g[k - 1] \o q[k]
  BY <1>5, <1>7 DEF Partials
<1>9. s \in Seq(Events) /\ Open(s, "tool", {})
  BY OpenBegins
<1>10. s \o <<>> = s
  BY <1>9, ConcatEmptySeq
<1>. HIDE DEF s
<1>11. ASSUME NEW k \in 1..n, Open(s \o g[k - 1], "tool", upto(k - 1))
       PROVE  Open(s \o g[k], "tool", upto(k))
  <2>. DEFINE i == calls[k].index
              b == <<BlockStart("tool", i)>>
              a == ArgsEvents(calls[k])
              r == s \o g[k - 1]
  <2>1. k - 1 \in 0..n /\ \A j \in 1..(k - 1) : j \in 1..n /\ j # k
    BY <1>1
  <2>2. g[k - 1] \in Seq(Events) /\ b \in Seq(Events) /\ a \in Seq(Events) /\ i \in Index
        /\ calls[k] \in Call /\ g[k] = g[k - 1] \o (b \o a)
    BY <2>1, <1>1, <1>2, <1>3, <1>4, <1>8
  <2>3. i \notin upto(k - 1)
    BY <2>1
  <2>4. upto(k) = upto(k - 1) \cup {i}
    <3>1. \A j \in 1..k : j \in 1..(k - 1) \/ j = k
      BY <1>1
    <3>2. \A j \in 1..(k - 1) : j \in 1..k
      BY <1>1
    <3>3. k \in 1..k
      BY <1>1
    <3>. QED BY <3>1, <3>2, <3>3
  <2>. HIDE DEF upto
  <2>5. r \in Seq(Events)
    BY <1>9, <2>2, ConcatProperties
  <2>6. r \o b \in Seq(Events) /\ Open(r \o b, "tool", upto(k - 1) \cup {i})
    <3>. HIDE DEF r, i
    <3>1. Open(r, "tool", upto(k - 1))
      BY <1>11 DEF r
    <3>. QED BY <3>1, <2>2, <2>3, <2>5, OpenStarts
  <2>7. a \in Seq(Deltas("tool", upto(k - 1) \cup {i}))
    <3>. DEFINE f == Fragment("tool", i, number + 1)
    <3>1. f \in Pieces /\ f.kind = "tool" /\ f.index = i
      BY <2>2, FragmentFacts DEF Fragment
    <3>2. BlockDelta(f) \in Deltas("tool", upto(k - 1) \cup {i})
      BY <3>1 DEF Deltas
    <3>3. a = IF calls[k].args THEN <<BlockDelta(f)>> ELSE <<>>
      BY DEF ArgsEvents
    <3>. DEFINE D == Deltas("tool", upto(k - 1) \cup {i})
                d == BlockDelta(f)
    <3>4. d \in D /\ a = IF calls[k].args THEN <<d>> ELSE <<>>
      BY <3>2, <3>3
    <3>. HIDE DEF f, a, d, D
    <3>5. a \in Seq(D)
      BY <3>4
    <3>. QED BY <3>5 DEF D
  <2>. HIDE DEF r, i, b, a
  <2>8. Open((r \o b) \o a, "tool", upto(k - 1) \cup {i})
    BY <2>6, <2>7, OpenGoesOn
  <2>9. s \o g[k] = (r \o b) \o a
    <3>1. \A x, y, z \in Seq(Events) : (x \o y) \o z = x \o (y \o z)
      BY ConcatAssociative, SMTT(30)
    <3>2. (r \o b) \o a = r \o (b \o a)
      BY <2>2, <2>5, <3>1
    <3>3. b \o a \in Seq(Events)
      BY <2>2, ConcatProperties
    <3>4. (s \o g[k - 1]) \o (b \o a) = s \o (g[k - 1] \o (b \o a))
      BY <1>9, <2>2, <3>1, <3>3
    <3>. QED BY <2>2, <3>2, <3>4 DEF r
  <2>. QED BY <2>4, <2>8, <2>9
<1>12. CASE n = 0
  <2>1. g[n] = <<>> /\ upto(n) = {}
    BY <1>8, <1>12
  <2>. QED BY <2>1, <1>6, <1>7, <1>9, <1>10 DEF s
<1>13. CASE n # 0
  <2>. DEFINE T == {k \in 1..n : Open(s \o g[k], "tool", upto(k))}
  <2>1. 1 \in T
    <3>1. 1 \in 1..n /\ 1 - 1 = 0
      BY <1>1, <1>13
    <3>2. upto(1 - 1) = {}
      OBVIOUS
    <3>2a. g[1 - 1] = <<>>
      BY <3>1, <1>8
    <3>. HIDE DEF upto
    <3>3. Open(s \o g[1 - 1], "tool", upto(1 - 1))
      BY <3>2, <3>2a, <1>9, <1>10
    <3>. QED BY <3>1, <3>3, <1>11
  <2>2. ASSUME NEW k \in 1..n, k \in T, k + 1 \in 1..n PROVE k + 1 \in T
    <3>. HIDE DEF upto
    <3>1. (k + 1) - 1 = k
      OBVIOUS
    <3>2. Open(s \o g[(k + 1) - 1], "tool", upto((k + 1) - 1))
      BY <3>1, <2>2
    <3>. QED BY <3>2, <2>2, <1>11
  <2>3. 1..n \subseteq T
    <3>. HIDE DEF T, n
    <3>. QED BY <1>1, <2>1, <2>2, IntervalInduction
  <2>4. n \in 1..n
    BY <1>1, <1>13
  <2>5. Open(s \o g[n], "tool", upto(n))
    <3>. HIDE DEF upto, n
    <3>. QED BY <2>3, <2>4
  <2>. QED BY <2>5, <1>6, <1>7 DEF s
<1>. QED BY <1>12, <1>13

\* What follows an open message when it closes.
LEMMA ClosingFacts ==
    ASSUME NEW s \in Seq(Events), NEW q \in Seq(Index)
    PROVE  LET u == s \o (StopAll(q) \o Ending)
               n == Len(s)
               m == Len(q)
           IN /\ u \in Seq(Events) /\ Len(u) = n + m + 2
              /\ \A p \in 1..n : u[p] = s[p]
              /\ \A k \in 1..m : u[n + k] = BlockStop(q[k])
              /\ u[n + m + 1].ev = "message_delta" /\ u[n + m + 2].ev = "message_stop"
<1>. DEFINE n == Len(s)  m == Len(q)
            t == StopAll(q)
            e == Ending
            v == t \o e
            u == s \o v
<1>. HIDE DEF Events
<1>1. n \in Nat /\ m \in Nat /\ \A k \in 1..m : q[k] \in Index
  OBVIOUS
<1>2. t \in Seq(Events) /\ e \in Seq(Events)
  BY OthersKinds
<1>3. Len(t) = m /\ \A k \in 1..m : t[k] = BlockStop(q[k])
  BY <1>1 DEF StopAll
<1>4. Len(e) = 2 /\ e[1].ev = "message_delta" /\ e[2].ev = "message_stop"
  BY DEF Ending
<1>. HIDE DEF t, e
<1>5. /\ v \in Seq(Events) /\ Len(v) = m + 2
      /\ \A k \in 1..(m + 2) : v[k] = IF k <= m THEN t[k] ELSE e[k - m]
  <2>1. /\ t \o e \in Seq(Events) /\ Len(t \o e) = Len(t) + Len(e)
        /\ \A k \in 1..(Len(t) + Len(e)) : (t \o e)[k] = IF k <= Len(t) THEN t[k] ELSE e[k - Len(t)]
    BY <1>2, ConcatProperties
  <2>2. Len(t) = m /\ Len(e) = 2
    BY <1>3, <1>4
  <2>. QED BY <2>1, <2>2
<1>. HIDE DEF v
<1>6. /\ u \in Seq(Events) /\ Len(u) = n + (m + 2)
      /\ \A p \in 1..(n + (m + 2)) : u[p] = IF p <= n THEN s[p] ELSE v[p - n]
  <2>0. v \in Seq(Events)
    BY <1>5
  <2>1. /\ s \o v \in Seq(Events) /\ Len(s \o v) = Len(s) + Len(v)
        /\ \A k \in 1..(Len(s) + Len(v)) : (s \o v)[k] = IF k <= Len(s) THEN s[k] ELSE v[k - Len(s)]
    BY <2>0, ConcatProperties
  <2>2. Len(s) = n /\ Len(v) = m + 2
    BY <1>5
  <2>. QED BY <2>1, <2>2
<1>. HIDE DEF u, n, m
<1>7. n + (m + 2) = n + m + 2
  BY <1>1
<1>8. \A p \in 1..n : u[p] = s[p]
  <2>1. \A p \in 1..n : p \in 1..(n + (m + 2)) /\ p <= n
    BY <1>1
  <2>. QED BY <2>1, <1>6
<1>9. ASSUME NEW k \in 1..(m + 2) PROVE u[n + k] = v[k]
  <2>1. n + k \in 1..(n + (m + 2)) /\ ~(n + k <= n) /\ (n + k) - n = k
    BY <1>1
  <2>. QED BY <2>1, <1>6
<1>10. ASSUME NEW k \in 1..m PROVE u[n + k] = BlockStop(q[k])
  <2>1. k \in 1..(m + 2) /\ k <= m
    BY <1>1
  <2>. QED BY <2>1, <1>3, <1>5, <1>9
<1>11. u[n + m + 1].ev = "message_delta" /\ u[n + m + 2].ev = "message_stop"
  <2>1. /\ m + 1 \in 1..(m + 2) /\ m + 2 \in 1..(m + 2)
        /\ ~(m + 1 <= m) /\ ~(m + 2 <= m) /\ (m + 1) - m = 1 /\ (m + 2) - m = 2
        /\ n + (m + 1) = n + m + 1 /\ n + (m + 2) = n + m + 2
    BY <1>1
  <2>2. v[m + 1] = e[1] /\ v[m + 2] = e[2]
    BY <2>1, <1>5
  <2>3. u[n + (m + 1)] = v[m + 1] /\ u[n + (m + 2)] = v[m + 2]
    BY <2>1, <1>9
  <2>. QED BY <2>1, <2>2, <2>3, <1>4
<1>. QED BY <1>6, <1>7, <1>8, <1>10, <1>11 DEF u, v, t, e, n, m

\* An open message closes with a stop for each of its blocks.
LEMMA OpenCloses ==
    ASSUME NEW s \in Seq(Events), NEW kind, NEW indices, Open(s, kind, indices),
           NEW q \in Seq(Index), Lists(q, indices)
    PROVE  Closed(s \o (StopAll(q) \o Ending))
<1>. DEFINE u == s \o (StopAll(q) \o Ending)
            n == Len(s)
            m == Len(q)
<1>. HIDE DEF Events
<1>1. /\ u \in Seq(Events) /\ Len(u) = n + m + 2
      /\ \A p \in 1..n : u[p] = s[p]
      /\ \A k \in 1..m : u[n + k] = BlockStop(q[k])
      /\ u[n + m + 1].ev = "message_delta" /\ u[n + m + 2].ev = "message_stop"
  BY ClosingFacts
<1>2. n \in Nat /\ m \in Nat /\ n >= 1 /\ \A k \in 1..m : q[k] \in Index
  BY DEF Open
<1>. HIDE DEF u, n, m
<1>3. /\ \A p \in 1..n : s[p].ev = "message_start" <=> p = 1
      /\ \A p \in 1..n : s[p].ev \notin {"content_block_stop", "message_stop"}
      /\ \A p \in 1..n : StartAt(s, p) => s[p].kind = kind /\ s[p].index \in indices
      /\ \A i \in indices : \E p \in 1..n : StartAt(s, p) /\ s[p].index = i
      /\ \A p, r \in 1..n : StartAt(s, p) /\ StartAt(s, r) /\ s[p].index = s[r].index => p = r
      /\ \A p \in 1..n : DeltaAt(s, p) =>
             /\ s[p].of.kind = kind
             /\ \E r \in 1..(p - 1) : StartAt(s, r) /\ s[r].index = s[p].index
  BY DEF Open, n
<1>4. /\ \A i \in indices : \E k \in 1..m : q[k] = i
      /\ \A k \in 1..m : q[k] \in indices
      /\ \A j, k \in 1..m : q[j] = q[k] => j = k
  BY DEF Lists, m
<1>5. ASSUME NEW k \in 1..m
      PROVE  u[n + k].ev = "content_block_stop" /\ u[n + k].index = q[k]
  BY <1>1, <1>2, EventFacts, SMTT(30)
<1>6. ASSUME NEW p \in 1..(n + m + 2)
      PROVE  \/ p \in 1..n
             \/ \E k \in 1..m : p = n + k
             \/ p = n + m + 1 \/ p = n + m + 2
  <2>1. CASE p > n /\ p <= n + m
    <3>1. p - n \in 1..m /\ p = n + (p - n)
      BY <2>1, <1>2
    <3>. QED BY <3>1
  <2>. QED BY <2>1, <1>2
<1>7. \A p \in 1..n : p \in 1..(n + m + 2)
  BY <1>2
<1>8. \A k \in 1..m : n + k \in 1..(n + m + 2) /\ n + k > n /\ n + k # 1
  BY <1>2
<1>9. n + m + 1 # 1 /\ n + m + 2 # 1
  BY <1>2
<1>10. ASSUME NEW p \in 1..(n + m + 2) PROVE u[p].ev = "message_start" <=> p = 1
  <2>1. CASE p \in 1..n
    BY <2>1, <1>1, <1>3
  <2>2. CASE \E k \in 1..m : p = n + k
    BY <2>2, <1>5, <1>8
  <2>3. CASE p = n + m + 1 \/ p = n + m + 2
    BY <2>3, <1>1, <1>9
  <2>. QED BY <2>1, <2>2, <2>3, <1>6
<1>11. ASSUME NEW p \in 1..(n + m + 2), StartAt(u, p) \/ DeltaAt(u, p)
       PROVE  p \in 1..n /\ u[p] = s[p] /\ (StartAt(u, p) <=> StartAt(s, p)) /\ (DeltaAt(u, p) <=> DeltaAt(s, p))
  <2>1. ~ \E k \in 1..m : p = n + k
    BY <1>5, <1>11 DEF StartAt, DeltaAt
  <2>2. ~(p = n + m + 1 \/ p = n + m + 2)
    BY <1>1, <1>11 DEF StartAt, DeltaAt
  <2>3. p \in 1..n
    BY <2>1, <2>2, <1>6
  <2>. QED BY <2>3, <1>1 DEF StartAt, DeltaAt
<1>12. ASSUME NEW p \in 1..n, StartAt(s, p) PROVE p \in 1..(n + m + 2) /\ StartAt(u, p) /\ u[p] = s[p]
  BY <1>1, <1>7, <1>12 DEF StartAt
<1>13. ASSUME NEW p \in 1..(n + m + 2), StopAt(u, p)
       PROVE  \E k \in 1..m : p = n + k /\ u[p].index = q[k]
  <2>1. p \notin 1..n
    BY <1>1, <1>3, <1>13 DEF StopAt
  <2>2. ~(p = n + m + 1 \/ p = n + m + 2)
    BY <1>1, <1>13 DEF StopAt
  <2>. QED BY <2>1, <2>2, <1>5, <1>6
<1>14. ASSUME NEW k \in 1..m PROVE n + k \in 1..(n + m + 2) /\ StopAt(u, n + k) /\ u[n + k].index = q[k]
  BY <1>5, <1>8 DEF StopAt
<1>15. ASSUME NEW p \in 1..(n + m + 2), NEW r \in 1..(n + m + 2),
              StartAt(u, p), StartAt(u, r), u[p].index = u[r].index
       PROVE  p = r
  <2>1. p \in 1..n /\ r \in 1..n /\ StartAt(s, p) /\ StartAt(s, r) /\ u[p] = s[p] /\ u[r] = s[r]
    BY <1>11, <1>15
  <2>. QED BY <2>1, <1>3, <1>15
<1>16. ASSUME NEW p \in 1..(n + m + 2), NEW r \in 1..(n + m + 2),
              StopAt(u, p), StopAt(u, r), u[p].index = u[r].index
       PROVE  p = r
  <2>1. PICK k \in 1..m : p = n + k /\ u[p].index = q[k]
    BY <1>13, <1>16
  <2>2. PICK j \in 1..m : r = n + j /\ u[r].index = q[j]
    BY <1>13, <1>16
  <2>3. j = k
    BY <2>1, <2>2, <1>4, <1>16
  <2>. QED BY <2>1, <2>2, <2>3
<1>17. ASSUME NEW p \in 1..(n + m + 2), StartAt(u, p)
       PROVE  \E r \in 1..(n + m + 2) : StopAt(u, r) /\ u[r].index = u[p].index
  <2>1. p \in 1..n /\ StartAt(s, p) /\ u[p] = s[p]
    BY <1>11, <1>17
  <2>2. u[p].index \in indices
    BY <2>1, <1>3
  <2>3. PICK k \in 1..m : q[k] = u[p].index
    BY <2>2, <1>4
  <2>. QED BY <2>3, <1>14
<1>18. ASSUME NEW p \in 1..(n + m + 2), StopAt(u, p)
       PROVE  \E r \in 1..(n + m + 2) : StartAt(u, r) /\ u[r].index = u[p].index
  <2>1. PICK k \in 1..m : p = n + k /\ u[p].index = q[k]
    BY <1>13, <1>18
  <2>2. u[p].index \in indices
    BY <2>1, <1>4
  <2>3. PICK r \in 1..n : StartAt(s, r) /\ s[r].index = u[p].index
    BY <2>2, <1>3
  <2>. QED BY <2>3, <1>12
<1>19. ASSUME NEW p \in 1..(n + m + 2), DeltaAt(u, p)
       PROVE  /\ \E r \in 1..(p - 1) : /\ StartAt(u, r) /\ u[r].index = u[p].index
                                       /\ u[r].kind = u[p].of.kind
              /\ \A r \in 1..(n + m + 2) : StopAt(u, r) => p < r
  <2>1. p \in 1..n /\ DeltaAt(s, p) /\ u[p] = s[p]
    BY <1>11, <1>19
  <2>2. PICK r \in 1..(p - 1) : StartAt(s, r) /\ s[r].index = s[p].index
    BY <2>1, <1>3
  <2>3. r \in 1..n
    BY <2>1, <1>2
  <2>4. s[p].of.kind = kind /\ s[r].kind = kind
    BY <2>1, <2>2, <2>3, <1>3
  <2>5. StartAt(u, r) /\ u[r] = s[r]
    BY <2>2, <2>3, <1>12
  <2>6. ASSUME NEW z \in 1..(n + m + 2), StopAt(u, z) PROVE p < z
    <3>1. PICK k \in 1..m : z = n + k
      BY <1>13, <2>6
    <3>. QED BY <3>1, <2>1, <1>2
  <2>. QED BY <2>1, <2>2, <2>4, <2>5, <2>6
<1>20. Closed(u)
  <2>. DEFINE l == n + m + 2
  <2>1. Len(u) = l
    BY <1>1
  <2>. HIDE DEF l
  <2>2. \A p \in 1..l : u[p].ev = "message_start" <=> p = 1
    BY <1>10 DEF l
  <2>3. \A p, r \in 1..l : StartAt(u, p) /\ StartAt(u, r) /\ u[p].index = u[r].index => p = r
    BY <1>15 DEF l
  <2>4. \A p, r \in 1..l : StopAt(u, p) /\ StopAt(u, r) /\ u[p].index = u[r].index => p = r
    BY <1>16 DEF l
  <2>5. \A p \in 1..l : StartAt(u, p) => \E r \in 1..l : StopAt(u, r) /\ u[r].index = u[p].index
    BY <1>17 DEF l
  <2>6. \A p \in 1..l : StopAt(u, p) => \E r \in 1..l : StartAt(u, r) /\ u[r].index = u[p].index
    BY <1>18 DEF l
  <2>7. \A p \in 1..l : DeltaAt(u, p) =>
            /\ \E r \in 1..(p - 1) : /\ StartAt(u, r) /\ u[r].index = u[p].index
                                     /\ u[r].kind = u[p].of.kind
            /\ \A r \in 1..l : StopAt(u, r) => p < r
    BY <1>19 DEF l
  <2>. QED BY <2>1, <2>2, <2>3, <2>4, <2>5, <2>6, <2>7 DEF Closed
<1>. QED BY <1>20 DEF u

\* Block 0 alone, and no block at all.
LEMMA OpenClosesOne ==
    ASSUME NEW s \in Seq(Events), NEW kind, Open(s, kind, {0})
    PROVE  Closed(s \o (<<BlockStop(0)>> \o Ending))
<1>1. <<0>> \in Seq(Index) /\ Len(<<0>>) = 1 /\ <<0>>[1] = 0
  BY SseAssumption
<1>2. StopAll(<<0>>) = <<BlockStop(0)>>
  BY <1>1 DEF StopAll
<1>3. Lists(<<0>>, {0})
  BY <1>1 DEF Lists
<1>. HIDE DEF Events
<1>. QED BY <1>1, <1>2, <1>3, OpenCloses

LEMMA OpenClosesNone ==
    ASSUME NEW s \in Seq(Events), NEW kind, Open(s, kind, {})
    PROVE  Closed(s \o Ending)
<1>1. <<>> \in Seq(Index) /\ Len(<<>>) = 0
  OBVIOUS
<1>2. StopAll(<<>>) = <<>>
  BY <1>1 DEF StopAll
<1>3. Lists(<<>>, {})
  BY <1>1 DEF Lists
<1>. HIDE DEF Events
<1>4. Ending \in Seq(Events)
  BY <1>1, OthersKinds
<1>5. <<>> \o Ending = Ending
  BY <1>4, ConcatEmptySeq
<1>. QED BY <1>1, <1>2, <1>3, <1>5, OpenCloses

LEMMA AtMostOne ==
    ASSUME NEW S, \A x, y \in S : x = y
    PROVE  Cardinality(S) = IF S = {} THEN 0 ELSE 1
<1>1. CASE S = {}
  BY <1>1, FS_EmptySet
<1>2. CASE S # {}
  <2>1. PICK x \in S : TRUE
    BY <1>2
  <2>2. S = {x}
    BY <2>1
  <2>3. Cardinality({x}) = 1
    BY FS_Singleton
  <2>. QED BY <2>2, <2>3, <1>2
<1>. QED BY <1>1, <1>2

\* What a plain reply promises the agent.
Blocks == StartsOnce /\ BlocksStopped /\ IndexUnique /\ DeltasInBlocks

LEMMA OpenBlocks == ASSUME NEW kind, NEW indices, sent \in Seq(Events), Open(sent, kind, indices) PROVE Blocks
<1>. HIDE DEF Events
<1>. DEFINE n == Len(sent)
<1>1. n \in Nat /\ n \in 1..n
  BY DEF Open
<1>. HIDE DEF n
<1>2. /\ \A p \in 1..n : sent[p].ev = "message_start" <=> p = 1
      /\ \A p \in 1..n : sent[p].ev \notin {"content_block_stop", "message_stop"}
      /\ \A p \in 1..n : StartAt(sent, p) => sent[p].kind = kind /\ sent[p].index \in indices
      /\ \A p, r \in 1..n : StartAt(sent, p) /\ StartAt(sent, r) /\ sent[p].index = sent[r].index => p = r
      /\ \A p \in 1..n : DeltaAt(sent, p) =>
             /\ sent[p].of.kind = kind
             /\ \E r \in 1..(p - 1) : StartAt(sent, r) /\ sent[r].index = sent[p].index
  BY DEF Open, n
<1>3. StartsOnce
  BY <1>2 DEF StartsOnce, At, n
<1>4. ~Ended
  <2>1. Last(sent) = sent[n]
    BY DEF Last, n
  <2>. QED BY <2>1, <1>1, <1>2 DEF Ended
<1>5. ASSUME NEW i PROVE Cardinality(Starts(i)) <= 1 /\ Stops(i) = {}
  <2>1. \A x, y \in Starts(i) : x = y
    BY <1>2 DEF Starts, At, StartAt, n
  <2>2. Cardinality(Starts(i)) = IF Starts(i) = {} THEN 0 ELSE 1
    BY <2>1, AtMostOne
  <2>3. Stops(i) = {}
    BY <1>2 DEF Stops, At, n
  <2>. QED BY <2>2, <2>3
<1>6. DeltasInBlocks
  <2>. SUFFICES ASSUME NEW p \in 1..n, DeltaAt(sent, p)
       PROVE  \E s \in Starts(sent[p].index) :
                  /\ s < p /\ sent[s].kind = sent[p].of.kind
                  /\ \A q \in Stops(sent[p].index) : q < s \/ p < q
    BY DEF DeltasInBlocks, At, DeltaAt, n
  <2>1. PICK r \in 1..(p - 1) : StartAt(sent, r) /\ sent[r].index = sent[p].index
    BY <1>2
  <2>2. r \in 1..n /\ r < p
    BY <1>1
  <2>3. r \in Starts(sent[p].index)
    BY <2>1, <2>2 DEF Starts, At, StartAt, n
  <2>4. sent[r].kind = sent[p].of.kind
    BY <2>1, <2>2, <1>2
  <2>. QED BY <2>2, <2>3, <2>4, <1>5
<1>. QED BY <1>3, <1>4, <1>5, <1>6 DEF Blocks, BlocksStopped, IndexUnique

LEMMA ClosedBlocks == ASSUME sent \in Seq(Events), Closed(sent) PROVE Blocks
<1>. HIDE DEF Events
<1>. DEFINE n == Len(sent)
<1>1. n \in Nat
  OBVIOUS
<1>. HIDE DEF n
<1>2. /\ \A p \in 1..n : sent[p].ev = "message_start" <=> p = 1
      /\ \A p, q \in 1..n : StartAt(sent, p) /\ StartAt(sent, q) /\ sent[p].index = sent[q].index => p = q
      /\ \A p, q \in 1..n : StopAt(sent, p) /\ StopAt(sent, q) /\ sent[p].index = sent[q].index => p = q
      /\ \A p \in 1..n : StartAt(sent, p) => \E q \in 1..n : StopAt(sent, q) /\ sent[q].index = sent[p].index
      /\ \A p \in 1..n : StopAt(sent, p) => \E q \in 1..n : StartAt(sent, q) /\ sent[q].index = sent[p].index
      /\ \A p \in 1..n : DeltaAt(sent, p) =>
             /\ \E q \in 1..(p - 1) : /\ StartAt(sent, q) /\ sent[q].index = sent[p].index
                                      /\ sent[q].kind = sent[p].of.kind
             /\ \A q \in 1..n : StopAt(sent, q) => p < q
  BY DEF Closed, n
<1>3. StartsOnce
  BY <1>2 DEF StartsOnce, At, n
<1>4. ASSUME NEW i PROVE Cardinality(Starts(i)) <= 1 /\ Cardinality(Starts(i)) = Cardinality(Stops(i))
  <2>1. \A x : /\ x \in Starts(i) <=> (x \in 1..n /\ StartAt(sent, x) /\ sent[x].index = i)
               /\ x \in Stops(i) <=> (x \in 1..n /\ StopAt(sent, x) /\ sent[x].index = i)
    BY DEF Starts, Stops, At, StartAt, StopAt, n
  <2>2. (\A x, y \in Starts(i) : x = y) /\ (\A x, y \in Stops(i) : x = y)
    BY <2>1, <1>2
  <2>3. /\ Cardinality(Starts(i)) = IF Starts(i) = {} THEN 0 ELSE 1
        /\ Cardinality(Stops(i)) = IF Stops(i) = {} THEN 0 ELSE 1
    BY <2>2, AtMostOne
  <2>4. Starts(i) = {} <=> Stops(i) = {}
    <3>1. ASSUME NEW x \in Starts(i) PROVE Stops(i) # {}
      BY <2>1, <1>2
    <3>2. ASSUME NEW x \in Stops(i) PROVE Starts(i) # {}
      BY <2>1, <1>2
    <3>. QED BY <3>1, <3>2
  <2>. QED BY <2>3, <2>4
<1>5. DeltasInBlocks
  <2>. SUFFICES ASSUME NEW p \in 1..n, DeltaAt(sent, p)
       PROVE  \E s \in Starts(sent[p].index) :
                  /\ s < p /\ sent[s].kind = sent[p].of.kind
                  /\ \A q \in Stops(sent[p].index) : q < s \/ p < q
    BY DEF DeltasInBlocks, At, DeltaAt, n
  <2>1. PICK r \in 1..(p - 1) : /\ StartAt(sent, r) /\ sent[r].index = sent[p].index
                                /\ sent[r].kind = sent[p].of.kind
    BY <1>2
  <2>2. r \in 1..n /\ r < p
    BY <1>1
  <2>3. r \in Starts(sent[p].index)
    BY <2>1, <2>2 DEF Starts, At, StartAt, n
  <2>4. \A q \in Stops(sent[p].index) : p < q
    BY <1>2 DEF Stops, At, StopAt, n
  <2>. QED BY <2>1, <2>2, <2>3, <2>4
<1>. QED BY <1>3, <1>4, <1>5 DEF Blocks, BlocksStopped, IndexUnique

PlainInv == odd = {} => Plain

LEMMA PlainImplied == IInv /\ PlainInv => (odd = {} => Blocks)
<1>. SUFFICES ASSUME IInv, Plain PROVE Blocks
  BY DEF PlainInv
<1>. HIDE DEF Events
<1>1. sent \in Seq(Events) /\ state \in States
  BY DEF IInv, TranslatorType, BodyType
<1>2. CASE state = "Initial"
  <2>1. sent = <<>> /\ Len(sent) = 0 /\ 1..Len(sent) = {}
    BY <1>2 DEF Plain
  <2>2. \A i : Starts(i) = {} /\ Stops(i) = {}
    BY <2>1 DEF Starts, Stops
  <2>3. Cardinality({}) = 0
    BY FS_EmptySet
  <2>4. IndexUnique
    <3>1. ASSUME NEW i \in Index PROVE Cardinality(Starts(i)) <= 1
      <4>1. Cardinality(Starts(i)) = 0
        BY <2>2, <2>3
      <4>. QED BY <4>1
    <3>. QED BY <3>1 DEF IndexUnique
  <2>5. BlocksStopped
    BY <2>1 DEF BlocksStopped, Ended
  <2>. QED BY <2>1, <2>4, <2>5 DEF Blocks, StartsOnce, DeltasInBlocks
<1>3. CASE state = "TextContent" \/ state = "ToolCalls"
  <2>1. Open(sent, "text", {0}) \/ Open(sent, "tool", announced)
    BY <1>3 DEF Plain
  <2>. QED BY <2>1, <1>1, OpenBlocks
<1>4. CASE state = "Finished"
  BY <1>1, <1>4, ClosedBlocks DEF Plain
<1>. QED BY <1>1, <1>2, <1>3, <1>4 DEF States

-----------------------------------------------------------------------------
(* Steps of a plain reply *)

LEMMA NoOddities ==
    ASSUME NEW c, Oddities(c) = {}
    PROVE  /\ ~(c.delta = "none" /\ "finish" \notin said)
           /\ ~(c.finish /\ said = {})
           /\ ~(c.delta = "tools" /\ "text" \in said)
           /\ "tools" \in said => \A k \in 1..Len(c.calls) : ~c.calls[k].named
           /\ \A j, k \in 1..Len(c.calls) : j < k => c.calls[j].index # c.calls[k].index
<1>1. \A habit \in AllHabits : ~Shows(c, habit)
  BY DEF Oddities
<1>2. /\ ~Shows(c, "noChoices") /\ ~Shows(c, "finishFirst") /\ ~Shows(c, "toolsAfterText")
      /\ ~Shows(c, "parallel") /\ ~Shows(c, "repeats")
  BY <1>1 DEF AllHabits
<1>3. ~(c.delta = "none" /\ "finish" \notin said)
  BY <1>2 DEF Shows
<1>4. ~(c.finish /\ said = {})
  BY <1>2 DEF Shows
<1>5. ~(c.delta = "tools" /\ "text" \in said)
  BY <1>2 DEF Shows
<1>6. ~("tools" \in said /\ \E k \in 1..Len(c.calls) : c.calls[k].named)
  BY <1>2 DEF Shows
<1>7. ~ \E j, k \in 1..Len(c.calls) : j < k /\ c.calls[j].index = c.calls[k].index
  BY <1>2 DEF Shows
<1>. QED BY <1>3, <1>4, <1>5, <1>6, <1>7

\* Calls that are not named have been announced.
LEMMA UnnamedAnnounced ==
    ASSUME NEW calls \in Seq(Call), NamedOnce(calls), \A k \in 1..Len(calls) : ~calls[k].named
    PROVE  \A k \in 1..Len(calls) : calls[k].index \in announced
<1>. DEFINE n == Len(calls)
            S == {k \in 1..n : calls[k].index \notin announced}
<1>1. n \in Nat
  OBVIOUS
<1>2. \A k \in 1..n : calls[k].index \in announced \cup {calls[j].index : j \in 1..(k - 1)}
  BY DEF NamedOnce
<1>. HIDE DEF n
<1>3. CASE S # {}
  <2>1. S \subseteq Nat
    BY <1>1
  <2>2. PICK k \in S : \A j \in S : k <= j
    <3>. HIDE DEF S
    <3>. QED BY <2>1, <1>3, LeastNatural
  <2>3. PICK j \in 1..(k - 1) : calls[k].index = calls[j].index
    BY <1>2, <2>2
  <2>4. k \in 1..n /\ j \in 1..n /\ j < k
    BY <1>1, <2>2, <2>3
  <2>5. j \in S
    BY <2>2, <2>3, <2>4
  <2>6. k <= j
    <3>. HIDE DEF S
    <3>. QED BY <2>2, <2>5
  <2>. QED BY <2>4, <2>6, <1>1
<1>4. CASE S = {}
  BY <1>4 DEF n
<1>. QED BY <1>3, <1>4

\* Arguments of announced calls go into their blocks.
LEMMA UnknownDeltas ==
    ASSUME number \in Nat, NEW calls \in Seq(Call),
           \A k \in 1..Len(calls) : ~calls[k].named /\ calls[k].index \in announced
    PROVE  OpenUnknown(calls) \in Seq(Deltas("tool", announced))
<1>. DEFINE n == Len(calls)
            D == Deltas("tool", announced)
            q == [k \in 1..n |-> IF calls[k].named /\ ~Contains(tool_indices, calls[k].index)
                                 THEN <<BlockStart("tool", calls[k].index)>> \o ArgsEvents(calls[k])
                                 ELSE ArgsEvents(calls[k])]
<1>1. n \in Nat /\ \A k \in 1..n : calls[k].index \in Index
  <2>1. \A k \in 1..n : calls[k] \in Call
    OBVIOUS
  <2>. QED BY <2>1 DEF Call
<1>2. ASSUME NEW k \in 1..n PROVE q[k] \in Seq(D)
  <2>. DEFINE f == Fragment("tool", calls[k].index, number + 1)
              d == BlockDelta(f)
  <2>1. f \in Pieces /\ f.kind = "tool" /\ f.index \in announced
    BY <1>1, FragmentFacts DEF Fragment
  <2>2. d \in D
    BY <2>1 DEF Deltas
  <2>3. q[k] = ArgsEvents(calls[k]) /\ ArgsEvents(calls[k]) = IF calls[k].args THEN <<d>> ELSE <<>>
    BY DEF ArgsEvents
  <2>. HIDE DEF d, D, q
  <2>. QED BY <2>2, <2>3
<1>3. q \in Seq(Seq(D))
  <2>1. q = [k \in 1..n |-> q[k]]
    OBVIOUS
  <2>. DEFINE T == Seq(D)
  <2>2. \A k \in 1..n : q[k] \in T
    BY <1>2
  <2>. HIDE DEF q, n, T
  <2>3. q \in Seq(T)
    BY <2>1, <2>2, <1>1
  <2>. QED BY <2>3 DEF T
<1>4. OpenUnknown(calls) = FlattenSeq(q)
  BY DEF OpenUnknown
<1>. HIDE DEF q, D
<1>5. FlattenSeq(q) \in Seq(D)
  BY <1>3, FlattenType
<1>. QED BY <1>4, <1>5 DEF D

LEMMA TextDeltas == ASSUME number \in Nat, NEW c PROVE TextEvents(c) \in Seq(Deltas("text", {0}))
<1>. DEFINE f == Fragment("text", 0, number + 1)
            d == BlockDelta(f)
            D == Deltas("text", {0})
<1>1. f \in Pieces /\ f.kind = "text" /\ f.index = 0
  BY FragmentFacts DEF Fragment
<1>2. d \in D
  BY <1>1 DEF Deltas
<1>3. TextEvents(c) = IF c.text THEN <<d>> ELSE <<>>
  BY DEF TextEvents
<1>. HIDE DEF d, D
<1>4. TextEvents(c) \in Seq(D)
  BY <1>2, <1>3
<1>. QED BY <1>4 DEF D

LEMMA JoinFour ==
    ASSUME NEW E, NEW a \in Seq(E), NEW b \in Seq(E), NEW c \in Seq(E), NEW d \in Seq(E)
    PROVE  a \o ((b \o c) \o d) = (a \o b) \o (c \o d)
<1>1. (b \o c) \o d = b \o (c \o d)
  BY ConcatAssociative, SMTT(30)
<1>2. c \o d \in Seq(E)
  BY ConcatProperties
<1>3. (a \o b) \o (c \o d) = a \o (b \o (c \o d))
  BY <1>2, ConcatAssociative, SMTT(30)
<1>. QED BY <1>1, <1>3

\* What emit_finish sends, after what the chunk showed.
LEMMA FinishingSent ==
    ASSUME NEW s \in Seq(Events), NEW e \in Seq(Events), NEW closing \in Seq(Events),
           NEW to, NEW tools
    PROVE  /\ s \o Finishing(Outcome(e, to, tools), closing).events = (s \o e) \o (closing \o Ending)
           /\ Finishing(Outcome(e, to, tools), closing).state = "Finished"
<1>. HIDE DEF Events
<1>. DEFINE f == Ending
<1>1. f \in Seq(Events)
  <2>1. <<>> \in Seq(Index)
    OBVIOUS
  <2>. QED BY <2>1, OthersKinds
<1>2. /\ Finishing(Outcome(e, to, tools), closing).events = (e \o closing) \o f
      /\ Finishing(Outcome(e, to, tools), closing).state = "Finished"
  BY DEF Finishing, Outcome
<1>. HIDE DEF f
<1>3. s \o ((e \o closing) \o f) = (s \o e) \o (closing \o f)
  BY <1>1, JoinFour, SMTT(60)
<1>. QED BY <1>2, <1>3 DEF f

\* finish_inner closes the message of a plain reply.
LEMMA FinishPlain ==
    ASSUME Plain, sent \in Seq(Events), tool_indices \in Seq(Index), state \in States
    PROVE  Closed(sent \o FinishInner.events)
<1>. HIDE DEF Events
<1>1. CASE state = "Initial"
  <2>. DEFINE s == <<MessageStart>>
              v == s \o Ending
  <2>1. FinishInner.events = v
    BY <1>1 DEF FinishInner, Outcome
  <2>2. s \in Seq(Events) /\ Open(s, "text", {})
    BY OpenBegins
  <2>. HIDE DEF s
  <2>3. Closed(v)
    BY <2>2, OpenClosesNone
  <2>4. v \in Seq(Events)
    <3>1. <<>> \in Seq(Index)
      OBVIOUS
    <3>2. Ending \in Seq(Events)
      BY <3>1, OthersKinds
    <3>. QED BY <2>2, <3>2, ConcatProperties
  <2>5. sent = <<>>
    BY <1>1 DEF Plain
  <2>. HIDE DEF v
  <2>6. <<>> \o v = v
    BY <2>4, ConcatEmptySeq
  <2>. QED BY <2>1, <2>3, <2>5, <2>6
<1>2. CASE state = "TextContent"
  <2>1. FinishInner.events = <<BlockStop(0)>> \o Ending
    BY <1>2 DEF FinishInner, Outcome
  <2>2. Open(sent, "text", {0})
    BY <1>2 DEF Plain
  <2>. QED BY <2>1, <2>2, OpenClosesOne
<1>3. CASE state = "ToolCalls"
  <2>1. FinishInner.events = StopAll(tool_indices) \o Ending
    BY <1>3 DEF FinishInner, Outcome
  <2>2. Open(sent, "tool", announced) /\ Lists(tool_indices, announced)
    BY <1>3 DEF Plain
  <2>. QED BY <2>1, <2>2, OpenCloses
<1>4. CASE state = "Finished"
  <2>1. FinishInner.events = <<>>
    BY <1>4 DEF FinishInner, Outcome
  <2>2. sent \o <<>> = sent
    BY ConcatEmptySeq
  <2>3. Closed(sent)
    BY <1>4 DEF Plain
  <2>. QED BY <2>1, <2>2, <2>3
<1>. QED BY <1>1, <1>2, <1>3, <1>4 DEF States

LEMMA Pair == ASSUME NEW a, NEW b PROVE <<a>> \o <<b>> = <<a, b>>
<1>. DEFINE S == {a, b}
            x == <<a>>
            y == <<b>>
            z == <<a, b>>
<1>1. /\ x \in Seq(S) /\ y \in Seq(S) /\ z \in Seq(S)
      /\ Len(x) = 1 /\ Len(y) = 1 /\ Len(z) = 2
      /\ x[1] = a /\ y[1] = b /\ z[1] = a /\ z[2] = b
  OBVIOUS
<1>. HIDE DEF x, y, z, S
<1>2. x \o y \in Seq(S) /\ Len(x \o y) = 2 /\ (x \o y)[1] = a /\ (x \o y)[2] = b
  BY <1>1, ConcatProperties
<1>3. \A i \in 1..2 : i = 1 \/ i = 2
  OBVIOUS
<1>4. x \o y = z
  BY <1>1, <1>2, <1>3, SeqEqual
<1>. QED BY <1>4 DEF x, y, z

\* A chunk of a plain reply leaves a plain reply.
LEMMA FirstPlain ==
    ASSUME Plain, state = "Initial", sent = <<>>, number \in Nat,
           NEW c \in Chunk, Provides(c), Oddities(c) = {}
    PROVE  LET o == PushChunk(c) IN
           \/ o.state = "TextContent" /\ Open(sent \o o.events, "text", {0})
           \/ /\ o.state = "ToolCalls"
              /\ Open(sent \o o.events, "tool", {c.calls[k].index : k \in 1..Len(c.calls)})
              /\ Lists(o.tools, {c.calls[k].index : k \in 1..Len(c.calls)})
<1>. HIDE DEF Events
<1>1. said = {}
  BY DEF Plain
<1>2. c.delta \in {"none", "text", "tools"}
  BY DEF Chunk
<1>3. c.calls \in Seq(Call)
  BY ChunkCalls
<1>4. /\ ~(c.delta = "none" /\ "finish" \notin said)
      /\ ~(c.finish /\ said = {})
      /\ \A j, k \in 1..Len(c.calls) : j < k => c.calls[j].index # c.calls[k].index
  BY NoOddities
<1>5. c.delta # "none" /\ ~c.finish
  BY <1>1, <1>4
<1>6. PushChunk(c) = HandleInitial(c)
  BY DEF PushChunk
<1>7. CASE c.delta = "tools"
  <2>. DEFINE e == <<MessageStart>> \o OpenAll(c.calls)
              J == {c.calls[k].index : k \in 1..Len(c.calls)}
  <2>1. HandleInitial(c) = Outcome(e, "ToolCalls", Indices(c.calls))
    BY <1>5, <1>7 DEF HandleInitial
  <2>2. \A j, k \in 1..Len(c.calls) : c.calls[j].index = c.calls[k].index => j = k
    <3>1. Len(c.calls) \in Nat
      BY <1>3
    <3>2. \A j, k \in 1..Len(c.calls) : j < k \/ k < j \/ j = k
      BY <3>1
    <3>. QED BY <3>2, <1>4
  <2>3. Open(e, "tool", J)
    BY <2>2, <1>3, OpensAll
  <2>4. e \in Seq(Events)
    <3>1. <<MessageStart>> \in Seq(Events)
      BY OpenBegins
    <3>2. OpenAll(c.calls) \in Seq(Quiet)
      BY <1>3, OpenQuiet
    <3>3. OpenAll(c.calls) \in Seq(Events)
      BY <3>2, QuietEvents
    <3>. QED BY <3>1, <3>3, ConcatProperties
  <2>5. Lists(Indices(c.calls), J)
    <3>. DEFINE q == Indices(c.calls)
                n == Len(c.calls)
    <3>1. n \in Nat
      BY <1>3
    <3>. HIDE DEF n
    <3>2. q = [k \in 1..n |-> c.calls[k].index]
      BY DEF Indices, n
    <3>. HIDE DEF q
    <3>3. Len(q) = n /\ \A k \in 1..n : q[k] = c.calls[k].index
      BY <3>1, <3>2
    <3>4. \A j, k \in 1..n : q[j] = q[k] => j = k
      BY <3>3, <2>2 DEF n
    <3>5. \A i \in J : \E k \in 1..n : q[k] = i
      BY <3>3 DEF n
    <3>6. \A k \in 1..n : q[k] \in J
      BY <3>3 DEF n
    <3>. HIDE DEF J
    <3>7. Lists(q, J)
      BY <3>3, <3>4, <3>5, <3>6 DEF Lists
    <3>. QED BY <3>7 DEF q
  <2>. HIDE DEF e, J
  <2>6. sent \o e = e
    BY <2>4, ConcatEmptySeq
  <2>7. PushChunk(c).events = e /\ PushChunk(c).state = "ToolCalls" /\ PushChunk(c).tools = Indices(c.calls)
    BY <1>6, <2>1 DEF Outcome
  <2>8. /\ PushChunk(c).state = "ToolCalls" /\ Open(sent \o PushChunk(c).events, "tool", J)
        /\ Lists(PushChunk(c).tools, J)
    BY <2>3, <2>5, <2>6, <2>7
  <2>. QED BY <2>8 DEF J
<1>8. CASE c.delta = "text"
  <2>. DEFINE m == <<MessageStart, BlockStart("text", 0)>>
              t == TextEvents(c)
              e == m \o t
  <2>1. HandleInitial(c) = Outcome(e, "TextContent", <<>>)
    BY <1>5, <1>8 DEF HandleInitial
  <2>2. m \in Seq(Events) /\ Open(m, "text", {0})
    <3>1. <<MessageStart>> \in Seq(Events) /\ Open(<<MessageStart>>, "text", {})
      BY OpenBegins
    <3>2. 0 \in Index /\ "text" \in {"text", "tool"} /\ 0 \notin {} /\ {} \cup {0} = {0}
      BY SseAssumption
    <3>3. /\ <<MessageStart>> \o <<BlockStart("text", 0)>> \in Seq(Events)
          /\ Open(<<MessageStart>> \o <<BlockStart("text", 0)>>, "text", {} \cup {0})
      BY <3>1, <3>2, OpenStarts
    <3>4. <<MessageStart>> \o <<BlockStart("text", 0)>> = m
      BY Pair
    <3>. QED BY <3>2, <3>3, <3>4
  <2>3. t \in Seq(Deltas("text", {0}))
    BY TextDeltas
  <2>. HIDE DEF m, t
  <2>4. e \in Seq(Events) /\ Open(e, "text", {0})
    BY <2>2, <2>3, OpenGoesOn
  <2>. HIDE DEF e
  <2>5. sent \o e = e
    BY <2>4, ConcatEmptySeq
  <2>6. PushChunk(c).events = e /\ PushChunk(c).state = "TextContent"
    BY <1>6, <2>1 DEF Outcome
  <2>. QED BY <2>4, <2>5, <2>6
<1>. QED BY <1>2, <1>5, <1>7, <1>8

\* What follows in an open block of text or in open blocks of tools.
LEMMA GoesOnPlain ==
    ASSUME NEW kind, NEW indices, sent \in Seq(Events), Open(sent, kind, indices),
           NEW e \in Seq(Deltas(kind, indices)), NEW to, NEW tools,
           NEW q \in Seq(Index), Lists(q, indices)
    PROVE  /\ Open(sent \o e, kind, indices)
           /\ Finishing(Outcome(e, to, tools), StopAll(q)).state = "Finished"
           /\ Closed(sent \o Finishing(Outcome(e, to, tools), StopAll(q)).events)
<1>. HIDE DEF Events
<1>1. sent \o e \in Seq(Events) /\ Open(sent \o e, kind, indices)
  BY OpenGoesOn
<1>2. e \in Seq(Events)
  BY DeltasFacts, SeqMonotonic
<1>3. StopAll(q) \in Seq(Events)
  BY OthersKinds
<1>4. /\ sent \o Finishing(Outcome(e, to, tools), StopAll(q)).events = (sent \o e) \o (StopAll(q) \o Ending)
      /\ Finishing(Outcome(e, to, tools), StopAll(q)).state = "Finished"
  BY <1>2, <1>3, FinishingSent, SMTT(60)
<1>5. Closed((sent \o e) \o (StopAll(q) \o Ending))
  BY <1>1, OpenCloses
<1>. QED BY <1>1, <1>4, <1>5

LEMMA TextPlain ==
    ASSUME Plain, Path, state = "TextContent", sent \in Seq(Events), number \in Nat,
           NEW c \in Chunk, Oddities(c) = {}
    PROVE  LET o == PushChunk(c) IN
           \/ o.state = "TextContent" /\ Open(sent \o o.events, "text", {0})
           \/ o.state = "Finished" /\ Closed(sent \o o.events)
<1>. HIDE DEF Events
<1>1. Open(sent, "text", {0}) /\ "text" \in said
  BY DEF Plain, Path
<1>2. c.delta \in {"none", "text"}
  <2>1. ~(c.delta = "tools" /\ "text" \in said)
    BY NoOddities
  <2>. QED BY <2>1, <1>1 DEF Chunk
<1>. DEFINE e == IF c.delta = "text" THEN TextEvents(c) ELSE <<>>
            q == <<0>>
<1>3. e \in Seq(Deltas("text", {0}))
  <2>1. TextEvents(c) \in Seq(Deltas("text", {0}))
    BY TextDeltas
  <2>. QED BY <2>1
<1>4. q \in Seq(Index) /\ Len(q) = 1 /\ q[1] = 0
  BY SseAssumption
<1>5. StopAll(q) = <<BlockStop(0)>>
  BY <1>4 DEF StopAll
<1>. HIDE DEF q
<1>6. Lists(q, {0})
  BY <1>4 DEF Lists
<1>7. PushChunk(c) = IF c.finish THEN Finishing(Outcome(e, "TextContent", <<>>), <<BlockStop(0)>>)
                     ELSE Outcome(e, "TextContent", <<>>)
  BY <1>2 DEF PushChunk, HandleText
<1>. HIDE DEF e
<1>8. /\ Open(sent \o e, "text", {0})
      /\ Finishing(Outcome(e, "TextContent", <<>>), StopAll(q)).state = "Finished"
      /\ Closed(sent \o Finishing(Outcome(e, "TextContent", <<>>), StopAll(q)).events)
  BY <1>1, <1>3, <1>4, <1>6, GoesOnPlain
<1>9. Outcome(e, "TextContent", <<>>).state = "TextContent" /\ Outcome(e, "TextContent", <<>>).events = e
  BY DEF Outcome
<1>10. CASE c.finish
  BY <1>5, <1>7, <1>8, <1>10
<1>11. CASE ~c.finish
  BY <1>7, <1>8, <1>9, <1>11
<1>. QED BY <1>10, <1>11

LEMMA ToolsPlain ==
    ASSUME Plain, Path, state = "ToolCalls", sent \in Seq(Events), number \in Nat,
           tool_indices \in Seq(Index),
           NEW c \in Chunk, Provides(c), Oddities(c) = {}
    PROVE  LET o == PushChunk(c) IN
           /\ \A k \in 1..Len(c.calls) : c.calls[k].index \in announced
           /\ \/ /\ o.state = "ToolCalls" /\ o.tools = tool_indices
                 /\ Open(sent \o o.events, "tool", announced)
              \/ o.state = "Finished" /\ Closed(sent \o o.events)
<1>. HIDE DEF Events
<1>1. Open(sent, "tool", announced) /\ Lists(tool_indices, announced) /\ "tools" \in said
  BY DEF Plain, Path
<1>2. c.calls \in Seq(Call)
  BY ChunkCalls
<1>3. \A k \in 1..Len(c.calls) : ~c.calls[k].named
  BY <1>1, NoOddities
<1>4. NamedOnce(c.calls)
  BY DEF Provides
<1>5. \A k \in 1..Len(c.calls) : c.calls[k].index \in announced
  BY <1>2, <1>3, <1>4, UnnamedAnnounced
<1>. DEFINE e == IF c.delta = "tools" THEN OpenUnknown(c.calls) ELSE <<>>
            o == Outcome(e, "ToolCalls", tool_indices)
<1>6. e \in Seq(Deltas("tool", announced))
  <2>1. OpenUnknown(c.calls) \in Seq(Deltas("tool", announced))
    BY <1>2, <1>3, <1>5, UnknownDeltas
  <2>. QED BY <2>1
<1>7. PushChunk(c) = IF c.finish THEN Finishing(o, StopAll(tool_indices)) ELSE o
  BY DEF PushChunk, HandleToolCalls
<1>8. o.state = "ToolCalls" /\ o.events = e /\ o.tools = tool_indices
  BY DEF Outcome
<1>. HIDE DEF e
<1>9. /\ Open(sent \o e, "tool", announced)
      /\ Finishing(Outcome(e, "ToolCalls", tool_indices), StopAll(tool_indices)).state = "Finished"
      /\ Closed(sent \o Finishing(Outcome(e, "ToolCalls", tool_indices), StopAll(tool_indices)).events)
  BY <1>1, <1>6, GoesOnPlain
<1>10. CASE c.finish
  BY <1>5, <1>7, <1>9, <1>10
<1>11. CASE ~c.finish
  BY <1>5, <1>7, <1>8, <1>9, <1>11
<1>. QED BY <1>10, <1>11

LEMMA ChunkPlain == IInv /\ KeptInv /\ PlainInv /\ PollChunk => PlainInv'
<1>. SUFFICES ASSUME IInv, KeptInv, PlainInv, PollChunk, odd' = {} PROVE Plain'
  BY DEF PlainInv
<1>. HIDE DEF Events
<1>1. PICK c \in Chunk : Provides(c) /\ Provide(c) /\ Translated(PushChunk(c))
  BY DEF PollChunk
<1>2. /\ state \in States /\ tool_indices \in Seq(Index) /\ sent \in Seq(Events) /\ number \in Nat
  BY GivenType DEF IInv, TranslatorType, BodyType
<1>3. Path
  BY DEF KeptInv
<1>. DEFINE o == PushChunk(c)
            J == {c.calls[k].index : k \in 1..Len(c.calls)}
<1>4. /\ state' = o.state /\ tool_indices' = o.tools /\ sent' = sent \o o.events
      /\ announced' = announced \cup J /\ odd' = odd \cup Oddities(c)
  BY <1>1 DEF Translated, Provide
<1>5. odd = {} /\ Oddities(c) = {}
  BY <1>4
<1>6. Plain
  BY <1>5 DEF PlainInv
<1>8. CASE state = "Initial"
  <2>1. sent = <<>> /\ announced = {}
    BY <1>6, <1>8 DEF Plain
  <2>2. \/ o.state = "TextContent" /\ Open(sent \o o.events, "text", {0})
        \/ /\ o.state = "ToolCalls" /\ Open(sent \o o.events, "tool", J) /\ Lists(o.tools, J)
    BY <1>1, <1>2, <1>5, <1>6, <1>8, <2>1, FirstPlain
  <2>. HIDE DEF o, J
  <2>3. announced' = J
    BY <2>1, <1>4
  <2>4. CASE o.state = "TextContent" /\ Open(sent \o o.events, "text", {0})
    <3>1. Open(sent', "text", {0})
      BY <2>4, <1>4
    <3>. QED BY <3>1, <2>4, <1>4 DEF Plain, Open, StartAt, DeltaAt
  <2>5. CASE o.state = "ToolCalls" /\ Open(sent \o o.events, "tool", J) /\ Lists(o.tools, J)
    <3>1. Open(sent', "tool", announced') /\ Lists(tool_indices', announced')
      BY <2>3, <2>5, <1>4
    <3>. QED BY <3>1, <2>5, <1>4 DEF Plain, Open, StartAt, DeltaAt, Lists
  <2>. QED BY <2>2, <2>4, <2>5
<1>9. CASE state = "TextContent"
  <2>1. \/ o.state = "TextContent" /\ Open(sent \o o.events, "text", {0})
        \/ o.state = "Finished" /\ Closed(sent \o o.events)
    BY <1>2, <1>3, <1>5, <1>6, <1>9, TextPlain
  <2>. HIDE DEF o
  <2>2. CASE o.state = "TextContent" /\ Open(sent \o o.events, "text", {0})
    <3>1. Open(sent', "text", {0})
      BY <2>2, <1>4
    <3>. QED BY <3>1, <2>2, <1>4 DEF Plain, Open, StartAt, DeltaAt
  <2>3. CASE o.state = "Finished" /\ Closed(sent \o o.events)
    <3>1. Closed(sent')
      BY <2>3, <1>4
    <3>. QED BY <3>1, <2>3, <1>4 DEF Plain, Closed, StartAt, StopAt, DeltaAt
  <2>. QED BY <2>1, <2>2, <2>3
<1>10. CASE state = "ToolCalls"
  <2>1. /\ \A k \in 1..Len(c.calls) : c.calls[k].index \in announced
        /\ \/ /\ o.state = "ToolCalls" /\ o.tools = tool_indices
              /\ Open(sent \o o.events, "tool", announced)
           \/ o.state = "Finished" /\ Closed(sent \o o.events)
    BY <1>1, <1>2, <1>3, <1>5, <1>6, <1>10, ToolsPlain
  <2>2. announced' = announced
    BY <2>1, <1>4
  <2>3. Lists(tool_indices, announced)
    BY <1>6, <1>10 DEF Plain
  <2>. HIDE DEF o
  <2>4. CASE o.state = "ToolCalls" /\ o.tools = tool_indices /\ Open(sent \o o.events, "tool", announced)
    <3>1. Open(sent', "tool", announced') /\ Lists(tool_indices', announced')
      BY <2>2, <2>3, <2>4, <1>4
    <3>. QED BY <3>1, <2>4, <1>4 DEF Plain, Open, StartAt, DeltaAt, Lists
  <2>5. CASE o.state = "Finished" /\ Closed(sent \o o.events)
    <3>1. Closed(sent')
      BY <2>5, <1>4
    <3>. QED BY <3>1, <2>5, <1>4 DEF Plain, Closed, StartAt, StopAt, DeltaAt
  <2>. QED BY <2>1, <2>4, <2>5
<1>11. CASE state = "Finished"
  <2>1. o.state = "Finished" /\ o.events = <<>>
    BY <1>11 DEF PushChunk, Outcome
  <2>. HIDE DEF o
  <2>2. sent \o <<>> = sent
    BY <1>2, ConcatEmptySeq
  <2>3. Closed(sent) /\ sent' = sent /\ state' = "Finished"
    BY <2>1, <2>2, <1>4, <1>6, <1>11 DEF Plain
  <2>4. Closed(sent')
    BY <2>3
  <2>. QED BY <2>3, <2>4 DEF Plain, Closed, StartAt, StopAt, DeltaAt
<1>. QED BY <1>2, <1>8, <1>9, <1>10, <1>11 DEF States

LEMMA FinishInnerPlain ==
    ASSUME IInv, PlainInv, Translated(FinishInner), UNCHANGED odd
    PROVE  PlainInv'
<1>. SUFFICES ASSUME odd' = {} PROVE Plain'
  BY DEF PlainInv
<1>. HIDE DEF Events
<1>1. state \in States /\ tool_indices \in Seq(Index) /\ sent \in Seq(Events)
  BY DEF IInv, TranslatorType, BodyType
<1>2. Plain
  BY DEF PlainInv
<1>3. Closed(sent \o FinishInner.events)
  BY <1>1, <1>2, FinishPlain
<1>4. sent' = sent \o FinishInner.events /\ state' = "Finished"
  BY DEF Translated, FinishInner, Outcome
<1>5. Closed(sent')
  BY <1>3, <1>4
<1>. QED BY <1>4, <1>5 DEF Plain, Closed, StartAt, StopAt, DeltaAt

LEMMA StepPlain == IInv /\ KeptInv /\ PlainInv /\ [Next]_vars => PlainInv'
<1>. SUFFICES ASSUME IInv, KeptInv, PlainInv, [Next]_vars PROVE PlainInv'
  OBVIOUS
<1>1. CASE PollChunk
  BY <1>1, ChunkPlain
<1>2. CASE PollDone
  <2>1. Translated(FinishInner) /\ UNCHANGED odd
    BY <1>2 DEF PollDone
  <2>. QED BY <2>1, FinishInnerPlain
<1>3. CASE PollEnd
  <2>1. Translated(FinishInner) /\ UNCHANGED odd
    BY <1>3 DEF PollEnd, provider
  <2>. QED BY <2>1, FinishInnerPlain
<1>4. CASE Drop \/ UNCHANGED vars
  <2>1. UNCHANGED <<sent, state, tool_indices, said, announced, odd>>
    BY <1>4 DEF Drop, vars, translator, provider
  <2>2. CASE odd = {}
    <3>1. Plain
      BY <2>2 DEF PlainInv
    <3>2. Plain'
      BY <2>1, <3>1 DEF Plain, Open, Closed, Lists, StartAt, StopAt, DeltaAt
    <3>. QED BY <3>2 DEF PlainInv
  <2>3. CASE odd # {}
    BY <2>1, <2>3 DEF PlainInv
  <2>. QED BY <2>2, <2>3
<1>. QED BY <1>1, <1>2, <1>3, <1>4 DEF Next

LEMMA InitPlain == Init => PlainInv
BY DEF Init, PlainInv, Plain

LEMMA WellFormedImplied == IInv /\ KeptInv /\ PlainInv => WellFormed
<1>. SUFFICES ASSUME IInv, KeptInv, PlainInv PROVE WellFormed
  OBVIOUS
<1>1. StoppedOnce
  BY StoppedImplied DEF IInv
<1>2. FragmentsKept
  BY KeptImplied
<1>3. odd = {} => Blocks
  BY PlainImplied
<1>. QED BY <1>1, <1>2, <1>3 DEF WellFormed, Blocks

-----------------------------------------------------------------------------
(* Selections *)

\* The elements of v at the places K up to n, in their order.
Chosen(v, K, n) == FlattenSeq([p \in 1..n |-> IF p \in K THEN <<v[p]>> ELSE <<>>])

\* To flatten a list of one sequence is to take it.
LEMMA FlattenOne ==
    ASSUME NEW S, NEW s \in Seq(S)
    PROVE  FlattenSeq(<<s>>) = s
<1>. DEFINE q == <<s>>
<1>1. q \in Seq(Seq(S)) /\ Len(q) = 1 /\ q[1] = s
  OBVIOUS
<1>. HIDE DEF q
<1>2. PICK g : Partials(g, q, S) /\ g[Len(q)] = FlattenSeq(q)
  BY <1>1, PartialsExist
<1>3. g[1] = g[1 - 1] \o q[1] /\ g[1 - 1] = <<>>
  <2>1. 1 \in 1..Len(q) /\ 1 - 1 = 0
    BY <1>1
  <2>. QED BY <2>1, <1>2 DEF Partials
<1>4. <<>> \o s = s
  BY ConcatEmptySeq
<1>. QED BY <1>1, <1>2, <1>3, <1>4 DEF q

\* What is chosen is of the type of what it is chosen from.
LEMMA ChosenType ==
    ASSUME NEW S, NEW v, NEW K, NEW n \in Nat, \A p \in 1..n : v[p] \in S
    PROVE  Chosen(v, K, n) \in Seq(S)
<1>. DEFINE q == [p \in 1..n |-> IF p \in K THEN <<v[p]>> ELSE <<>>]
<1>1. q \in Seq(Seq(S))
  OBVIOUS
<1>. QED BY <1>1, FlattenType DEF Chosen

\* One more place adds its element or nothing.
LEMMA ChosenStep ==
    ASSUME NEW v, NEW K, NEW n \in Nat
    PROVE  /\ n + 1 \in K => Chosen(v, K, n + 1) = Chosen(v, K, n) \o <<v[n + 1]>>
           /\ n + 1 \notin K => Chosen(v, K, n + 1) = Chosen(v, K, n)
<1>. DEFINE q == [p \in 1..n |-> IF p \in K THEN <<v[p]>> ELSE <<>>]
            e == IF n + 1 \in K THEN <<v[n + 1]>> ELSE <<>>
            r == [p \in 1..(n + 1) |-> IF p \in K THEN <<v[p]>> ELSE <<>>]
            S == {v[p] : p \in 1..(n + 1)}
<1>00. \A p \in 1..(n + 1) : v[p] \in S
  OBVIOUS
<1>. HIDE DEF S
<1>0. n + 1 \in 1..(n + 1) /\ \A p \in 1..n : p \in 1..(n + 1)
  OBVIOUS
<1>1. e \in Seq(S)
  BY <1>0, <1>00
<1>2. \A p \in 1..(n + 1) : (IF p \in K THEN <<v[p]>> ELSE <<>>) \in Seq(S)
  BY <1>00
<1>3. q \in Seq(Seq(S)) /\ Len(q) = n /\ r \in Seq(Seq(S)) /\ Len(r) = n + 1
  BY <1>0, <1>2
<1>4. \A p \in 1..n : r[p] = q[p]
  BY <1>0
<1>5. r[n + 1] = e
  BY <1>0
<1>6. Chosen(v, K, n) = FlattenSeq(q) /\ Chosen(v, K, n + 1) = FlattenSeq(r)
  BY DEF Chosen
<1>. HIDE DEF q, r, e
<1>. DEFINE T == Seq(S)
<1>7. <<e>> \in Seq(T) /\ Len(<<e>>) = 1 /\ <<e>>[1] = e
  BY <1>1
<1>8. /\ q \o <<e>> \in Seq(T) /\ Len(q \o <<e>>) = n + 1
      /\ \A i \in 1..(n + 1) : (q \o <<e>>)[i] = IF i <= n THEN q[i] ELSE <<e>>[i - n]
  <2>. HIDE DEF T
  <2>1. q \in Seq(T)
    BY <1>3 DEF T
  <2>. QED BY <2>1, <1>3, <1>7, ConcatProperties
<1>9. \A i \in 1..(n + 1) : r[i] = (q \o <<e>>)[i]
  <2>. SUFFICES ASSUME NEW i \in 1..(n + 1) PROVE r[i] = (q \o <<e>>)[i]
    OBVIOUS
  <2>1. CASE i <= n
    <3>1. i \in 1..n
      BY <2>1
    <3>. QED BY <3>1, <2>1, <1>4, <1>8
  <2>2. CASE ~(i <= n)
    <3>1. i = n + 1 /\ i - n = 1
      BY <2>2
    <3>2. (q \o <<e>>)[i] = <<e>>[i - n]
      BY <2>2, <1>8
    <3>. QED BY <3>1, <3>2, <1>5, <1>7
  <2>. QED BY <2>1, <2>2
<1>10. r = q \o <<e>>
  <2>. HIDE DEF T
  <2>1. r \in Seq(T)
    BY <1>3 DEF T
  <2>. QED BY <2>1, <1>3, <1>8, <1>9, SeqEqual
<1>11. FlattenSeq(q \o <<e>>) = FlattenSeq(q) \o FlattenSeq(<<e>>)
  BY <1>3, <1>7, FlattenConcat
<1>12. FlattenSeq(<<e>>) = e
  BY <1>1, FlattenOne
<1>13. FlattenSeq(q) \in Seq(S)
  BY <1>3, FlattenType
<1>14. Chosen(v, K, n) \in Seq(S) /\ Chosen(v, K, n + 1) = Chosen(v, K, n) \o e
  BY <1>6, <1>10, <1>11, <1>12, <1>13
<1>15. Chosen(v, K, n) \o <<>> = Chosen(v, K, n)
  BY <1>14, ConcatEmptySeq
<1>16. n + 1 \in K => e = <<v[n + 1]>>
  BY DEF e
<1>17. n + 1 \notin K => e = <<>>
  BY DEF e
<1>. QED BY <1>14, <1>15, <1>16, <1>17

\* pos names the places among 1..n that are in K, from the first to the last.
Places(pos, m, K, n) ==
    /\ m \in Nat /\ pos \in [1..m -> K \cap (1..n)]
    /\ \A j, k \in 1..m : j < k => pos[j] < pos[k]
    /\ \A p \in K \cap (1..n) : \E k \in 1..m : pos[k] = p

\* One list of places serves every sequence.
ChosenAt(pos, m, K, n) == \A v : Chosen(v, K, n) = [k \in 1..m |-> v[pos[k]]]

\* No place, no element.
LEMMA ChosenNone == ASSUME NEW v, NEW K PROVE Chosen(v, K, 0) = <<>>
<1>1. [p \in 1..0 |-> IF p \in K THEN <<v[p]>> ELSE <<>>] = <<>>
  OBVIOUS
<1>2. FlattenSeq(<<>>) = <<>>
  BY DEF FlattenSeq
<1>. QED BY <1>1, <1>2 DEF Chosen

\* Every choice has its list of places.
LEMMA ChosenPlaces ==
    ASSUME NEW n \in Nat, NEW K
    PROVE  \E m, pos : Places(pos, m, K, n) /\ ChosenAt(pos, m, K, n)
<1>. DEFINE Has(i) == \E m, pos : Places(pos, m, K, i) /\ ChosenAt(pos, m, K, i)
            T == {i \in Nat \ {0} : Has(i - 1)}
<1>1. 1 \in T
  <2>. DEFINE pos == [k \in 1..0 |-> 0]
  <2>1. Places(pos, 0, K, 0)
    BY DEF Places
  <2>2. ASSUME NEW v PROVE Chosen(v, K, 0) = [k \in 1..0 |-> v[pos[k]]]
    <3>1. [k \in 1..0 |-> v[pos[k]]] = <<>>
      OBVIOUS
    <3>. QED BY <3>1, ChosenNone
  <2>3. ChosenAt(pos, 0, K, 0)
    BY <2>2 DEF ChosenAt
  <2>. HIDE DEF pos
  <2>3a. Has(0)
    BY <2>1, <2>3
  <2>4. 1 - 1 = 0 /\ 1 \in Nat \ {0}
    OBVIOUS
  <2>. QED BY <2>3a, <2>4
<1>2. ASSUME NEW i \in Nat, Has(i) PROVE Has(i + 1)
  <2>1. PICK m, pos : Places(pos, m, K, i) /\ ChosenAt(pos, m, K, i)
    BY <1>2
  <2>1a. \A v : Chosen(v, K, i) = [k \in 1..m |-> v[pos[k]]]
    BY <2>1 DEF ChosenAt
  <2>2. /\ m \in Nat /\ pos \in [1..m -> K \cap (1..i)]
        /\ \A j, k \in 1..m : j < k => pos[j] < pos[k]
        /\ \A p \in K \cap (1..i) : \E k \in 1..m : pos[k] = p
    BY <2>1 DEF Places
  <2>3. \A p \in 1..i : p \in 1..(i + 1)
    OBVIOUS
  <2>4. \A p \in 1..(i + 1) : p \in 1..i \/ p = i + 1
    OBVIOUS
  <2>5. CASE i + 1 \notin K
    <3>1. K \cap (1..(i + 1)) = K \cap (1..i)
      BY <2>3, <2>4, <2>5
    <3>2. Places(pos, m, K, i + 1)
      BY <3>1, <2>1 DEF Places
    <3>3. ASSUME NEW v PROVE Chosen(v, K, i + 1) = [k \in 1..m |-> v[pos[k]]]
      <4>1. Chosen(v, K, i + 1) = Chosen(v, K, i)
        BY <2>5, ChosenStep
      <4>. QED BY <4>1, <2>1a
    <3>4. ChosenAt(pos, m, K, i + 1)
      BY <3>3 DEF ChosenAt
    <3>. QED BY <3>2, <3>4
  <2>6. CASE i + 1 \in K
    <3>. DEFINE to == [k \in 1..(m + 1) |-> IF k = m + 1 THEN i + 1 ELSE pos[k]]
    <3>1. \A k \in 1..m : to[k] = pos[k] /\ k \in 1..(m + 1)
      BY <2>2
    <3>2. to[m + 1] = i + 1 /\ m + 1 \in 1..(m + 1)
      BY <2>2
    <3>3. \A k \in 1..(m + 1) : k \in 1..m \/ k = m + 1
      BY <2>2
    <3>4. to \in [1..(m + 1) -> K \cap (1..(i + 1))]
      <4>1. ASSUME NEW k \in 1..(m + 1) PROVE to[k] \in K \cap (1..(i + 1))
        <5>. HIDE DEF to
        <5>1. i + 1 \in 1..(i + 1)
          OBVIOUS
        <5>. QED BY <5>1, <3>1, <3>2, <3>3, <2>2, <2>3, <2>6
      <4>2. to = [k \in 1..(m + 1) |-> to[k]]
        OBVIOUS
      <4>. HIDE DEF to
      <4>. QED BY <4>1, <4>2
    <3>. HIDE DEF to
    <3>5. ASSUME NEW j \in 1..(m + 1), NEW k \in 1..(m + 1), j < k PROVE to[j] < to[k]
      <4>1. j \in 1..m
        BY <3>5, <2>2
      <4>2. CASE k \in 1..m
        BY <4>1, <4>2, <3>1, <3>5, <2>2
      <4>3. CASE k = m + 1
        <5>1. pos[j] \in 1..i
          BY <4>1, <2>2
        <5>. QED BY <5>1, <4>1, <4>3, <3>1, <3>2
      <4>. QED BY <4>2, <4>3, <3>3
    <3>6. ASSUME NEW p \in K \cap (1..(i + 1)) PROVE \E k \in 1..(m + 1) : to[k] = p
      <4>1. CASE p = i + 1
        BY <4>1, <3>2
      <4>2. CASE p \in 1..i
        <5>1. PICK k \in 1..m : pos[k] = p
          BY <4>2, <2>2
        <5>. QED BY <5>1, <3>1
      <4>. QED BY <4>1, <4>2, <2>4
    <3>7. Places(to, m + 1, K, i + 1)
      BY <2>2, <3>4, <3>5, <3>6 DEF Places
    <3>8. ASSUME NEW v PROVE Chosen(v, K, i + 1) = [k \in 1..(m + 1) |-> v[to[k]]]
      <4>. DEFINE S == {v[p] : p \in 1..(i + 1)}
                  a == [k \in 1..m |-> v[pos[k]]]
                  b == [k \in 1..(m + 1) |-> v[to[k]]]
                  e == v[i + 1]
      <4>0. \A p \in 1..(i + 1) : v[p] \in S
        OBVIOUS
      <4>. HIDE DEF S
      <4>1. Chosen(v, K, i + 1) = Chosen(v, K, i) \o <<e>>
        BY <2>6, ChosenStep
      <4>2. Chosen(v, K, i) \in Seq(S)
        BY <4>0, <2>3, ChosenType
      <4>3. Chosen(v, K, i) = a
        BY <2>1a
      <4>4. a \in Seq(S) /\ Len(a) = m /\ \A k \in 1..m : a[k] = v[pos[k]]
        BY <4>2, <4>3, <2>2
      <4>5. \A k \in 1..(m + 1) : v[to[k]] \in S
        BY <3>4, <4>0
      <4>6. b \in Seq(S) /\ Len(b) = m + 1 /\ \A k \in 1..(m + 1) : b[k] = v[to[k]]
        BY <4>5, <2>2
      <4>7. e \in S /\ e = v[i + 1]
        BY <4>0
      <4>. HIDE DEF a, b, e
      <4>8. /\ a \o <<e>> \in Seq(S) /\ Len(a \o <<e>>) = m + 1
            /\ \A k \in 1..m : (a \o <<e>>)[k] = a[k]
            /\ (a \o <<e>>)[m + 1] = e
        BY <4>4, <4>7
      <4>9. ASSUME NEW k \in 1..(m + 1) PROVE b[k] = (a \o <<e>>)[k]
        <5>1. CASE k \in 1..m
          <6>1. to[k] = pos[k] /\ a[k] = v[pos[k]] /\ (a \o <<e>>)[k] = a[k]
            BY <5>1, <4>4, <4>8, <3>1
          <6>. QED BY <6>1, <4>6
        <5>2. CASE k = m + 1
          BY <5>2, <4>6, <4>7, <4>8, <3>2
        <5>. QED BY <5>1, <5>2, <3>3
      <4>10. b = a \o <<e>>
        BY <4>6, <4>8, <4>9, SeqEqual
      <4>. QED BY <4>1, <4>3, <4>10 DEF b
    <3>9. ChosenAt(to, m + 1, K, i + 1)
      BY <3>8 DEF ChosenAt
    <3>. QED BY <3>7, <3>9
  <2>. QED BY <2>5, <2>6
<1>3. ASSUME NEW i \in 1..(n + 1), i \in T, i + 1 \in 1..(n + 1) PROVE i + 1 \in T
  <2>1. i - 1 \in Nat /\ (i - 1) + 1 = (i + 1) - 1 /\ i + 1 \in Nat \ {0}
    BY <1>3
  <2>2. Has(i - 1)
    BY <1>3
  <2>. HIDE DEF Has
  <2>3. Has((i - 1) + 1)
    BY <2>1, <2>2, <1>2
  <2>. QED BY <2>1, <2>3
<1>4. 1..(n + 1) \subseteq T
  <2>. HIDE DEF T
  <2>. QED BY <1>1, <1>3, IntervalInduction
<1>5. n + 1 \in 1..(n + 1) /\ (n + 1) - 1 = n
  OBVIOUS
<1>6. Has(n)
  <2>. HIDE DEF Has
  <2>. QED BY <1>4, <1>5
<1>. QED BY <1>6

\* Where every place is chosen nothing is left out.
LEMMA ChosenAll ==
    ASSUME NEW S, NEW v \in Seq(S), NEW K, 1..Len(v) \subseteq K
    PROVE  Chosen(v, K, Len(v)) = v
<1>. DEFINE n == Len(v)
            T == {i \in Nat \ {0} : i <= n + 1 /\ Chosen(v, K, i - 1) = [p \in 1..(i - 1) |-> v[p]]}
<1>1. n \in Nat /\ \A p \in 1..n : v[p] \in S
  OBVIOUS
<1>2. 1 \in T
  <2>1. [p \in 1..0 |-> v[p]] = <<>>
    OBVIOUS
  <2>2. Chosen(v, K, 0) = [p \in 1..0 |-> v[p]]
    BY <2>1, ChosenNone
  <2>3. 1 - 1 = 0 /\ 1 \in Nat \ {0} /\ 1 <= n + 1
    BY <1>1
  <2>. QED BY <2>2, <2>3
<1>3. ASSUME NEW i \in 1..(n + 1), i \in T, i + 1 \in 1..(n + 1) PROVE i + 1 \in T
  <2>. DEFINE j == i - 1
              a == [p \in 1..j |-> v[p]]
              b == [p \in 1..(j + 1) |-> v[p]]
  <2>1. j \in Nat /\ j + 1 = (i + 1) - 1 /\ i + 1 \in Nat \ {0} /\ j + 1 \in K /\ i + 1 <= n + 1
        /\ \A p \in 1..(j + 1) : v[p] \in S
    BY <1>1, <1>3
  <2>2. Chosen(v, K, j) = a
    BY <1>3
  <2>. HIDE DEF j
  <2>3. Chosen(v, K, j + 1) = Chosen(v, K, j) \o <<v[j + 1]>>
    BY <2>1, ChosenStep
  <2>4. /\ a \in Seq(S) /\ Len(a) = j /\ b \in Seq(S) /\ Len(b) = j + 1
        /\ \A p \in 1..j : a[p] = v[p] /\ b[p] = v[p]
        /\ b[j + 1] = v[j + 1] /\ v[j + 1] \in S
    BY <2>1
  <2>. HIDE DEF a, b
  <2>5. b = a \o <<v[j + 1]>>
    <3>. DEFINE e == v[j + 1]
    <3>1. e \in S /\ b[j + 1] = e
      BY <2>4
    <3>. HIDE DEF e
    <3>2. /\ a \o <<e>> \in Seq(S) /\ Len(a \o <<e>>) = j + 1
          /\ \A k \in 1..j : (a \o <<e>>)[k] = a[k]
          /\ (a \o <<e>>)[j + 1] = e
      BY <3>1, <2>1, <2>4
    <3>3. \A k \in 1..(j + 1) : k \in 1..j \/ k = j + 1
      BY <2>1
    <3>4. \A k \in 1..(j + 1) : b[k] = (a \o <<e>>)[k]
      BY <3>1, <3>2, <3>3, <2>4
    <3>5. b = a \o <<e>>
      BY <3>2, <3>4, <2>4, SeqEqual
    <3>. QED BY <3>5 DEF e
  <2>6. Chosen(v, K, j + 1) = b
    BY <2>2, <2>3, <2>5
  <2>. QED BY <2>1, <2>6 DEF b
<1>4. 1..(n + 1) \subseteq T
  <2>1. n + 1 \in Nat
    BY <1>1
  <2>. HIDE DEF T, n
  <2>. QED BY <2>1, <1>2, <1>3, IntervalInduction
<1>5. n + 1 \in 1..(n + 1) /\ (n + 1) - 1 = n
  BY <1>1
<1>6. Chosen(v, K, n) = [p \in 1..n |-> v[p]]
  BY <1>4, <1>5
<1>7. v = [p \in 1..n |-> v[p]]
  OBVIOUS
<1>. QED BY <1>6, <1>7

\* Where no place is chosen nothing is left.
LEMMA ChosenNothing ==
    ASSUME NEW n \in Nat, NEW v, NEW K, K \cap (1..n) = {}
    PROVE  Chosen(v, K, n) = <<>>
<1>1. PICK m, pos : Places(pos, m, K, n) /\ ChosenAt(pos, m, K, n)
  BY ChosenPlaces
<1>2. m = 0
  <2>1. m \in Nat /\ pos \in [1..m -> {}]
    BY <1>1 DEF Places
  <2>2. CASE m # 0
    <3>1. 1 \in 1..m
      BY <2>1, <2>2
    <3>. QED BY <3>1, <2>1
  <2>. QED BY <2>2
<1>4. Chosen(v, K, n) = [k \in 1..m |-> v[pos[k]]]
  BY <1>1 DEF ChosenAt
<1>. QED BY <1>2, <1>4

\* h collects from an element of s what g collects from what f does.
Composes(s, f, g, h, E, S, U) ==
    /\ s \in Seq(E) /\ f \in [E -> Seq(S)] /\ g \in [S -> Seq(U)]
    /\ \A p \in 1..Len(s) : Collect(f[s[p]], g) = h[s[p]]

\* To collect from what was collected is to collect once.
LEMMA CollectTwice ==
    ASSUME NEW s, NEW f, NEW g, NEW h, NEW E, NEW S, NEW U, Composes(s, f, g, h, E, S, U)
    PROVE  Collect(Collect(s, f), g) = Collect(s, h)
<1>0. /\ s \in Seq(E) /\ f \in [E -> Seq(S)] /\ g \in [S -> Seq(U)]
      /\ \A p \in 1..Len(s) : Collect(f[s[p]], g) = h[s[p]]
  BY DEF Composes
<1>. DEFINE n == Len(s)
            q == [p \in 1..n |-> f[s[p]]]
<1>1. q \in Seq(Seq(S))
  BY <1>0, CollectType
<1>2. Collect(FlattenSeq(q), g) = FlattenSeq([k \in 1..Len(q) |-> Collect(q[k], g)])
  <2>. HIDE DEF q
  <2>. QED BY <1>0, <1>1, CollectFlatten, ZenonT(60)
<1>3. 1..Len(q) = 1..n
  <2>1. DOMAIN q = 1..n
    OBVIOUS
  <2>2. DOMAIN q = 1..Len(q)
    <3>. HIDE DEF q
    <3>. QED BY <1>1
  <2>. QED BY <2>1, <2>2
<1>4. [k \in 1..Len(q) |-> Collect(q[k], g)] = [p \in 1..n |-> h[s[p]]]
  <2>1. \A p \in 1..n : q[p] = f[s[p]]
    OBVIOUS
  <2>2. \A p \in 1..n : Collect(f[s[p]], g) = h[s[p]]
    BY <1>0
  <2>. HIDE DEF q, n
  <2>. QED BY <2>1, <2>2, <1>3
<1>5. Collect(s, f) = FlattenSeq(q) /\ Collect(s, h) = FlattenSeq([p \in 1..n |-> h[s[p]]])
  BY DEF Collect
<1>. QED BY <1>2, <1>4, <1>5

-----------------------------------------------------------------------------
(* Deltas and fragments *)

\* The fragments of an index: in an event, in a fragment, in one of a call.
DeltaAtIndex(i) == [e \in Events |-> IF e.ev = "content_block_delta" /\ e.index = i THEN <<e.of>> ELSE <<>>]
PieceAtIndex(i) == [f \in Pieces |-> IF f.index = i THEN <<f>> ELSE <<>>]
ToolAtIndex(i) == [f \in Pieces |-> IF f.kind = "tool" /\ f.index = i THEN <<f>> ELSE <<>>]

LEMMA AtIndexType ==
    ASSUME NEW i
    PROVE  /\ PieceAtIndex(i) \in [Pieces -> Seq(Pieces)] /\ ToolAtIndex(i) \in [Pieces -> Seq(Pieces)]
           /\ DeltaAtIndex(i) \in [Events -> Seq(Pieces)]
<1>1. ASSUME NEW e \in Events
      PROVE  (IF e.ev = "content_block_delta" /\ e.index = i THEN <<e.of>> ELSE <<>>) \in Seq(Pieces)
  <2>1. CASE e.ev = "content_block_delta"
    <3>1. e.of \in Pieces
      BY <2>1, DeltaEvent
    <3>. HIDE DEF Pieces
    <3>2. <<e.of>> \in Seq(Pieces) /\ <<>> \in Seq(Pieces)
      BY <3>1
    <3>. QED BY <3>2
  <2>2. CASE e.ev # "content_block_delta"
    BY <2>2
  <2>. QED BY <2>1, <2>2
<1>. HIDE DEF Events, Pieces
<1>2. DeltaAtIndex(i) \in [Events -> Seq(Pieces)]
  BY <1>1 DEF DeltaAtIndex
<1>. QED BY <1>2 DEF PieceAtIndex, ToolAtIndex

\* What the agent assembles under an index, and what the provider sent under it.
LEMMA FragmentsCollected ==
    ASSUME sent \in Seq(Events), given \in Seq(Pieces)
    PROVE  \A kind : /\ Fragments(kind) = Collect(sent, DeltaOf(kind))
                     /\ Given(kind) = Collect(given, PieceOf(kind))
<1>. HIDE DEF Events, Pieces
<1>1. ASSUME NEW kind
      PROVE  Fragments(kind) = Collect(sent, DeltaOf(kind)) /\ Given(kind) = Collect(given, PieceOf(kind))
  BY Collected DEF Fragments, Given, At
<1>. QED BY <1>1

\* What the agent assembles under an index is collected from the events.
LEMMA DeltasCollected ==
    ASSUME sent \in Seq(Events), NEW i
    PROVE  DeltasOf(i) = Collect(sent, DeltaAtIndex(i))
<1>. DEFINE n == Len(sent)
            K == {p \in 1..n : sent[p].ev = "content_block_delta" /\ sent[p].index = i}
            of == [p \in 1..n |-> sent[p].of]
            sel == Filtered(sent, LAMBDA e : e.ev = "content_block_delta" /\ e.index = i)
<1>. HIDE DEF Events
<1>1. n \in Nat /\ \A p \in 1..n : sent[p] \in Events
  OBVIOUS
<1>2. sel = Chosen(sent, K, n)
  BY DEF Filtered, Chosen
<1>3. DeltasOf(i) = [k \in 1..Len(sel) |-> sel[k].of]
  BY DEF DeltasOf, Mapped
<1>4. Collect(sent, DeltaAtIndex(i)) = Chosen(of, K, n)
  <2>1. \A p \in 1..n : DeltaAtIndex(i)[sent[p]] = IF p \in K THEN <<of[p]>> ELSE <<>>
    BY <1>1 DEF DeltaAtIndex
  <2>. HIDE DEF K, of
  <2>. QED BY <2>1 DEF Collect, Chosen
<1>. HIDE DEF sel, K, n
<1>5. PICK m, pos : Places(pos, m, K, n) /\ ChosenAt(pos, m, K, n)
  BY <1>1, ChosenPlaces
<1>6. sel = [k \in 1..m |-> sent[pos[k]]] /\ Chosen(of, K, n) = [k \in 1..m |-> of[pos[k]]]
  BY <1>2, <1>5 DEF ChosenAt
<1>7. m \in Nat /\ \A k \in 1..m : pos[k] \in 1..n
  BY <1>5 DEF Places
<1>8. Len(sel) = m /\ \A k \in 1..m : sel[k].of = of[pos[k]]
  <2>1. \A p \in 1..n : of[p] = sent[p].of
    OBVIOUS
  <2>. HIDE DEF of
  <2>2. Len(sel) = m /\ \A k \in 1..m : sel[k] = sent[pos[k]]
    BY <1>6, <1>7
  <2>. QED BY <2>1, <2>2, <1>7
<1>9. DeltasOf(i) = [k \in 1..m |-> of[pos[k]]]
  <2>. HIDE DEF of
  <2>. QED BY <1>3, <1>8
<1>. HIDE DEF of
<1>. QED BY <1>4, <1>6, <1>9

\* The arguments of a call are collected from what the provider gave.
LEMMA ArgumentsCollected ==
    ASSUME given \in Seq(Pieces), NEW i
    PROVE  ArgumentsOf(i) = Collect(given, ToolAtIndex(i))
<1>. HIDE DEF Pieces
<1>1. \A p \in 1..Len(given) :
          ToolAtIndex(i)[given[p]] = IF given[p].kind = "tool" /\ given[p].index = i THEN <<given[p]>> ELSE <<>>
  <2>1. \A p \in 1..Len(given) : given[p] \in Pieces
    OBVIOUS
  <2>. QED BY <2>1 DEF ToolAtIndex
<1>2. ArgumentsOf(i) = FlattenSeq([p \in 1..Len(given) |->
                           IF given[p].kind = "tool" /\ given[p].index = i THEN <<given[p]>> ELSE <<>>])
  BY DEF ArgumentsOf, Filtered
<1>. QED BY <1>1, <1>2 DEF Collect

\* The arguments of every call reach the agent under its index.
LEMMA ArgumentsArrive ==
    ASSUME sent \in Seq(Events), given \in Seq(Pieces), Kept, NEW i,
           \A p \in 1..Len(sent) : DeltaAt(sent, p) => sent[p].of.kind = "tool"
    PROVE  DeltasOf(i) = ArgumentsOf(i)
<1>. HIDE DEF Events, Pieces
<1>1. Collect(sent, DeltaOf("tool")) = Collect(given, PieceOf("tool"))
  BY DEF Kept
<1>2. \A f \in Pieces : Collect(<<f>>, PieceAtIndex(i)) = IF f.index = i THEN <<f>> ELSE <<>>
  <2>. SUFFICES ASSUME NEW f \in Pieces PROVE Collect(<<f>>, PieceAtIndex(i)) = IF f.index = i THEN <<f>> ELSE <<>>
    OBVIOUS
  <2>1. Collect(<<f>>, PieceAtIndex(i)) = PieceAtIndex(i)[f]
    <3>1. PieceAtIndex(i) \in [Pieces -> Seq(Pieces)]
      BY AtIndexType
    <3>. QED BY <3>1, CollectOne
  <2>. QED BY <2>1 DEF PieceAtIndex
<1>3. Collect(<<>>, PieceAtIndex(i)) = <<>>
  BY CollectNone
<1>4. ASSUME NEW p \in 1..Len(sent)
      PROVE  Collect(DeltaOf("tool")[sent[p]], PieceAtIndex(i)) = DeltaAtIndex(i)[sent[p]]
  <2>1. sent[p] \in Events
    OBVIOUS
  <2>2. CASE sent[p].ev = "content_block_delta"
    <3>1. PICK f \in Pieces : sent[p] = BlockDelta(f) /\ sent[p].of = f /\ sent[p].index = f.index
      BY <2>1, <2>2, DeltaEvent
    <3>2. f.kind = "tool"
      BY <2>2, <3>1 DEF DeltaAt
    <3>3. DeltaOf("tool")[sent[p]] = <<f>>
      BY <2>1, <2>2, <3>1, <3>2 DEF DeltaOf
    <3>4. DeltaAtIndex(i)[sent[p]] = IF f.index = i THEN <<f>> ELSE <<>>
      BY <2>1, <2>2, <3>1 DEF DeltaAtIndex
    <3>. QED BY <3>3, <3>4, <1>2
  <2>3. CASE sent[p].ev # "content_block_delta"
    BY <2>1, <2>3, <1>3 DEF DeltaOf, DeltaAtIndex
  <2>. QED BY <2>2, <2>3
<1>5. ASSUME NEW p \in 1..Len(given)
      PROVE  Collect(PieceOf("tool")[given[p]], PieceAtIndex(i)) = ToolAtIndex(i)[given[p]]
  <2>1. given[p] \in Pieces
    OBVIOUS
  <2>. QED BY <2>1, <1>2, <1>3 DEF PieceOf, ToolAtIndex
<1>6. Collect(Collect(sent, DeltaOf("tool")), PieceAtIndex(i)) = Collect(sent, DeltaAtIndex(i))
  <2>1. DeltaOf("tool") \in [Events -> Seq(Pieces)] /\ PieceAtIndex(i) \in [Pieces -> Seq(Pieces)]
    BY DeltaOfType, AtIndexType
  <2>. DEFINE f == DeltaOf("tool")  g == PieceAtIndex(i)  h == DeltaAtIndex(i)  s == sent
  <2>2. Composes(s, f, g, h, Events, Pieces, Pieces)
    BY <2>1, <1>4 DEF Composes
  <2>. HIDE DEF f, g, h, s
  <2>3. Collect(Collect(s, f), g) = Collect(s, h)
    BY <2>2, CollectTwice
  <2>. QED BY <2>3 DEF f, g, h, s
<1>7. Collect(Collect(given, PieceOf("tool")), PieceAtIndex(i)) = Collect(given, ToolAtIndex(i))
  <2>1. PieceOf("tool") \in [Pieces -> Seq(Pieces)] /\ PieceAtIndex(i) \in [Pieces -> Seq(Pieces)]
    BY PieceOfType, AtIndexType
  <2>. DEFINE f == PieceOf("tool")  g == PieceAtIndex(i)  h == ToolAtIndex(i)  s == given
  <2>2. Composes(s, f, g, h, Pieces, Pieces, Pieces)
    BY <2>1, <1>5 DEF Composes
  <2>. HIDE DEF f, g, h, s
  <2>3. Collect(Collect(s, f), g) = Collect(s, h)
    BY <2>2, CollectTwice
  <2>. QED BY <2>3 DEF f, g, h, s
<1>. QED BY <1>1, <1>6, <1>7, DeltasCollected, ArgumentsCollected

\* The text reaches the agent in the only block there is.
LEMMA TextArrives ==
    ASSUME sent \in Seq(Events), given \in Seq(Pieces), Kept, "textAfterTools" \notin odd,
           \A p \in 1..Len(sent) : DeltaAt(sent, p) => sent[p].of.kind = "text" /\ sent[p].index = 0
    PROVE  DeltasOf(0) = Given("text")
<1>. HIDE DEF Events, Pieces
<1>1. ASSUME NEW p \in 1..Len(sent) PROVE DeltaOf("text")[sent[p]] = DeltaAtIndex(0)[sent[p]]
  <2>1. sent[p] \in Events
    OBVIOUS
  <2>. QED BY <2>1 DEF DeltaOf, DeltaAtIndex, DeltaAt
<1>2. Collect(sent, DeltaOf("text")) = Collect(sent, DeltaAtIndex(0))
  BY <1>1 DEF Collect
<1>3. Given("text") = Collect(given, PieceOf("text"))
  <2>1. \A kind : Given(kind) = Collect(given, PieceOf(kind))
    BY FragmentsCollected
  <2>. QED BY <2>1
<1>. QED BY <1>2, <1>3, DeltasCollected DEF Kept

\* Where the agent was sent no text the provider gave none.
LEMMA NoTextGiven ==
    ASSUME sent \in Seq(Events), given \in Seq(Pieces), Kept, "textAfterTools" \notin odd,
           \A p \in 1..Len(sent) : DeltaAt(sent, p) => sent[p].of.kind # "text"
    PROVE  Given("text") = <<>>
<1>. HIDE DEF Events, Pieces
<1>1. ASSUME NEW p \in 1..Len(sent) PROVE DeltaOf("text")[sent[p]] = <<>>
  <2>1. sent[p] \in Events
    OBVIOUS
  <2>. QED BY <2>1 DEF DeltaOf, DeltaAt
<1>2. Collect(sent, DeltaOf("text")) = <<>>
  BY <1>1, CollectNothing
<1>3. Given("text") = Collect(given, PieceOf("text"))
  <2>1. \A kind : Given(kind) = Collect(given, PieceOf(kind))
    BY FragmentsCollected
  <2>. QED BY <2>1
<1>. QED BY <1>2, <1>3 DEF Kept

-----------------------------------------------------------------------------
(* Events that open and fill blocks, mixed replies excluded *)

\* The events have opened the blocks of these indices, one each, and all they carry
\* is of their kind.
Filled(s, kind, indices) ==
    /\ \A p \in 1..Len(s) : StartAt(s, p) => s[p].kind = kind /\ s[p].index \in indices
    /\ \A i \in indices : \E p \in 1..Len(s) : StartAt(s, p) /\ s[p].index = i
    /\ \A p, q \in 1..Len(s) : StartAt(s, p) /\ StartAt(s, q) /\ s[p].index = s[q].index => p = q
    /\ \A p \in 1..Len(s) : DeltaAt(s, p) =>
           s[p].of.kind = kind /\ (kind = "text" => s[p].index = 0)

\* Events that neither open a block nor fill one.
Bare(s) == \A p \in 1..Len(s) : ~StartAt(s, p) /\ ~DeltaAt(s, p)

\* Such events fill no block.
LEMMA BareFilled == ASSUME NEW s, Bare(s), NEW kind PROVE Filled(s, kind, {})
BY DEF Bare, Filled

\* Events that open different blocks, one list after the other.
LEMMA FilledConcat ==
    ASSUME NEW s \in Seq(Events), NEW t \in Seq(Events), NEW kind, NEW A, NEW B,
           Filled(s, kind, A), Filled(t, kind, B), A \cap B = {}
    PROVE  s \o t \in Seq(Events) /\ Filled(s \o t, kind, A \cup B)
<1>. DEFINE n == Len(s)  m == Len(t)  u == s \o t
<1>. HIDE DEF Events
<1>1. /\ u \in Seq(Events) /\ n \in Nat /\ m \in Nat /\ Len(u) = n + m
      /\ \A p \in 1..(n + m) : u[p] = IF p <= n THEN s[p] ELSE t[p - n]
  BY ConcatProperties
<1>2. \A p \in 1..n : p \in 1..(n + m) /\ u[p] = s[p]
  BY <1>1
<1>3. \A p \in 1..m : p + n \in 1..(n + m) /\ u[p + n] = t[p]
  <2>. SUFFICES ASSUME NEW p \in 1..m PROVE p + n \in 1..(n + m) /\ u[p + n] = t[p]
    OBVIOUS
  <2>1. p + n \in 1..(n + m) /\ ~(p + n <= n) /\ (p + n) - n = p
    BY <1>1
  <2>2. u[p + n] = t[(p + n) - n]
    BY <2>1, <1>1
  <2>. QED BY <2>1, <2>2
<1>4. \A p \in 1..(n + m) : p \in 1..n \/ \E k \in 1..m : p = k + n
  <2>. SUFFICES ASSUME NEW p \in 1..(n + m), p \notin 1..n PROVE \E k \in 1..m : p = k + n
    OBVIOUS
  <2>1. p - n \in 1..m /\ p = (p - n) + n
    BY <1>1
  <2>. QED BY <2>1
<1>5. \A p \in 1..n : (StartAt(u, p) <=> StartAt(s, p)) /\ (DeltaAt(u, p) <=> DeltaAt(s, p))
  BY <1>2 DEF StartAt, DeltaAt
<1>6. \A p \in 1..m : (StartAt(u, p + n) <=> StartAt(t, p)) /\ (DeltaAt(u, p + n) <=> DeltaAt(t, p))
  BY <1>3 DEF StartAt, DeltaAt
<1>. HIDE DEF n, m, u
<1>7. /\ \A p \in 1..n : StartAt(s, p) => s[p].kind = kind /\ s[p].index \in A
      /\ \A i \in A : \E p \in 1..n : StartAt(s, p) /\ s[p].index = i
      /\ \A p, q \in 1..n : StartAt(s, p) /\ StartAt(s, q) /\ s[p].index = s[q].index => p = q
      /\ \A p \in 1..n : DeltaAt(s, p) => s[p].of.kind = kind /\ (kind = "text" => s[p].index = 0)
  BY DEF Filled, n
<1>8. /\ \A p \in 1..m : StartAt(t, p) => t[p].kind = kind /\ t[p].index \in B
      /\ \A i \in B : \E p \in 1..m : StartAt(t, p) /\ t[p].index = i
      /\ \A p, q \in 1..m : StartAt(t, p) /\ StartAt(t, q) /\ t[p].index = t[q].index => p = q
      /\ \A p \in 1..m : DeltaAt(t, p) => t[p].of.kind = kind /\ (kind = "text" => t[p].index = 0)
  BY DEF Filled, m
<1>9. ASSUME NEW p \in 1..(n + m), StartAt(u, p)
      PROVE  /\ u[p].kind = kind /\ u[p].index \in A \cup B
             /\ p \in 1..n => u[p].index \in A
             /\ p \notin 1..n => u[p].index \in B
  <2>1. CASE p \in 1..n
    BY <2>1, <1>2, <1>5, <1>7, <1>9
  <2>2. CASE p \notin 1..n
    <3>1. PICK k \in 1..m : p = k + n
      BY <2>2, <1>4
    <3>. QED BY <3>1, <2>2, <1>3, <1>6, <1>8, <1>9
  <2>. QED BY <2>1, <2>2
<1>10. ASSUME NEW i \in A \cup B PROVE \E p \in 1..(n + m) : StartAt(u, p) /\ u[p].index = i
  <2>1. CASE i \in A
    BY <2>1, <1>2, <1>5, <1>7
  <2>2. CASE i \in B
    <3>1. PICK k \in 1..m : StartAt(t, k) /\ t[k].index = i
      BY <2>2, <1>8
    <3>. QED BY <3>1, <1>3, <1>6
  <2>. QED BY <2>1, <2>2
<1>11. ASSUME NEW p \in 1..(n + m), NEW q \in 1..(n + m), StartAt(u, p), StartAt(u, q), u[p].index = u[q].index
       PROVE  p = q
  <2>1. CASE p \in 1..n /\ q \in 1..n
    BY <2>1, <1>2, <1>5, <1>7, <1>11
  <2>2. CASE p \notin 1..n /\ q \notin 1..n
    <3>1. PICK j \in 1..m : p = j + n
      BY <2>2, <1>4
    <3>2. PICK k \in 1..m : q = k + n
      BY <2>2, <1>4
    <3>3. StartAt(t, j) /\ StartAt(t, k) /\ t[j].index = t[k].index
      BY <3>1, <3>2, <1>3, <1>6, <1>11
    <3>4. j = k
      BY <3>3, <1>8
    <3>. QED BY <3>1, <3>2, <3>4
  <2>3. CASE (p \in 1..n) # (q \in 1..n)
    BY <2>3, <1>9, <1>11
  <2>. QED BY <2>1, <2>2, <2>3
<1>12. ASSUME NEW p \in 1..(n + m), DeltaAt(u, p)
       PROVE  u[p].of.kind = kind /\ (kind = "text" => u[p].index = 0)
  <2>1. CASE p \in 1..n
    BY <2>1, <1>2, <1>5, <1>7, <1>12
  <2>2. CASE p \notin 1..n
    <3>1. PICK k \in 1..m : p = k + n
      BY <2>2, <1>4
    <3>. QED BY <3>1, <1>3, <1>6, <1>8, <1>12
  <2>. QED BY <2>1, <2>2
<1>13. Filled(u, kind, A \cup B)
  <2>1. Len(u) = n + m
    BY <1>1
  <2>. QED BY <2>1, <1>9, <1>10, <1>11, <1>12 DEF Filled
<1>. QED BY <1>1, <1>13 DEF u

\* A start and a fragment alone.
LEMMA FilledOne ==
    /\ \A kind \in {"text", "tool"} : \A i \in Index :
           <<BlockStart(kind, i)>> \in Seq(Events) /\ Filled(<<BlockStart(kind, i)>>, kind, {i})
    /\ \A f \in Pieces : (f.kind = "text" => f.index = 0) =>
           <<BlockDelta(f)>> \in Seq(Events) /\ Filled(<<BlockDelta(f)>>, f.kind, {})
<1>1. ASSUME NEW kind \in {"text", "tool"}, NEW i \in Index
      PROVE  <<BlockStart(kind, i)>> \in Seq(Events) /\ Filled(<<BlockStart(kind, i)>>, kind, {i})
  <2>. DEFINE e == BlockStart(kind, i)  s == <<e>>
  <2>1. e \in Events /\ e.ev = "content_block_start" /\ e.kind = kind /\ e.index = i
    BY EventFacts
  <2>. HIDE DEF e, Events
  <2>2. s \in Seq(Events) /\ Len(s) = 1 /\ s[1] = e /\ \A p \in 1..1 : p = 1
    BY <2>1
  <2>. HIDE DEF s
  <2>3. StartAt(s, 1) /\ ~DeltaAt(s, 1) /\ 1 \in 1..1
    BY <2>1, <2>2 DEF StartAt, DeltaAt
  <2>4. Filled(s, kind, {i})
    BY <2>1, <2>2, <2>3 DEF Filled
  <2>. QED BY <2>2, <2>4 DEF s, e
<1>2. ASSUME NEW f \in Pieces, f.kind = "text" => f.index = 0
      PROVE  <<BlockDelta(f)>> \in Seq(Events) /\ Filled(<<BlockDelta(f)>>, f.kind, {})
  <2>. DEFINE e == BlockDelta(f)  s == <<e>>
  <2>1. e \in Events /\ e.ev = "content_block_delta" /\ e.of = f /\ e.index = f.index
    BY EventFacts
  <2>. HIDE DEF e, Events, Pieces
  <2>2. s \in Seq(Events) /\ Len(s) = 1 /\ s[1] = e /\ \A p \in 1..1 : p = 1
    BY <2>1
  <2>. HIDE DEF s
  <2>3. ~StartAt(s, 1) /\ DeltaAt(s, 1)
    BY <2>1, <2>2 DEF StartAt, DeltaAt
  <2>4. Filled(s, f.kind, {})
    BY <1>2, <2>1, <2>2, <2>3 DEF Filled
  <2>. QED BY <2>2, <2>4 DEF s, e
<1>. QED BY <1>1, <1>2

\* The first n of the sets B, together.
Together(B, n) == UNION {B[k] : k \in 1..n}

\* What is opened call by call, each time a block of its own.
LEMMA FilledFlatten ==
    ASSUME NEW q \in Seq(Seq(Events)), NEW kind, NEW B,
           \A k \in 1..Len(q) : Filled(q[k], kind, B[k]),
           \A j, k \in 1..Len(q) : j # k => B[j] \cap B[k] = {}
    PROVE  Filled(FlattenSeq(q), kind, Together(B, Len(q)))
<1>. DEFINE n == Len(q)
            upto(k) == UNION {B[j] : j \in 1..k}
<1>. HIDE DEF Events
<1>1. n \in Nat /\ \A k \in 1..n : q[k] \in Seq(Events)
  OBVIOUS
<1>2. PICK g : Partials(g, q, Events) /\ g[n] = FlattenSeq(q)
  BY PartialsExist
<1>3. /\ g[0] = <<>> /\ \A k \in 0..n : g[k] \in Seq(Events)
      /\ \A k \in 1..n : g[k] = g[k - 1] \o q[k]
  BY <1>2 DEF Partials
<1>4. Filled(g[0], kind, upto(0))
  <2>1. Bare(<<>>)
    BY DEF Bare
  <2>2. upto(0) = {}
    OBVIOUS
  <2>3. Filled(<<>>, kind, {})
    BY <2>1, BareFilled
  <2>. HIDE DEF upto
  <2>. QED BY <2>2, <2>3, <1>3
<1>5. ASSUME NEW k \in 1..n, Filled(g[k - 1], kind, upto(k - 1)) PROVE Filled(g[k], kind, upto(k))
  <2>1. k - 1 \in 0..n /\ \A j \in 1..(k - 1) : j \in 1..n /\ j # k
    BY <1>1
  <2>2. g[k - 1] \in Seq(Events) /\ q[k] \in Seq(Events) /\ g[k] = g[k - 1] \o q[k]
    BY <2>1, <1>1, <1>3
  <2>3. upto(k - 1) \cap B[k] = {}
    BY <2>1
  <2>4. upto(k) = upto(k - 1) \cup B[k]
    <3>1. \A j \in 1..k : j \in 1..(k - 1) \/ j = k
      BY <1>1
    <3>2. \A j \in 1..(k - 1) : j \in 1..k
      BY <1>1
    <3>3. k \in 1..k
      BY <1>1
    <3>. QED BY <3>1, <3>2, <3>3
  <2>5. Filled(q[k], kind, B[k])
    OBVIOUS
  <2>. HIDE DEF upto
  <2>6. Filled(g[k - 1] \o q[k], kind, upto(k - 1) \cup B[k])
    BY <1>5, <2>2, <2>3, <2>5, FilledConcat
  <2>. QED BY <2>2, <2>4, <2>6
<1>. HIDE DEF upto
<1>6. CASE n = 0
  BY <1>2, <1>4, <1>6 DEF upto, Together
<1>7. CASE n # 0
  <2>. DEFINE W == {k \in 1..n : Filled(g[k], kind, upto(k))}
  <2>1. 1 \in W
    <3>1. 1 \in 1..n /\ 1 - 1 = 0
      BY <1>1, <1>7
    <3>2. Filled(g[1 - 1], kind, upto(1 - 1))
      BY <3>1, <1>4
    <3>. QED BY <3>1, <3>2, <1>5
  <2>2. ASSUME NEW k \in 1..n, k \in W, k + 1 \in 1..n PROVE k + 1 \in W
    <3>1. (k + 1) - 1 = k
      OBVIOUS
    <3>2. Filled(g[(k + 1) - 1], kind, upto((k + 1) - 1))
      BY <3>1, <2>2
    <3>. QED BY <3>2, <2>2, <1>5
  <2>3. 1..n \subseteq W
    <3>. HIDE DEF W, n
    <3>. QED BY <1>1, <2>1, <2>2, IntervalInduction
  <2>4. n \in 1..n
    BY <1>1, <1>7
  <2>5. Filled(g[n], kind, upto(n))
    <3>. HIDE DEF n
    <3>. QED BY <2>3, <2>4
  <2>. QED BY <2>5, <1>2 DEF upto, Together
<1>. QED BY <1>6, <1>7

\* Events that open no block after events that do.
LEMMA FilledMore ==
    ASSUME NEW s \in Seq(Events), NEW t \in Seq(Events), NEW kind, NEW A,
           Filled(s, kind, A), Filled(t, kind, {})
    PROVE  s \o t \in Seq(Events) /\ Filled(s \o t, kind, A)
<1>. HIDE DEF Events
<1>1. A \cap {} = {} /\ A \cup {} = A
  OBVIOUS
<1>2. s \o t \in Seq(Events) /\ Filled(s \o t, kind, A \cup {})
  BY <1>1, FilledConcat
<1>. QED BY <1>1, <1>2

\* The events that are neither starts nor deltas.
LEMMA BareEvents ==
    ASSUME NEW q \in Seq(Index)
    PROVE  \A s \in {<<>>, <<MessageStart>>, <<BlockStop(0)>>, Ending, StopAll(q)} :
               s \in Seq(Events) /\ \A kind : Filled(s, kind, {})
<1>. HIDE DEF Events
<1>1. ASSUME NEW s \in {<<>>, <<MessageStart>>, <<BlockStop(0)>>, Ending, StopAll(q)}
      PROVE  s \in Seq(Events)
  BY OthersKinds
<1>2. Bare(<<>>)
  BY DEF Bare
<1>3. Bare(<<MessageStart>>)
  <2>1. MessageStart.ev = "message_start"
    BY EventFacts
  <2>. QED BY <2>1 DEF Bare, StartAt, DeltaAt
<1>4. Bare(<<BlockStop(0)>>)
  <2>1. BlockStop(0).ev = "content_block_stop"
    BY DEF BlockStop
  <2>. QED BY <2>1 DEF Bare, StartAt, DeltaAt
<1>5. Bare(Ending)
  <2>1. Len(Ending) = 2 /\ Ending[1].ev = "message_delta" /\ Ending[2].ev = "message_stop"
    BY DEF Ending
  <2>2. \A p \in 1..2 : p = 1 \/ p = 2
    OBVIOUS
  <2>. HIDE DEF Ending
  <2>. QED BY <2>1, <2>2 DEF Bare, StartAt, DeltaAt
<1>6. Bare(StopAll(q))
  <2>1. Len(q) \in Nat
    OBVIOUS
  <2>2. \A i : BlockStop(i).ev = "content_block_stop"
    BY DEF BlockStop
  <2>. DEFINE s == StopAll(q)
  <2>3. Len(s) = Len(q) /\ \A p \in 1..Len(q) : s[p] = BlockStop(q[p])
    BY <2>1 DEF StopAll
  <2>. HIDE DEF s
  <2>4. Bare(s)
    BY <2>2, <2>3 DEF Bare, StartAt, DeltaAt
  <2>. QED BY <2>4 DEF s
<1>7. ASSUME NEW s \in {<<>>, <<MessageStart>>, <<BlockStop(0)>>, Ending, StopAll(q)}, NEW kind
      PROVE  Filled(s, kind, {})
  <2>1. Bare(s)
    BY <1>2, <1>3, <1>4, <1>5, <1>6
  <2>. QED BY <2>1, BareFilled
<1>. QED BY <1>1, <1>7

\* The events of one call.
LEMMA CallFilled ==
    ASSUME number \in Nat, NEW call \in Call
    PROVE  /\ ArgsEvents(call) \in Seq(Events) /\ Filled(ArgsEvents(call), "tool", {})
           /\ <<BlockStart("tool", call.index)>> \o ArgsEvents(call) \in Seq(Events)
           /\ Filled(<<BlockStart("tool", call.index)>> \o ArgsEvents(call), "tool", {call.index})
<1>. DEFINE f == Fragment("tool", call.index, number + 1)
            d == <<BlockDelta(f)>>
            a == ArgsEvents(call)
            b == <<BlockStart("tool", call.index)>>
<1>1. call.index \in Index /\ f \in Pieces /\ f.kind = "tool"
  <2>1. call.index \in Index
    BY DEF Call
  <2>. QED BY <2>1, FragmentFacts
<1>. HIDE DEF Events
<1>2. d \in Seq(Events) /\ Filled(d, "tool", {})
  <2>. HIDE DEF f, Pieces
  <2>1. (f.kind = "text" => f.index = 0) => <<BlockDelta(f)>> \in Seq(Events) /\ Filled(<<BlockDelta(f)>>, f.kind, {})
    BY <1>1, FilledOne
  <2>. QED BY <2>1, <1>1
<1>3. <<>> \in Seq(Events) /\ Filled(<<>>, "tool", {})
  <2>1. <<>> \in Seq(Index)
    OBVIOUS
  <2>. QED BY <2>1, BareEvents
<1>4. a = IF call.args THEN d ELSE <<>>
  BY DEF ArgsEvents
<1>5. b \in Seq(Events) /\ Filled(b, "tool", {call.index})
  BY <1>1, FilledOne
<1>. HIDE DEF a, b, d
<1>6. a \in Seq(Events) /\ Filled(a, "tool", {})
  BY <1>2, <1>3, <1>4
<1>7. b \o a \in Seq(Events) /\ Filled(b \o a, "tool", {call.index})
  BY <1>5, <1>6, FilledMore
<1>. QED BY <1>6, <1>7 DEF a, b

IndexSet(calls) == {calls[k].index : k \in 1..Len(calls)}
NamedSet(calls) == {calls[k].index : k \in {j \in 1..Len(calls) : calls[j].named}}
Distinct(calls) == \A j, k \in 1..Len(calls) : calls[j].index = calls[k].index => j = k

\* The first calls of a reply open a block each.
LEMMA OpenAllFilled ==
    ASSUME number \in Nat, NEW calls \in Seq(Call), Distinct(calls)
    PROVE  OpenAll(calls) \in Seq(Events) /\ Filled(OpenAll(calls), "tool", IndexSet(calls))
<1>. DEFINE n == Len(calls)
            q == [k \in 1..n |-> <<BlockStart("tool", calls[k].index)>> \o ArgsEvents(calls[k])]
            B == [k \in 1..n |-> {calls[k].index}]
            E == Seq(Events)
<1>1. n \in Nat /\ \A k \in 1..n : calls[k] \in Call
  OBVIOUS
<1>. HIDE DEF Events
<1>2. \A k \in 1..n : q[k] \in E /\ Filled(q[k], "tool", B[k])
  <2>. SUFFICES ASSUME NEW k \in 1..n PROVE q[k] \in E /\ Filled(q[k], "tool", B[k])
    OBVIOUS
  <2>. QED BY <1>1, CallFilled
<1>3. \A k \in 1..n : B[k] = {calls[k].index}
  OBVIOUS
<1>4. q = [k \in 1..n |-> q[k]] /\ OpenAll(calls) = FlattenSeq(q)
  BY DEF OpenAll
<1>. HIDE DEF q, B, E
<1>5. q \in Seq(E) /\ Len(q) = n
  <2>. HIDE DEF n
  <2>. QED BY <1>1, <1>2, <1>4
<1>6. q \in Seq(Seq(Events))
  BY <1>5 DEF E
<1>7. \A j, k \in 1..n : j # k => B[j] \cap B[k] = {}
  BY <1>3 DEF Distinct
<1>8. Filled(FlattenSeq(q), "tool", Together(B, Len(q)))
  <2>1. \A k \in 1..Len(q) : Filled(q[k], "tool", B[k])
    BY <1>2, <1>5
  <2>2. \A j, k \in 1..Len(q) : j # k => B[j] \cap B[k] = {}
    BY <1>5, <1>7
  <2>. QED BY <1>6, <2>1, <2>2, FilledFlatten
<1>9. Together(B, Len(q)) = IndexSet(calls)
  BY <1>3, <1>5 DEF IndexSet, Together
<1>10. FlattenSeq(q) \in Seq(Events)
  BY <1>6, FlattenType
<1>. QED BY <1>4, <1>8, <1>9, <1>10

\* Later calls open a block for each index that has none.
LEMMA OpenUnknownFilled ==
    ASSUME number \in Nat, NEW calls \in Seq(Call), Distinct(calls), NamedOnce(calls),
           \A k \in 1..Len(tool_indices) : tool_indices[k] \in announced
    PROVE  /\ OpenUnknown(calls) \in Seq(Events) /\ Filled(OpenUnknown(calls), "tool", NamedSet(calls))
           /\ announced \cap NamedSet(calls) = {}
           /\ announced \cup IndexSet(calls) = announced \cup NamedSet(calls)
<1>. DEFINE n == Len(calls)
            q == [k \in 1..n |-> IF calls[k].named /\ ~Contains(tool_indices, calls[k].index)
                                 THEN <<BlockStart("tool", calls[k].index)>> \o ArgsEvents(calls[k])
                                 ELSE ArgsEvents(calls[k])]
            B == [k \in 1..n |-> IF calls[k].named THEN {calls[k].index} ELSE {}]
            E == Seq(Events)
<1>1. n \in Nat /\ \A k \in 1..n : calls[k] \in Call
  OBVIOUS
<1>. HIDE DEF Events
<1>2. ASSUME NEW k \in 1..n PROVE calls[k].named <=> calls[k].index \notin announced
  <2>1. calls[k].named <=> calls[k].index \notin announced \cup {calls[j].index : j \in 1..(k - 1)}
    BY DEF NamedOnce
  <2>2. ASSUME NEW j \in 1..(k - 1) PROVE calls[j].index # calls[k].index
    <3>1. j \in 1..n /\ j # k
      BY <1>1
    <3>. QED BY <3>1 DEF Distinct
  <2>. QED BY <2>1, <2>2
<1>3. ASSUME NEW k \in 1..n, calls[k].named PROVE ~Contains(tool_indices, calls[k].index)
  BY <1>2, <1>3 DEF Contains
<1>4. \A k \in 1..n : q[k] \in E /\ Filled(q[k], "tool", B[k])
  <2>. SUFFICES ASSUME NEW k \in 1..n PROVE q[k] \in E /\ Filled(q[k], "tool", B[k])
    OBVIOUS
  <2>1. CASE calls[k].named
    <3>1. q[k] = <<BlockStart("tool", calls[k].index)>> \o ArgsEvents(calls[k]) /\ B[k] = {calls[k].index}
      BY <2>1, <1>3
    <3>. HIDE DEF q, B
    <3>. QED BY <3>1, <1>1, CallFilled
  <2>2. CASE ~calls[k].named
    <3>1. q[k] = ArgsEvents(calls[k]) /\ B[k] = {}
      BY <2>2
    <3>. HIDE DEF q, B
    <3>. QED BY <3>1, <1>1, CallFilled
  <2>. QED BY <2>1, <2>2
<1>5. \A k \in 1..n : B[k] = IF calls[k].named THEN {calls[k].index} ELSE {}
  OBVIOUS
<1>6. q = [k \in 1..n |-> q[k]] /\ OpenUnknown(calls) = FlattenSeq(q)
  BY DEF OpenUnknown
<1>. HIDE DEF q, B, E
<1>7. q \in Seq(E) /\ Len(q) = n
  <2>. HIDE DEF n
  <2>. QED BY <1>1, <1>4, <1>6
<1>8. q \in Seq(Seq(Events))
  BY <1>7 DEF E
<1>9. ASSUME NEW j \in 1..n, NEW k \in 1..n, j # k PROVE B[j] \cap B[k] = {}
  <2>1. calls[j].index # calls[k].index
    BY <1>9 DEF Distinct
  <2>. QED BY <2>1, <1>5
<1>10. Filled(FlattenSeq(q), "tool", Together(B, Len(q)))
  <2>1. \A k \in 1..Len(q) : Filled(q[k], "tool", B[k])
    BY <1>4, <1>7
  <2>2. \A j, k \in 1..Len(q) : j # k => B[j] \cap B[k] = {}
    BY <1>7, <1>9
  <2>. QED BY <1>8, <2>1, <2>2, FilledFlatten
<1>11. Together(B, Len(q)) = NamedSet(calls)
  BY <1>5, <1>7 DEF NamedSet, Together
<1>12. announced \cap NamedSet(calls) = {} /\ announced \cup IndexSet(calls) = announced \cup NamedSet(calls)
  BY <1>2 DEF NamedSet, IndexSet
<1>13. FlattenSeq(q) \in Seq(Events)
  BY <1>8, FlattenType
<1>. QED BY <1>6, <1>10, <1>11, <1>12, <1>13

\* Text opens no block by itself.
LEMMA TextFilled ==
    ASSUME number \in Nat, NEW c
    PROVE  TextEvents(c) \in Seq(Events) /\ Filled(TextEvents(c), "text", {})
<1>. DEFINE f == Fragment("text", 0, number + 1)
            d == <<BlockDelta(f)>>
            t == TextEvents(c)
<1>1. f \in Pieces /\ f.kind = "text" /\ f.index = 0
  BY FragmentFacts DEF Fragment
<1>. HIDE DEF Events
<1>2. d \in Seq(Events) /\ Filled(d, "text", {})
  <2>. HIDE DEF f, Pieces
  <2>1. (f.kind = "text" => f.index = 0) => <<BlockDelta(f)>> \in Seq(Events) /\ Filled(<<BlockDelta(f)>>, f.kind, {})
    BY <1>1, FilledOne
  <2>. QED BY <2>1, <1>1
<1>3. <<>> \in Seq(Events) /\ Filled(<<>>, "text", {})
  <2>1. <<>> \in Seq(Index)
    OBVIOUS
  <2>. QED BY <2>1, BareEvents
<1>4. t = IF c.text THEN d ELSE <<>>
  BY DEF TextEvents
<1>. HIDE DEF d, t
<1>5. t \in Seq(Events) /\ Filled(t, "text", {})
  BY <1>2, <1>3, <1>4
<1>. QED BY <1>5 DEF t

\* What follows, with the closing of the message and without it.
LEMMA GoesOnFilled ==
    ASSUME NEW s \in Seq(Events), NEW e \in Seq(Events), NEW kind, NEW A, NEW B,
           Filled(s, kind, A), Filled(e, kind, B), A \cap B = {},
           NEW closing \in Seq(Events), Filled(closing, kind, {}), NEW to, NEW tools
    PROVE  /\ Filled(s \o e, kind, A \cup B)
           /\ Finishing(Outcome(e, to, tools), closing).state = "Finished"
           /\ Filled(s \o Finishing(Outcome(e, to, tools), closing).events, kind, A \cup B)
<1>. HIDE DEF Events
<1>1. s \o e \in Seq(Events) /\ Filled(s \o e, kind, A \cup B)
  BY FilledConcat
<1>2. Ending \in Seq(Events) /\ Filled(Ending, kind, {})
  <2>1. <<>> \in Seq(Index)
    OBVIOUS
  <2>. QED BY <2>1, BareEvents
<1>3. closing \o Ending \in Seq(Events) /\ Filled(closing \o Ending, kind, {})
  BY <1>2, FilledMore
<1>4. Filled((s \o e) \o (closing \o Ending), kind, A \cup B)
  BY <1>1, <1>3, FilledMore
<1>5. /\ s \o Finishing(Outcome(e, to, tools), closing).events = (s \o e) \o (closing \o Ending)
      /\ Finishing(Outcome(e, to, tools), closing).state = "Finished"
  BY FinishingSent, SMTT(60)
<1>. QED BY <1>1, <1>4, <1>5

-----------------------------------------------------------------------------
(* Replies that keep text and tools apart *)

\* Replies that keep text and tools apart and call each tool once, which are more
\* than the plain ones: the habits Unmixed excludes.
Mixing == {"toolsAfterText", "textAfterTools", "repeats"}

\* The blocks of such a reply, told from the state of the translator.
Shaped ==
    /\ state = "Initial" => announced = {} /\ Filled(sent, "text", {}) /\ Filled(sent, "tool", {})
    /\ state = "TextContent" => announced = {} /\ Filled(sent, "text", {0})
    /\ state = "ToolCalls" =>
           /\ Filled(sent, "tool", announced)
           /\ \A k \in 1..Len(tool_indices) : tool_indices[k] \in announced
    /\ state = "Finished" =>
           \/ announced = {} /\ Filled(sent, "text", {0})
           \/ Filled(sent, "tool", announced)

ShapedInv == Mixing \cap odd = {} => Shaped

\* A chunk that shows none of these habits.
LEMMA NotMixing ==
    ASSUME NEW c \in Chunk, Mixing \cap Oddities(c) = {}
    PROVE  ~(c.delta = "tools" /\ "text" \in said) /\ Distinct(c.calls)
<1>1. /\ \A habit \in Mixing : habit \in AllHabits
      /\ "toolsAfterText" \in Mixing /\ "repeats" \in Mixing
  BY DEF Mixing, AllHabits
<1>2. \A habit \in Mixing : ~Shows(c, habit)
  BY <1>1 DEF Oddities
<1>3. ~Shows(c, "toolsAfterText") /\ ~Shows(c, "repeats")
  BY <1>1, <1>2
<1>4. ~(c.delta = "tools" /\ "text" \in said)
  BY <1>3 DEF Shows
<1>5. ~ \E j, k \in 1..Len(c.calls) : j < k /\ c.calls[j].index = c.calls[k].index
  BY <1>3 DEF Shows
<1>6. \A j, k \in 1..Len(c.calls) : j < k \/ k < j \/ j = k
  <2>1. c.calls \in Seq(Call)
    BY ChunkCalls
  <2>2. Len(c.calls) \in Nat
    BY <2>1
  <2>. QED BY <2>2
<1>7. Distinct(c.calls)
  BY <1>5, <1>6 DEF Distinct
<1>. QED BY <1>4, <1>7

\* The calls of a chunk that has none.
LEMMA NoCalls ==
    ASSUME NEW c, Provides(c), c.delta # "tools"
    PROVE  c.calls = <<>> /\ IndexSet(c.calls) = {}
<1>1. c.calls = <<>>
  BY DEF Provides
<1>2. 1..Len(<<>>) = {}
  OBVIOUS
<1>. QED BY <1>1, <1>2 DEF IndexSet

\* The three ways out of the initial state.
LEMMA InitialShaped ==
    ASSUME Shaped, state = "Initial", sent \in Seq(Events), number \in Nat,
           NEW c \in Chunk, Provides(c), Mixing \cap Oddities(c) = {}
    PROVE  LET o == PushChunk(c)
               J == announced \cup IndexSet(c.calls)
           IN  \/ /\ o.state \in {"Initial", "Finished"} /\ J = {}
                  /\ Filled(sent \o o.events, "text", {}) /\ Filled(sent \o o.events, "tool", {})
               \/ /\ o.state \in {"TextContent", "Finished"} /\ J = {}
                  /\ Filled(sent \o o.events, "text", {0})
               \/ /\ o.state \in {"ToolCalls", "Finished"}
                  /\ Filled(sent \o o.events, "tool", J)
                  /\ o.state = "ToolCalls" => \A k \in 1..Len(o.tools) : o.tools[k] \in J
<1>. DEFINE J == IndexSet(c.calls)
<1>. HIDE DEF Events
<1>1. announced = {} /\ Filled(sent, "text", {}) /\ Filled(sent, "tool", {})
  BY DEF Shaped
<1>2. c.delta \in {"none", "text", "tools"} /\ c.calls \in Seq(Call)
  <2>1. c.calls \in Seq(Call)
    BY ChunkCalls
  <2>. QED BY <2>1 DEF Chunk
<1>3. PushChunk(c) = HandleInitial(c)
  BY DEF PushChunk
<1>4. /\ <<>> \in Seq(Events) /\ \A kind : Filled(<<>>, kind, {})
      /\ <<MessageStart>> \in Seq(Events) /\ \A kind : Filled(<<MessageStart>>, kind, {})
  <2>1. <<>> \in Seq(Index)
    OBVIOUS
  <2>. QED BY <2>1, BareEvents
<1>. DEFINE Pushed(e, to, tools) ==
        PushChunk(c) = IF c.finish THEN Finishing(Outcome(e, to, tools), <<>>) ELSE Outcome(e, to, tools)
<1>5. ASSUME NEW e \in Seq(Events), NEW to, NEW tools, Pushed(e, to, tools),
             NEW kind, NEW A, Filled(sent, kind, {}), Filled(e, kind, A)
      PROVE  /\ PushChunk(c).state \in {to, "Finished"}
             /\ Filled(sent \o PushChunk(c).events, kind, A)
             /\ PushChunk(c).state = to /\ to # "Finished" => PushChunk(c).tools = tools
  <2>1. {} \cap A = {} /\ {} \cup A = A
    OBVIOUS
  <2>2. /\ Filled(sent \o e, kind, {} \cup A)
        /\ Finishing(Outcome(e, to, tools), <<>>).state = "Finished"
        /\ Filled(sent \o Finishing(Outcome(e, to, tools), <<>>).events, kind, {} \cup A)
    BY <1>4, <1>5, <2>1, GoesOnFilled
  <2>3. Outcome(e, to, tools).state = to /\ Outcome(e, to, tools).events = e /\ Outcome(e, to, tools).tools = tools
    BY DEF Outcome
  <2>4. CASE c.finish
    BY <2>1, <2>2, <2>4, <1>5
  <2>5. CASE ~c.finish
    BY <2>1, <2>2, <2>3, <2>5, <1>5
  <2>. QED BY <2>4, <2>5
<1>6. CASE c.delta = "none"
  <2>1. J = {}
    BY <1>6, NoCalls
  <2>2. Pushed(<<MessageStart>>, "Initial", <<>>)
    BY <1>3, <1>6 DEF HandleInitial
  <2>. HIDE DEF J, Pushed
  <2>3. /\ PushChunk(c).state \in {"Initial", "Finished"}
        /\ Filled(sent \o PushChunk(c).events, "text", {}) /\ Filled(sent \o PushChunk(c).events, "tool", {})
    BY <1>1, <1>4, <1>5, <2>2
  <2>4. announced \cup J = {}
    BY <2>1, <1>1
  <2>. QED BY <2>3, <2>4 DEF J
<1>7. CASE c.delta = "tools"
  <2>. DEFINE e == <<MessageStart>> \o OpenAll(c.calls)
  <2>1. Distinct(c.calls)
    BY NotMixing
  <2>2. OpenAll(c.calls) \in Seq(Events) /\ Filled(OpenAll(c.calls), "tool", J)
    BY <2>1, <1>2, OpenAllFilled
  <2>3. e \in Seq(Events) /\ Filled(e, "tool", J)
    <3>1. {} \cap J = {} /\ {} \cup J = J
      OBVIOUS
    <3>. HIDE DEF J
    <3>2. /\ <<MessageStart>> \o OpenAll(c.calls) \in Seq(Events)
          /\ Filled(<<MessageStart>> \o OpenAll(c.calls), "tool", {} \cup J)
      BY <3>1, <2>2, <1>4, FilledConcat
    <3>. QED BY <3>1, <3>2
  <2>4. Pushed(e, "ToolCalls", Indices(c.calls))
    BY <1>3, <1>7 DEF HandleInitial
  <2>5. \A k \in 1..Len(Indices(c.calls)) : Indices(c.calls)[k] \in J
    <3>1. Len(c.calls) \in Nat
      BY <1>2
    <3>2. \A k \in 1..Len(c.calls) : c.calls[k].index \in J
      BY DEF IndexSet
    <3>. HIDE DEF J
    <3>. QED BY <3>1, <3>2 DEF Indices
  <2>. HIDE DEF J, Pushed, e
  <2>6. /\ PushChunk(c).state \in {"ToolCalls", "Finished"}
        /\ Filled(sent \o PushChunk(c).events, "tool", J)
        /\ PushChunk(c).state = "ToolCalls" => PushChunk(c).tools = Indices(c.calls)
    BY <1>1, <1>5, <2>3, <2>4
  <2>7. announced \cup J = J
    BY <1>1
  <2>. QED BY <2>5, <2>6, <2>7 DEF J
<1>8. CASE c.delta = "text"
  <2>. DEFINE m == <<MessageStart, BlockStart("text", 0)>>
              e == m \o TextEvents(c)
  <2>1. J = {}
    BY <1>8, NoCalls
  <2>2. m \in Seq(Events) /\ Filled(m, "text", {0})
    <3>1. <<BlockStart("text", 0)>> \in Seq(Events) /\ Filled(<<BlockStart("text", 0)>>, "text", {0})
      BY FilledOne, SseAssumption
    <3>2. {} \cap {0} = {} /\ {} \cup {0} = {0}
      OBVIOUS
    <3>3. /\ <<MessageStart>> \o <<BlockStart("text", 0)>> \in Seq(Events)
          /\ Filled(<<MessageStart>> \o <<BlockStart("text", 0)>>, "text", {} \cup {0})
      BY <3>1, <3>2, <1>4, FilledConcat
    <3>4. <<MessageStart>> \o <<BlockStart("text", 0)>> = m
      BY Pair
    <3>. QED BY <3>2, <3>3, <3>4
  <2>3. Pushed(e, "TextContent", <<>>)
    BY <1>3, <1>8 DEF HandleInitial
  <2>. HIDE DEF J, Pushed, m
  <2>4. e \in Seq(Events) /\ Filled(e, "text", {0})
    BY <2>2, TextFilled, FilledMore
  <2>. HIDE DEF e
  <2>5. PushChunk(c).state \in {"TextContent", "Finished"} /\ Filled(sent \o PushChunk(c).events, "text", {0})
    BY <1>1, <1>5, <2>3, <2>4
  <2>6. announced \cup J = {}
    BY <2>1, <1>1
  <2>. QED BY <2>5, <2>6 DEF J
<1>. QED BY <1>2, <1>6, <1>7, <1>8

\* In a reply of text a chunk adds text.
LEMMA TextShaped ==
    ASSUME Shaped, Path, state = "TextContent", sent \in Seq(Events), number \in Nat,
           NEW c \in Chunk, Provides(c), Mixing \cap Oddities(c) = {}
    PROVE  LET o == PushChunk(c) IN
           /\ o.state \in {"TextContent", "Finished"}
           /\ announced \cup IndexSet(c.calls) = {} /\ Filled(sent \o o.events, "text", {0})
<1>. DEFINE e == IF c.delta = "text" THEN TextEvents(c) ELSE <<>>
            o == Outcome(e, "TextContent", <<>>)
<1>. HIDE DEF Events
<1>1. announced = {} /\ Filled(sent, "text", {0}) /\ "text" \in said
  BY DEF Shaped, Path
<1>2. c.delta \in {"none", "text"}
  BY <1>1, NotMixing DEF Chunk
<1>3. IndexSet(c.calls) = {}
  BY <1>2, NoCalls
<1>4. PushChunk(c) = IF c.finish THEN Finishing(o, <<BlockStop(0)>>) ELSE o
  BY <1>2 DEF PushChunk, HandleText
<1>5. /\ <<>> \in Seq(Events) /\ Filled(<<>>, "text", {})
      /\ <<BlockStop(0)>> \in Seq(Events) /\ Filled(<<BlockStop(0)>>, "text", {})
  <2>1. <<>> \in Seq(Index)
    OBVIOUS
  <2>. QED BY <2>1, BareEvents
<1>6. e \in Seq(Events) /\ Filled(e, "text", {})
  BY <1>5, TextFilled
<1>7. o.state = "TextContent" /\ o.events = e
  BY DEF Outcome
<1>. HIDE DEF e
<1>8. {0} \cap {} = {} /\ {0} \cup {} = {0}
  OBVIOUS
<1>9. /\ Filled(sent \o e, "text", {0} \cup {})
      /\ Finishing(Outcome(e, "TextContent", <<>>), <<BlockStop(0)>>).state = "Finished"
      /\ Filled(sent \o Finishing(Outcome(e, "TextContent", <<>>), <<BlockStop(0)>>).events, "text", {0} \cup {})
  BY <1>1, <1>5, <1>6, <1>8, GoesOnFilled
<1>10. CASE c.finish
  BY <1>1, <1>3, <1>4, <1>8, <1>9, <1>10
<1>11. CASE ~c.finish
  BY <1>1, <1>3, <1>4, <1>7, <1>8, <1>9, <1>11
<1>. QED BY <1>10, <1>11

\* In a reply of calls a chunk adds to them, or opens others.
LEMMA ToolsShaped ==
    ASSUME Shaped, state = "ToolCalls", sent \in Seq(Events), number \in Nat, tool_indices \in Seq(Index),
           NEW c \in Chunk, Provides(c), Mixing \cap Oddities(c) = {}
    PROVE  LET o == PushChunk(c) IN
           /\ (o.state = "ToolCalls" /\ o.tools = tool_indices) \/ o.state = "Finished"
           /\ Filled(sent \o o.events, "tool", announced \cup IndexSet(c.calls))
<1>. DEFINE e == IF c.delta = "tools" THEN OpenUnknown(c.calls) ELSE <<>>
            o == Outcome(e, "ToolCalls", tool_indices)
            B == IF c.delta = "tools" THEN NamedSet(c.calls) ELSE {}
<1>. HIDE DEF Events
<1>1. Filled(sent, "tool", announced) /\ \A k \in 1..Len(tool_indices) : tool_indices[k] \in announced
  BY DEF Shaped
<1>2. c.calls \in Seq(Call) /\ Distinct(c.calls) /\ NamedOnce(c.calls)
  BY ChunkCalls, NotMixing DEF Provides
<1>3. /\ <<>> \in Seq(Events) /\ Filled(<<>>, "tool", {})
      /\ StopAll(tool_indices) \in Seq(Events) /\ Filled(StopAll(tool_indices), "tool", {})
  BY BareEvents
<1>4. PushChunk(c) = IF c.finish THEN Finishing(o, StopAll(tool_indices)) ELSE o
  BY DEF PushChunk, HandleToolCalls
<1>5. /\ e \in Seq(Events) /\ Filled(e, "tool", B)
      /\ announced \cap B = {} /\ announced \cup IndexSet(c.calls) = announced \cup B
  <2>1. CASE c.delta = "tools"
    BY <2>1, <1>1, <1>2, OpenUnknownFilled
  <2>2. CASE c.delta # "tools"
    <3>1. IndexSet(c.calls) = {}
      BY <2>2, NoCalls
    <3>. QED BY <3>1, <2>2, <1>3
  <2>. QED BY <2>1, <2>2
<1>6. o.state = "ToolCalls" /\ o.events = e /\ o.tools = tool_indices
  BY DEF Outcome
<1>. HIDE DEF e, B
<1>7. /\ Filled(sent \o e, "tool", announced \cup B)
      /\ Finishing(Outcome(e, "ToolCalls", tool_indices), StopAll(tool_indices)).state = "Finished"
      /\ Filled(sent \o Finishing(Outcome(e, "ToolCalls", tool_indices), StopAll(tool_indices)).events,
                "tool", announced \cup B)
  BY <1>1, <1>3, <1>5, GoesOnFilled
<1>8. CASE c.finish
  BY <1>4, <1>5, <1>7, <1>8
<1>9. CASE ~c.finish
  BY <1>4, <1>5, <1>6, <1>7, <1>9
<1>. QED BY <1>8, <1>9

\* A chunk of the provider.
LEMMA ChunkShaped == IInv /\ KeptInv /\ ShapedInv /\ PollChunk => ShapedInv'
<1>. SUFFICES ASSUME IInv, KeptInv, ShapedInv, PollChunk, Mixing \cap odd' = {} PROVE Shaped'
  BY DEF ShapedInv, Mixing
<1>. HIDE DEF Events
<1>1. PICK c \in Chunk : Provides(c) /\ Provide(c) /\ Translated(PushChunk(c))
  BY DEF PollChunk
<1>2. /\ state \in States /\ tool_indices \in Seq(Index) /\ sent \in Seq(Events) /\ number \in Nat /\ ~finished
  BY GivenType DEF IInv, TranslatorType, BodyType, PollChunk
<1>3. Path
  BY DEF KeptInv
<1>. DEFINE o == PushChunk(c)
            J == announced \cup IndexSet(c.calls)
<1>4. /\ state' = o.state /\ tool_indices' = o.tools /\ sent' = sent \o o.events
      /\ announced' = J /\ odd' = odd \cup Oddities(c)
  BY <1>1 DEF Translated, Provide, IndexSet
<1>5. Mixing \cap odd = {} /\ Mixing \cap Oddities(c) = {}
  BY <1>4
<1>6. Shaped
  BY <1>5 DEF ShapedInv
<1>8. CASE state = "Initial"
  <2>1. \/ /\ o.state \in {"Initial", "Finished"} /\ J = {}
           /\ Filled(sent \o o.events, "text", {}) /\ Filled(sent \o o.events, "tool", {})
        \/ /\ o.state \in {"TextContent", "Finished"} /\ J = {}
           /\ Filled(sent \o o.events, "text", {0})
        \/ /\ o.state \in {"ToolCalls", "Finished"}
           /\ Filled(sent \o o.events, "tool", J)
           /\ o.state = "ToolCalls" => \A k \in 1..Len(o.tools) : o.tools[k] \in J
    BY <1>1, <1>2, <1>5, <1>6, <1>8, InitialShaped
  <2>. HIDE DEF o, J
  <2>2. \/ /\ state' \in {"Initial", "Finished"} /\ announced' = {}
           /\ Filled(sent', "text", {}) /\ Filled(sent', "tool", {}) /\ Filled(sent', "tool", announced')
        \/ /\ state' \in {"TextContent", "Finished"} /\ announced' = {}
           /\ Filled(sent', "text", {0})
        \/ /\ state' \in {"ToolCalls", "Finished"}
           /\ Filled(sent', "tool", announced')
           /\ state' = "ToolCalls" => \A k \in 1..Len(tool_indices') : tool_indices'[k] \in announced'
    BY <2>1, <1>4
  <2>. QED BY <2>2 DEF Shaped, Filled, StartAt, DeltaAt
<1>9. CASE state = "TextContent"
  <2>1. /\ o.state \in {"TextContent", "Finished"} /\ J = {}
        /\ Filled(sent \o o.events, "text", {0})
    BY <1>1, <1>2, <1>3, <1>5, <1>6, <1>9, TextShaped
  <2>. HIDE DEF o, J
  <2>2. state' \in {"TextContent", "Finished"} /\ announced' = {} /\ Filled(sent', "text", {0})
    BY <2>1, <1>4
  <2>. QED BY <2>2 DEF Shaped, Filled, StartAt, DeltaAt
<1>10. CASE state = "ToolCalls"
  <2>1. /\ (o.state = "ToolCalls" /\ o.tools = tool_indices) \/ o.state = "Finished"
        /\ Filled(sent \o o.events, "tool", J)
    BY <1>1, <1>2, <1>5, <1>6, <1>10, ToolsShaped
  <2>2. announced \subseteq J /\ \A k \in 1..Len(tool_indices) : tool_indices[k] \in announced
    BY <1>6, <1>10 DEF Shaped
  <2>. HIDE DEF o, J
  <2>3. /\ (state' = "ToolCalls" /\ tool_indices' = tool_indices) \/ state' = "Finished"
        /\ Filled(sent', "tool", announced') /\ \A k \in 1..Len(tool_indices) : tool_indices[k] \in announced'
    BY <2>1, <2>2, <1>4
  <2>. QED BY <2>3 DEF Shaped, Filled, StartAt, DeltaAt
<1>11. CASE state = "Finished"
  <2>1. o.state = "Finished" /\ o.events = <<>>
    BY <1>11 DEF PushChunk, Outcome
  <2>2. c.delta = "none"
    BY <1>1, <1>2, <1>3, <1>11 DEF Path, Provides
  <2>3. J = announced
    <3>1. IndexSet(c.calls) = {}
      BY <2>2, <1>1, NoCalls
    <3>. QED BY <3>1
  <2>. HIDE DEF o, J
  <2>4. sent \o <<>> = sent
    BY <1>2, ConcatEmptySeq
  <2>5. announced' = announced /\ sent' = sent /\ state' = "Finished"
    BY <2>1, <2>3, <2>4, <1>4
  <2>. QED BY <2>5, <1>6, <1>11 DEF Shaped, Filled, StartAt, DeltaAt
<1>. QED BY <1>2, <1>8, <1>9, <1>10, <1>11 DEF States

\* The end of the stream, which comes from [DONE] or from the end of the body.
LEMMA FinishInnerShaped ==
    ASSUME IInv, ShapedInv, Translated(FinishInner), UNCHANGED <<odd, announced>>
    PROVE  ShapedInv'
<1>. SUFFICES ASSUME Mixing \cap odd' = {} PROVE Shaped'
  BY DEF ShapedInv, Mixing
<1>. HIDE DEF Events
<1>1. state \in States /\ tool_indices \in Seq(Index) /\ sent \in Seq(Events)
  BY DEF IInv, TranslatorType, BodyType
<1>2. Shaped
  BY DEF ShapedInv
<1>. DEFINE t == FinishInner.events
<1>3. t \in Seq(Events) /\ \A kind : Filled(t, kind, {})
  <2>1. \A s \in {<<>>, <<MessageStart>>, <<BlockStop(0)>>, Ending, StopAll(tool_indices)} :
            s \in Seq(Events) /\ \A kind : Filled(s, kind, {})
    BY <1>1, BareEvents
  <2>2. ASSUME NEW s \in {<<MessageStart>>, <<BlockStop(0)>>, StopAll(tool_indices)}, t = s \o Ending
        PROVE  t \in Seq(Events) /\ \A kind : Filled(t, kind, {})
    <3>. DEFINE e == Ending
    <3>1. s \in Seq(Events) /\ e \in Seq(Events) /\ \A kind : Filled(s, kind, {}) /\ Filled(e, kind, {})
      BY <2>1
    <3>2. t = s \o e
      BY <2>2
    <3>. HIDE DEF t, e
    <3>3. ASSUME NEW kind PROVE s \o e \in Seq(Events) /\ Filled(s \o e, kind, {})
      BY <3>1, FilledMore
    <3>. QED BY <3>2, <3>3
  <2>3. CASE state = "Initial"
    <3>1. t = <<MessageStart>> \o Ending
      BY <2>3 DEF FinishInner, Outcome
    <3>. QED BY <3>1, <2>2
  <2>4. CASE state = "TextContent"
    <3>1. t = <<BlockStop(0)>> \o Ending
      BY <2>4 DEF FinishInner, Outcome
    <3>. QED BY <3>1, <2>2
  <2>5. CASE state = "ToolCalls"
    <3>1. t = StopAll(tool_indices) \o Ending
      BY <2>5 DEF FinishInner, Outcome
    <3>. QED BY <3>1, <2>2
  <2>6. CASE state = "Finished"
    <3>1. t = <<>>
      BY <2>6 DEF FinishInner, Outcome
    <3>. QED BY <3>1, <2>1
  <2>. QED BY <1>1, <2>3, <2>4, <2>5, <2>6 DEF States
<1>4. sent' = sent \o t /\ state' = "Finished" /\ announced' = announced
  BY DEF Translated, FinishInner, Outcome
<1>. HIDE DEF t
<1>5. ASSUME NEW kind, NEW A, Filled(sent, kind, A) PROVE Filled(sent', kind, A)
  BY <1>1, <1>3, <1>4, <1>5, FilledMore
<1>6. \/ announced = {} /\ Filled(sent, "text", {0})
      \/ Filled(sent, "tool", announced)
  BY <1>1, <1>2 DEF Shaped, States
<1>7. \/ announced' = {} /\ Filled(sent', "text", {0})
      \/ Filled(sent', "tool", announced')
  BY <1>4, <1>5, <1>6
<1>. QED BY <1>4, <1>7 DEF Shaped, Filled, StartAt, DeltaAt

LEMMA StepShaped == IInv /\ KeptInv /\ ShapedInv /\ [Next]_vars => ShapedInv'
<1>. SUFFICES ASSUME IInv, KeptInv, ShapedInv, [Next]_vars PROVE ShapedInv'
  OBVIOUS
<1>1. CASE PollChunk
  BY <1>1, ChunkShaped
<1>2. CASE PollDone
  <2>1. Translated(FinishInner) /\ UNCHANGED <<odd, announced>>
    BY <1>2 DEF PollDone
  <2>. QED BY <2>1, FinishInnerShaped
<1>3. CASE PollEnd
  <2>1. Translated(FinishInner) /\ UNCHANGED <<odd, announced>>
    BY <1>3 DEF PollEnd, provider
  <2>. QED BY <2>1, FinishInnerShaped
<1>4. CASE Drop \/ UNCHANGED vars
  <2>1. UNCHANGED <<sent, state, tool_indices, announced, odd>>
    BY <1>4 DEF Drop, vars, translator, provider
  <2>2. CASE Mixing \cap odd = {}
    <3>1. Shaped
      BY <2>2 DEF ShapedInv
    <3>2. Shaped'
      BY <2>1, <3>1 DEF Shaped, Filled, StartAt, DeltaAt
    <3>. QED BY <3>2 DEF ShapedInv
  <2>3. CASE Mixing \cap odd # {}
    BY <2>1, <2>3 DEF ShapedInv, Mixing
  <2>. QED BY <2>2, <2>3
<1>. QED BY <1>1, <1>2, <1>3, <1>4 DEF Next

LEMMA InitShaped == Init => ShapedInv
<1>. SUFFICES ASSUME Init PROVE Shaped
  BY DEF ShapedInv
<1>1. state = "Initial" /\ announced = {} /\ sent = <<>>
  BY DEF Init
<1>2. Bare(<<>>)
  BY DEF Bare
<1>3. \A kind : Filled(<<>>, kind, {})
  BY <1>2, BareFilled
<1>. QED BY <1>1, <1>3 DEF Shaped

-----------------------------------------------------------------------------
(* The calls in their order *)

Rising(u, m) == \A j, k \in 1..m : j < k => u[j] < u[k]
Onto(u, m, A) == \A i \in A : \E k \in 1..m : u[k] = i

\* Where the first place at which they differ has the smaller element in u, the
\* element is missing in v.
LEMMA RisingMeet ==
    ASSUME NEW m \in Nat, NEW A, A \subseteq Nat, NEW u \in [1..m -> A], NEW v \in [1..m -> A],
           Rising(u, m), Rising(v, m), Onto(v, m, A),
           NEW k \in 1..m, \A j \in 1..m : j < k => u[j] = v[j]
    PROVE  ~(u[k] < v[k])
<1>1. SUFFICES ASSUME u[k] < v[k] PROVE FALSE
  OBVIOUS
<1>2. \A j \in 1..m : u[j] \in Nat /\ v[j] \in Nat
  OBVIOUS
<1>3. PICK j \in 1..m : v[j] = u[k]
  <2>1. u[k] \in A
    OBVIOUS
  <2>. QED BY <2>1 DEF Onto
<1>4. j < k
  <2>1. CASE j > k
    <3>1. v[k] < v[j]
      BY <2>1 DEF Rising
    <3>. QED BY <3>1, <1>1, <1>2, <1>3
  <2>2. CASE j = k
    BY <2>2, <1>1, <1>2, <1>3
  <2>. QED BY <2>1, <2>2
<1>5. u[j] = u[k] /\ u[j] < u[k]
  BY <1>3, <1>4 DEF Rising
<1>. QED BY <1>2, <1>5

\* A set has one rising list.
LEMMA RisingUnique ==
    ASSUME NEW m \in Nat, NEW A, A \subseteq Nat, NEW u \in [1..m -> A], NEW v \in [1..m -> A],
           Rising(u, m), Rising(v, m), Onto(u, m, A), Onto(v, m, A)
    PROVE  u = v
<1>. DEFINE S == {k \in 1..m : u[k] # v[k]}
<1>1. CASE S # {}
  <2>1. S \subseteq Nat
    OBVIOUS
  <2>2. PICK k \in S : \A j \in S : k <= j
    <3>. HIDE DEF S
    <3>. QED BY <2>1, <1>1, LeastNatural
  <2>3. k \in 1..m /\ u[k] # v[k] /\ u[k] \in Nat /\ v[k] \in Nat
    BY <2>2
  <2>4. \A j \in 1..m : j < k => u[j] = v[j]
    BY <2>2, <2>3
  <2>5. ~(u[k] < v[k])
    BY <2>3, <2>4, RisingMeet
  <2>6. ~(v[k] < u[k])
    <3>1. \A j \in 1..m : j < k => v[j] = u[j]
      BY <2>4
    <3>. QED BY <2>3, <3>1, RisingMeet
  <2>. QED BY <2>3, <2>5, <2>6
<1>2. CASE S = {}
  BY <1>2
<1>. QED BY <1>1, <1>2

\* A rising list of the announced indices is the order of the calls.
LEMMA CallsSorted ==
    ASSUME announced \subseteq Nat, NEW m \in Nat, NEW u \in [1..m -> announced],
           Rising(u, m), Onto(u, m, announced)
    PROVE  CallsInOrder = u
<1>. DEFINE A == announced
            Q(q) == \A j, k \in DOMAIN q : j < k => q[j] < q[k]
<1>1. ASSUME NEW v \in [1..m -> A], Rising(v, m) PROVE v \in Injection(1..m, A)
  <2>1. \A j, k \in 1..m : v[j] = v[k] => j = k
    <3>. SUFFICES ASSUME NEW j \in 1..m, NEW k \in 1..m, v[j] = v[k], j # k PROVE FALSE
      OBVIOUS
    <3>1. v[j] \in Nat /\ v[k] \in Nat
      OBVIOUS
    <3>2. CASE j < k
      <4>1. v[j] < v[k]
        BY <3>2, <1>1 DEF Rising
      <4>. QED BY <3>1, <4>1
    <3>3. CASE k < j
      <4>1. v[k] < v[j]
        BY <3>3, <1>1 DEF Rising
      <4>. QED BY <3>1, <4>1
    <3>. QED BY <3>2, <3>3
  <2>2. DOMAIN v = 1..m
    OBVIOUS
  <2>. QED BY <2>1, <2>2 DEF Injection, IsInjective
<1>2. u \in Surjection(1..m, A)
  BY DEF Surjection, Onto
<1>3. ExistsBijection(1..m, A)
  BY <1>1, <1>2 DEF ExistsBijection, Bijection
<1>4. IsFiniteSet(1..m) /\ Cardinality(1..m) = m
  BY FS_Interval
<1>5. IsFiniteSet(A) /\ Cardinality(A) = m
  BY <1>3, <1>4, FS_Bijection
<1>6. \A v \in [1..m -> A] : Q(v) <=> Rising(v, m)
  BY DEF Rising
<1>7. CallsInOrder = CHOOSE q \in [1..m -> A] : Q(q)
  BY <1>5 DEF CallsInOrder
<1>8. CallsInOrder \in [1..m -> A] /\ Q(CallsInOrder)
  <2>1. Q(u)
    BY <1>6
  <2>. HIDE DEF Q
  <2>. QED BY <2>1, <1>7
<1>. DEFINE v == CallsInOrder
<1>. HIDE DEF v, Q
<1>9. v \in [1..m -> A] /\ Rising(v, m)
  BY <1>6, <1>8 DEF v
<1>10. v \in Surjection(1..m, A)
  <2>1. v \in Injection(1..m, A)
    BY <1>1, <1>9
  <2>. QED BY <2>1, <1>4, <1>5, FS_Injection
<1>11. Onto(v, m, A)
  BY <1>10 DEF Surjection, Onto
<1>12. u = v
  <2>. HIDE DEF A
  <2>1. A \subseteq Nat /\ u \in [1..m -> A] /\ Onto(u, m, A)
    BY DEF A
  <2>. QED BY <2>1, <1>9, <1>11, RisingUnique
<1>. QED BY <1>12 DEF v

-----------------------------------------------------------------------------
(* Why the message stopped *)

\* A chunk ends the message exactly when it gives a reason.
LEMMA PushState ==
    ASSUME state \in States, NEW c \in Chunk
    PROVE  PushChunk(c).state = "Finished" <=> c.finish \/ state = "Finished"
<1>1. c.finish \in BOOLEAN /\ c.delta \in {"none", "text", "tools"}
  BY DEF Chunk
<1>2. \A o, q : Finishing(o, q).state = "Finished"
  BY DEF Finishing, Outcome
<1>3. CASE state = "Initial"
  <2>. DEFINE shown ==
          CASE c.delta = "none" -> Outcome(<<MessageStart>>, "Initial", <<>>)
            [] c.delta = "tools" -> Outcome(<<MessageStart>> \o OpenAll(c.calls),
                                            "ToolCalls", Indices(c.calls))
            [] c.delta = "text" -> Outcome(<<MessageStart, BlockStart("text", 0)>> \o TextEvents(c),
                                           "TextContent", <<>>)
  <2>1. shown.state # "Finished"
    BY <1>1 DEF Outcome
  <2>2. PushChunk(c) = IF c.finish THEN Finishing(shown, <<>>) ELSE shown
    BY <1>3 DEF PushChunk, HandleInitial
  <2>. HIDE DEF shown
  <2>. QED BY <2>1, <2>2, <1>1, <1>2, <1>3
<1>4. CASE state = "TextContent"
  <2>. DEFINE shown ==
          CASE c.delta = "none" -> Outcome(<<>>, "TextContent", <<>>)
            [] c.delta = "tools" -> Outcome(<<BlockStop(0)>> \o OpenAll(c.calls),
                                            "ToolCalls", Indices(c.calls))
            [] c.delta = "text" -> Outcome(TextEvents(c), "TextContent", <<>>)
  <2>1. shown.state # "Finished"
    BY <1>1 DEF Outcome
  <2>2. PushChunk(c) = IF c.finish THEN Finishing(shown, <<BlockStop(0)>>) ELSE shown
    BY <1>4 DEF PushChunk, HandleText
  <2>. HIDE DEF shown
  <2>. QED BY <2>1, <2>2, <1>1, <1>2, <1>4
<1>5. CASE state = "ToolCalls"
  <2>. DEFINE shown == Outcome(IF c.delta = "tools" THEN OpenUnknown(c.calls) ELSE <<>>,
                               "ToolCalls", tool_indices)
  <2>1. shown.state # "Finished"
    BY DEF Outcome
  <2>2. PushChunk(c) = IF c.finish THEN Finishing(shown, StopAll(tool_indices)) ELSE shown
    BY <1>5 DEF PushChunk, HandleToolCalls
  <2>. HIDE DEF shown
  <2>. QED BY <2>1, <2>2, <1>1, <1>2, <1>5
<1>6. CASE state = "Finished"
  BY <1>6 DEF PushChunk, Outcome
<1>. QED BY <1>3, <1>4, <1>5, <1>6 DEF States

LEMMA InitReason == Init => ReasonInv
BY DEF Init, ReasonInv

LEMMA StepReason == IInv /\ ReasonInv /\ [Next]_vars => ReasonInv'
<1>. SUFFICES ASSUME IInv, ReasonInv, [Next]_vars PROVE ReasonInv'
  OBVIOUS
<1>0. state \in States
  BY DEF IInv, TranslatorType
<1>s. \A r \in Reasons : StopReason(r) \in StopReasons /\ r # "none"
  BY DEF Reasons, StopReasons, StopReason
<1>1. CASE PollChunk
  <2>1. PICK c \in Chunk :
          /\ Provides(c) /\ Provide(c) /\ Translated(PushChunk(c))
          /\ Stopping(IF c.finish THEN StopReason(reason') ELSE stop_reason)
    BY <1>1 DEF PollChunk
  <2>2. /\ c.finish \in BOOLEAN /\ "finish" \in said => ~c.finish
        /\ ~finished /\ finished' = finished
    BY <1>1, <2>1 DEF PollChunk, Provides, Chunk
  <2>3. /\ "finish" \in said => "finish" \in said'
        /\ c.finish => "finish" \in said'
        /\ c.finish => reason' \in Reasons
        /\ ~c.finish => reason' = reason
    BY <2>1, <2>2 DEF Provide
  <2>4. state' = PushChunk(c).state
    BY <2>1 DEF Translated
  <2>5. state' = "Finished" <=> c.finish \/ state = "Finished"
    BY <2>4, <1>0, PushState
  <2>6. CASE c.finish
    <3>1. state # "Finished"
      BY <2>2, <2>6 DEF ReasonInv
    <3>2. stop_reason' = StopReason(reason')
      BY <2>1, <2>6, <3>1 DEF Stopping
    <3>. QED BY <2>3, <2>5, <2>6, <3>2, <1>s DEF ReasonInv
  <2>7. CASE ~c.finish
    <3>1. stop_reason' = stop_reason
      BY <2>1, <2>7 DEF Stopping
    <3>. QED BY <2>2, <2>3, <2>5, <2>7, <3>1 DEF ReasonInv
  <2>. QED BY <2>2, <2>6, <2>7
<1>2. ASSUME Translated(FinishInner), StoppingInner, UNCHANGED reason,
             "finish" \in said' \/ finished'
      PROVE  ReasonInv'
  <2>1. state' = "Finished"
    <3>1. FinishInner.state = "Finished"
      BY DEF FinishInner, Outcome
    <3>. QED BY <3>1, <1>2 DEF Translated
  <2>2. stop_reason' = IF state = "Finished" THEN stop_reason
                       ELSE IF state = "ToolCalls" THEN "tool_use" ELSE "end_turn"
    BY <1>2 DEF StoppingInner, Stopping
  <2>. QED BY <1>2, <2>1, <2>2 DEF ReasonInv, StopReasons
<1>3. CASE PollDone
  BY <1>2, <1>3 DEF PollDone
<1>4. CASE PollEnd
  BY <1>2, <1>4 DEF PollEnd, provider
<1>5. CASE Drop
  BY <1>5 DEF Drop, translator, provider, ReasonInv
<1>6. CASE UNCHANGED vars
  BY <1>6 DEF vars, translator, provider, ReasonInv
<1>. QED BY <1>1, <1>3, <1>4, <1>5, <1>6 DEF Next

-----------------------------------------------------------------------------
(* What the agent assembles *)

\* A block for every start, in their order.
LEMMA AssembledPlaces ==
    ASSUME sent \in Seq(Events)
    PROVE  \E m, pos : /\ Places(pos, m, {p \in 1..Len(sent) : StartAt(sent, p)}, Len(sent))
                       /\ Assembled = [k \in 1..m |-> Block(sent[pos[k]])]
<1>. DEFINE n == Len(sent)
            K == {p \in 1..n : StartAt(sent, p)}
            sel == Filtered(sent, LAMBDA e : e.ev = "content_block_start")
<1>. HIDE DEF Events
<1>1. n \in Nat
  OBVIOUS
<1>2. sel = Chosen(sent, K, n)
  BY DEF Filtered, Chosen, StartAt
<1>3. Assembled = [k \in 1..Len(sel) |-> Block(sel[k])]
  BY DEF Assembled, Mapped
<1>. HIDE DEF sel, K, n
<1>4. PICK m, pos : Places(pos, m, K, n) /\ ChosenAt(pos, m, K, n)
  BY <1>1, ChosenPlaces
<1>5. m \in Nat
  BY <1>4 DEF Places
<1>6. sel = [k \in 1..m |-> sent[pos[k]]]
  BY <1>2, <1>4 DEF ChosenAt
<1>7. Len(sel) = m /\ \A k \in 1..m : sel[k] = sent[pos[k]]
  BY <1>5, <1>6
<1>8. Assembled = [k \in 1..m |-> Block(sent[pos[k]])]
  BY <1>3, <1>7
<1>. QED BY <1>4, <1>8 DEF K, n

UseBlock(i) == [type |-> "tool_use", id |-> i, name |-> i, input |-> ArgumentsOf(i)]
TextBlock(t) == [type |-> "text", text |-> t]

\* A reply of calls: a block for each of them, in the order of their indices.
LEMMA CallsAssembled ==
    ASSUME sent \in Seq(Events), given \in Seq(Pieces), Kept, announced \subseteq Index, Unmixed,
           Filled(sent, "tool", announced)
    PROVE  /\ CallsInOrder \in Seq(Index)
           /\ Assembled = [k \in 1..Len(CallsInOrder) |-> UseBlock(CallsInOrder[k])]
           /\ Given("text") = <<>>
<1>. DEFINE n == Len(sent)
            K == {p \in 1..n : StartAt(sent, p)}
            A == announced
<1>. HIDE DEF Events, Pieces
<1>1. PICK m, pos : Places(pos, m, K, n) /\ Assembled = [k \in 1..m |-> Block(sent[pos[k]])]
  BY AssembledPlaces
<1>2. /\ m \in Nat /\ \A k \in 1..m : pos[k] \in 1..n /\ StartAt(sent, pos[k])
      /\ \A j, k \in 1..m : j < k => pos[j] < pos[k]
      /\ \A p \in 1..n : StartAt(sent, p) => \E k \in 1..m : pos[k] = p
  BY <1>1 DEF Places
<1>3. /\ \A p \in 1..n : StartAt(sent, p) => sent[p].kind = "tool" /\ sent[p].index \in A
      /\ \A i \in A : \E p \in 1..n : StartAt(sent, p) /\ sent[p].index = i
      /\ \A p, q \in 1..n : StartAt(sent, p) /\ StartAt(sent, q) /\ sent[p].index = sent[q].index => p = q
      /\ \A p \in 1..n : DeltaAt(sent, p) => sent[p].of.kind = "tool"
  BY DEF Filled
<1>4. A \subseteq Nat
  BY SseAssumption
<1>5. n \in Nat
  OBVIOUS
<1>6. ASSUME NEW p \in 1..n, NEW q \in 1..n, StartAt(sent, p), StartAt(sent, q), p < q
      PROVE  sent[p].index < sent[q].index
  <2>. DEFINE i == sent[p].index  j == sent[q].index
  <2>1. i \in A /\ j \in A /\ i \in Nat /\ j \in Nat /\ i # j
    <3>1. i \in A /\ j \in A
      BY <1>3, <1>6
    <3>2. i \in Nat /\ j \in Nat
      BY <3>1, <1>4
    <3>3. p # q
      BY <1>5, <1>6
    <3>4. i # j
      BY <3>3, <1>3, <1>6
    <3>. QED BY <3>1, <3>2, <3>4
  <2>2. p \in Starts(i) /\ q \in Starts(j)
    BY <1>6 DEF Starts, At, StartAt
  <2>3. j < i => q < p
    BY <2>1, <2>2 DEF Unmixed
  <2>. QED BY <2>1, <2>3, <1>5, <1>6
<1>. DEFINE u == [k \in 1..m |-> sent[pos[k]].index]
<1>. HIDE DEF A, n
<1>7. \A k \in 1..m : u[k] = sent[pos[k]].index /\ u[k] \in A
  BY <1>2, <1>3
<1>8. u \in [1..m -> A]
  BY <1>7
<1>. HIDE DEF u
<1>9. Rising(u, m)
  <2>. SUFFICES ASSUME NEW j \in 1..m, NEW k \in 1..m, j < k PROVE u[j] < u[k]
    BY DEF Rising
  <2>1. pos[j] < pos[k]
    BY <1>2
  <2>. QED BY <2>1, <1>2, <1>6, <1>7
<1>10. Onto(u, m, A)
  <2>. SUFFICES ASSUME NEW i \in A PROVE \E k \in 1..m : u[k] = i
    BY DEF Onto
  <2>1. PICK p \in 1..n : StartAt(sent, p) /\ sent[p].index = i
    BY <1>3
  <2>2. PICK k \in 1..m : pos[k] = p
    BY <2>1, <1>2
  <2>. QED BY <2>1, <2>2, <1>7
<1>11. CallsInOrder = u
  BY <1>2, <1>4, <1>8, <1>9, <1>10, CallsSorted DEF A
<1>12. u \in Seq(Index) /\ Len(u) = m
  <2>1. A \subseteq Index
    BY DEF A
  <2>. QED BY <2>1, <1>2, <1>8
<1>13. \A i : DeltasOf(i) = ArgumentsOf(i)
  <2>. SUFFICES ASSUME NEW i PROVE DeltasOf(i) = ArgumentsOf(i)
    OBVIOUS
  <2>1. \A p \in 1..Len(sent) : DeltaAt(sent, p) => sent[p].of.kind = "tool"
    BY <1>3 DEF n
  <2>. QED BY <2>1, ArgumentsArrive
<1>14. ASSUME NEW k \in 1..m PROVE Block(sent[pos[k]]) = UseBlock(u[k])
  <2>1. sent[pos[k]].kind = "tool" /\ sent[pos[k]].index = u[k]
    BY <1>2, <1>3, <1>7
  <2>. QED BY <2>1, <1>13 DEF Block, UseBlock
<1>15. Assembled = [k \in 1..m |-> UseBlock(u[k])]
  BY <1>1, <1>14
<1>16. Given("text") = <<>>
  <2>1. \A p \in 1..Len(sent) : DeltaAt(sent, p) => sent[p].of.kind # "text"
    BY <1>3 DEF n
  <2>2. "textAfterTools" \notin odd
    BY DEF Unmixed
  <2>. QED BY <2>1, <2>2, NoTextGiven
<1>. QED BY <1>11, <1>12, <1>15, <1>16

\* A reply of text: its only block.
LEMMA TextAssembled ==
    ASSUME sent \in Seq(Events), given \in Seq(Pieces), Kept, announced = {}, Unmixed,
           Filled(sent, "text", {0})
    PROVE  CallsInOrder = <<>> /\ Assembled = <<TextBlock(Given("text"))>> /\ Given("text") \in Seq(Pieces)
<1>. DEFINE n == Len(sent)
            K == {p \in 1..n : StartAt(sent, p)}
<1>. HIDE DEF Events, Pieces
<1>1. PICK m, pos : Places(pos, m, K, n) /\ Assembled = [k \in 1..m |-> Block(sent[pos[k]])]
  BY AssembledPlaces
<1>2. /\ m \in Nat /\ \A k \in 1..m : pos[k] \in 1..n /\ StartAt(sent, pos[k])
      /\ \A j, k \in 1..m : j < k => pos[j] < pos[k]
      /\ \A p \in 1..n : StartAt(sent, p) => \E k \in 1..m : pos[k] = p
  BY <1>1 DEF Places
<1>3. /\ \A p \in 1..n : StartAt(sent, p) => sent[p].kind = "text" /\ sent[p].index = 0
      /\ \E p \in 1..n : StartAt(sent, p)
      /\ \A p, q \in 1..n : StartAt(sent, p) /\ StartAt(sent, q) /\ sent[p].index = sent[q].index => p = q
      /\ \A p \in 1..n : DeltaAt(sent, p) => sent[p].of.kind = "text" /\ sent[p].index = 0
  BY DEF Filled
<1>4. n \in Nat
  OBVIOUS
<1>. HIDE DEF n
<1>5. m = 1
  <2>1. m >= 1
    BY <1>2, <1>3
  <2>2. CASE m > 1
    <3>1. 1 \in 1..m /\ 2 \in 1..m /\ 1 < 2
      BY <1>2, <2>2
    <3>2. pos[1] < pos[2]
      BY <3>1, <1>2
    <3>3. pos[1] \in 1..n /\ StartAt(sent, pos[1]) /\ pos[2] \in 1..n /\ StartAt(sent, pos[2])
      BY <3>1, <1>2
    <3>4. sent[pos[1]].index = 0 /\ sent[pos[2]].index = 0
      BY <3>3, <1>3
    <3>5. pos[1] = pos[2]
      BY <3>3, <3>4, <1>3
    <3>. QED BY <3>2, <3>3, <3>5, <1>4
  <2>. QED BY <2>1, <2>2, <1>2
<1>6. DeltasOf(0) = Given("text")
  <2>1. \A p \in 1..Len(sent) : DeltaAt(sent, p) => sent[p].of.kind = "text" /\ sent[p].index = 0
    BY <1>3 DEF n
  <2>2. "textAfterTools" \notin odd
    BY DEF Unmixed
  <2>. QED BY <2>1, <2>2, TextArrives
<1>7. Block(sent[pos[1]]) = TextBlock(Given("text"))
  <2>1. 1 \in 1..m
    BY <1>5
  <2>2. sent[pos[1]].kind = "text" /\ sent[pos[1]].index = 0
    BY <2>1, <1>2, <1>3
  <2>. QED BY <2>2, <1>6 DEF Block, TextBlock
<1>8. Assembled = <<TextBlock(Given("text"))>>
  <2>1. [k \in 1..1 |-> Block(sent[pos[k]])] = <<Block(sent[pos[1]])>>
    OBVIOUS
  <2>. QED BY <2>1, <1>1, <1>5, <1>7
<1>9. CallsInOrder = <<>>
  <2>. DEFINE u == [k \in 1..0 |-> 0]
  <2>1. u \in [1..0 -> announced] /\ Rising(u, 0) /\ Onto(u, 0, announced) /\ announced \subseteq Nat /\ u = <<>>
    BY DEF Rising, Onto
  <2>. HIDE DEF u
  <2>. QED BY <2>1, CallsSorted
<1>10. Given("text") \in Seq(Pieces)
  <2>1. \A kind : Given(kind) = Collect(given, PieceOf(kind))
    BY FragmentsCollected
  <2>2. PieceOf("text") \in [Pieces -> Seq(Pieces)]
    BY PieceOfType
  <2>. QED BY <2>1, <2>2, CollectType
<1>. QED BY <1>8, <1>9, <1>10

-----------------------------------------------------------------------------
(* What the translation of a message selects *)

\* Blocks that are all of a type, or none of them.
LEMMA OfTypeAll ==
    ASSUME NEW S, NEW v \in Seq(S), NEW type, \A k \in 1..Len(v) : v[k].type = type
    PROVE  OfType(v, type) = v
<1>. DEFINE K == {k \in 1..Len(v) : v[k].type = type}
<1>1. OfType(v, type) = Chosen(v, K, Len(v))
  BY DEF OfType, Filtered, Chosen
<1>2. 1..Len(v) \subseteq K
  OBVIOUS
<1>. HIDE DEF K
<1>. QED BY <1>1, <1>2, ChosenAll

LEMMA OfTypeNone ==
    ASSUME NEW S, NEW v \in Seq(S), NEW type, \A k \in 1..Len(v) : v[k].type # type
    PROVE  OfType(v, type) = <<>>
<1>. DEFINE K == {k \in 1..Len(v) : v[k].type = type}
<1>1. OfType(v, type) = Chosen(v, K, Len(v))
  BY DEF OfType, Filtered, Chosen
<1>2. K \cap (1..Len(v)) = {} /\ Len(v) \in Nat
  OBVIOUS
<1>. HIDE DEF K
<1>. QED BY <1>1, <1>2, ChosenNothing

\* Blocks that all say something, or none of them.
LEMMA SpokenAll ==
    ASSUME NEW S, NEW v \in Seq(S), \A k \in 1..Len(v) : v[k].type = "text" => v[k].text # <<>>
    PROVE  Spoken(v) = v
<1>. DEFINE K == {k \in 1..Len(v) : v[k].type = "text" => v[k].text # <<>>}
<1>1. Spoken(v) = Chosen(v, K, Len(v))
  BY DEF Spoken, Filtered, Chosen
<1>2. 1..Len(v) \subseteq K
  OBVIOUS
<1>. HIDE DEF K
<1>. QED BY <1>1, <1>2, ChosenAll

LEMMA SpokenNone ==
    ASSUME NEW S, NEW v \in Seq(S), \A k \in 1..Len(v) : v[k].type = "text" /\ v[k].text = <<>>
    PROVE  Spoken(v) = <<>>
<1>. DEFINE K == {k \in 1..Len(v) : v[k].type = "text" => v[k].text # <<>>}
<1>1. Spoken(v) = Chosen(v, K, Len(v))
  BY DEF Spoken, Filtered, Chosen
<1>2. K \cap (1..Len(v)) = {} /\ Len(v) \in Nat
  OBVIOUS
<1>. HIDE DEF K
<1>. QED BY <1>1, <1>2, ChosenNothing

\* Messages with a content are all converted.
LEMMA ConvertibleAll ==
    ASSUME NEW S, NEW v \in Seq(S), \A k \in 1..Len(v) : Convertible(v[k])
    PROVE  Filtered(v, Convertible) = v
<1>. DEFINE K == {k \in 1..Len(v) : Convertible(v[k])}
<1>1. Filtered(v, Convertible) = Chosen(v, K, Len(v))
  BY DEF Filtered, Chosen
<1>2. 1..Len(v) \subseteq K
  OBVIOUS
<1>. HIDE DEF K
<1>. QED BY <1>1, <1>2, ChosenAll

\* A list of one text is converted to that text.
LEMMA TextConverted ==
    ASSUME NEW S, NEW t \in Seq(S)
    PROVE  /\ OfType(<<TextBlock(t)>>, "text") = <<TextBlock(t)>>
           /\ Joined(<<TextBlock(t)>>) = t
           /\ ConvertContent(<<TextBlock(t)>>) = Text(t)
<1>. DEFINE b == TextBlock(t)  v == <<b>>  T == {b}
<1>1. v \in Seq(T) /\ Len(v) = 1 /\ v[1] = b /\ b.type = "text" /\ b.text = t
  BY DEF TextBlock
<1>. HIDE DEF b
<1>2. \A k \in 1..Len(v) : v[k].type = "text"
  BY <1>1
<1>3. OfType(v, "text") = v
  BY <1>1, <1>2, OfTypeAll
<1>4. Joined(v) = t
  <2>1. [k \in 1..Len(v) |-> v[k].text] = <<t>>
    BY <1>1
  <2>2. Joined(v) = FlattenSeq([k \in 1..Len(v) |-> v[k].text])
    BY <1>3 DEF Joined, Mapped
  <2>. QED BY <2>1, <2>2, FlattenOne
<1>5. Mapped(ConvertBlock, Filtered(v, IsContent)) = v
  <2>. DEFINE K == {k \in 1..Len(v) : IsContent(v[k])}
              w == Filtered(v, IsContent)
  <2>1. w = Chosen(v, K, Len(v))
    BY DEF Filtered, Chosen
  <2>2. 1..Len(v) \subseteq K
    BY <1>2 DEF IsContent
  <2>3. w = v
    <3>. HIDE DEF K, w, v
    <3>. QED BY <1>1, <2>1, <2>2, ChosenAll
  <2>. HIDE DEF w
  <2>4. Mapped(ConvertBlock, w) = [k \in 1..Len(w) |-> ConvertBlock(w[k])]
    BY DEF Mapped
  <2>5. ConvertBlock(b) = b
    BY <1>1 DEF ConvertBlock
  <2>6. [k \in 1..Len(w) |-> ConvertBlock(w[k])] = <<ConvertBlock(b)>>
    BY <2>3
  <2>. QED BY <2>4, <2>5, <2>6 DEF w
<1>6. ConvertContent(v) = Text(Joined(v))
  <2>1. v # <<>>
    BY <1>1
  <2>. HIDE DEF v
  <2>. QED BY <2>1, <1>3, <1>5 DEF ConvertContent
<1>. QED BY <1>3, <1>4, <1>6 DEF b

-----------------------------------------------------------------------------
(* The reply, streamed and whole *)

\* The two forms of the reply: its text, or its calls.
IsText == CallsInOrder = <<>> /\ Given("text") \in Seq(Pieces) /\ Assembled = <<TextBlock(Given("text"))>>
IsCalls ==
    /\ CallsInOrder \in Seq(Index) /\ Given("text") = <<>>
    /\ Assembled = [k \in 1..Len(CallsInOrder) |-> UseBlock(CallsInOrder[k])]

CallOf(i) == [id |-> i, name |-> i, arguments |-> ArgumentsOf(i)]

\* The fields of the reply.
LEMMA ReplyIs ==
    /\ Reply.content = Given("text")
    /\ Reply.tool_calls = [k \in 1..Len(CallsInOrder) |-> CallOf(CallsInOrder[k])]
    /\ Reply = [content |-> Reply.content, tool_calls |-> Reply.tool_calls]
BY DEF Reply, CallOf

\* A reply that has ended and is not mixed has one of them.
LEMMA ReplyForms ==
    ASSUME IInv, KeptInv, ShapedInv, Unmixed
    PROVE  IsText \/ IsCalls
<1>. HIDE DEF Events, Pieces
<1>1. /\ sent \in Seq(Events) /\ given \in Seq(Pieces) /\ announced \subseteq Index /\ state \in States
      /\ Kept
  BY GivenType DEF IInv, BodyType, ProviderType, TranslatorType, KeptInv
<1>2. Shaped
  BY DEF Unmixed, ShapedInv, Mixing
<1>3. \/ announced = {} /\ Filled(sent, "text", {0})
      \/ Filled(sent, "tool", announced)
  BY <1>1, <1>2 DEF Shaped, States
<1>4. CASE announced = {} /\ Filled(sent, "text", {0})
  BY <1>1, <1>4, TextAssembled DEF IsText
<1>5. CASE Filled(sent, "tool", announced)
  BY <1>1, <1>5, CallsAssembled DEF IsCalls
<1>. QED BY <1>3, <1>4, <1>5

\* A whole reply: its text, then its calls.
LEMMA WholeReply ==
    /\ Whole.content = TextBlocks(Reply) \o ToolUseBlocks(Reply)
    /\ Whole.stop_reason = MapFinishReason(reason)
<1>. DEFINE choice == [message |-> Reply, finish_reason |-> reason]
            choices == <<choice>>
            val == [choices |-> choices]
<1>1. choice.message = Reply /\ choice.finish_reason = reason /\ choices # <<>> /\ choices[1] = choice
  OBVIOUS
<1>. HIDE DEF choice
<1>2. val.choices = choices /\ "error" \notin DOMAIN val /\ "choices" \in DOMAIN val
  OBVIOUS
<1>. HIDE DEF choices, val
<1>3. TranslateResponse(val) = TranslateSuccess(choices)
  BY <1>2 DEF TranslateResponse
<1>4. /\ TranslateSuccess(choices).content = TextBlocks(choices[1].message) \o ToolUseBlocks(choices[1].message)
      /\ TranslateSuccess(choices).stop_reason = MapFinishReason(choices[1].finish_reason)
  BY <1>1 DEF TranslateSuccess
<1>5. Whole = TranslateResponse(val)
  BY DEF Whole, val, choices, choice
<1>. QED BY <1>1, <1>3, <1>4, <1>5

\* Text: the block that says nothing is the one that a whole reply has not.
LEMMA TextWhole ==
    ASSUME IsText
    PROVE  Spoken(Assembled) = TextBlocks(Reply) \o ToolUseBlocks(Reply)
<1>. DEFINE t == Given("text")  b == TextBlock(t)  v == <<b>>  T == {b}
<1>. HIDE DEF Pieces
<1>1. Assembled = v
  BY DEF IsText
<1>2. v \in Seq(T) /\ Len(v) = 1 /\ v[1] = b /\ b.type = "text" /\ b.text = t
  BY DEF TextBlock
<1>3. ToolUseBlocks(Reply) = <<>>
  <2>1. Reply.tool_calls = [k \in 1..Len(<<>>) |-> CallOf(CallsInOrder[k])]
    BY ReplyIs DEF IsText
  <2>2. [k \in 1..Len(<<>>) |-> CallOf(CallsInOrder[k])] = <<>>
    OBVIOUS
  <2>3. Reply.tool_calls = <<>>
    BY <2>1, <2>2
  <2>. QED BY <2>3 DEF ToolUseBlocks
<1>4. TextBlocks(Reply) = IF t = <<>> THEN <<>> ELSE v
  BY ReplyIs DEF TextBlocks, TextBlock
<1>. HIDE DEF b, v, t, T
<1>5. v \o <<>> = v /\ <<>> \o <<>> = <<>>
  <2>1. <<>> \in Seq(T)
    OBVIOUS
  <2>. QED BY <1>2, <2>1, ConcatEmptySeq
<1>6. \A k \in 1..Len(v) : v[k].type = "text" /\ v[k].text = t
  BY <1>2
<1>7. CASE t = <<>>
  <2>1. Spoken(v) = <<>>
    BY <1>2, <1>6, <1>7, SpokenNone
  <2>. QED BY <2>1, <1>1, <1>3, <1>4, <1>5, <1>7
<1>8. CASE t # <<>>
  <2>1. \A k \in 1..Len(v) : v[k].type = "text" => v[k].text # <<>>
    BY <1>6, <1>8
  <2>2. Spoken(v) = v
    BY <1>2, <2>1, SpokenAll
  <2>. QED BY <2>2, <1>1, <1>3, <1>4, <1>5, <1>8
<1>. QED BY <1>7, <1>8

\* What the blocks of calls are.
LEMMA CallBlocks ==
    ASSUME IsCalls
    PROVE  /\ Assembled \in Seq({UseBlock(i) : i \in Index}) /\ Len(Assembled) = Len(CallsInOrder)
           /\ Len(CallsInOrder) \in Nat
           /\ \A k \in 1..Len(Assembled) :
                 /\ CallsInOrder[k] \in Index /\ Assembled[k] = UseBlock(CallsInOrder[k])
                 /\ Assembled[k].type = "tool_use"
<1>. DEFINE q == CallsInOrder  m == Len(q)  T == {UseBlock(i) : i \in Index}
<1>1. q \in Seq(Index) /\ m \in Nat
  BY DEF IsCalls
<1>2. Assembled = [k \in 1..m |-> UseBlock(q[k])]
  BY DEF IsCalls
<1>. HIDE DEF q, m
<1>3. \A k \in 1..m : q[k] \in Index
  BY <1>1 DEF m
<1>4. \A k \in 1..m : UseBlock(q[k]) \in T
  BY <1>3
<1>. HIDE DEF T
<1>5. Assembled \in Seq(T) /\ Len(Assembled) = m /\ \A k \in 1..m : Assembled[k] = UseBlock(q[k])
  BY <1>1, <1>2, <1>4
<1>6. \A i : UseBlock(i).type = "tool_use"
  BY DEF UseBlock
<1>. QED BY <1>1, <1>3, <1>5, <1>6 DEF q, m, T

\* Calls: a block for each, either way.
LEMMA CallsWhole ==
    ASSUME IsCalls, Uncut
    PROVE  Spoken(Assembled) = TextBlocks(Reply) \o ToolUseBlocks(Reply)
<1>. DEFINE q == CallsInOrder  m == Len(q)  T == {UseBlock(i) : i \in Index}
<1>1. /\ Assembled \in Seq(T) /\ Len(Assembled) = m /\ m \in Nat
      /\ \A k \in 1..Len(Assembled) : Assembled[k].type = "tool_use"
  BY CallBlocks
<1>2. Assembled = [k \in 1..m |-> UseBlock(q[k])]
  BY DEF IsCalls
<1>3. TextBlocks(Reply) = <<>>
  BY ReplyIs DEF IsCalls, TextBlocks
<1>4. \A i : Parses(ArgumentsOf(i)) \/ ArgumentsOf(i) = <<>> => ToolUse(CallOf(i)) = UseBlock(i)
  BY DEF ToolUse, CallOf, UseBlock
<1>. HIDE DEF q, m, T
<1>5. Reply.tool_calls = [k \in 1..m |-> CallOf(q[k])]
  BY ReplyIs DEF m, q
<1>6. Len(Reply.tool_calls) = m /\ \A k \in 1..m : Reply.tool_calls[k] = CallOf(q[k])
  BY <1>1, <1>5
<1>7. ToolUseBlocks(Reply) = [k \in 1..m |-> UseBlock(q[k])]
  <2>1. ToolUseBlocks(Reply) = [k \in 1..m |-> ToolUse(Reply.tool_calls[k])]
    BY <1>6 DEF ToolUseBlocks
  <2>2. ASSUME NEW k \in 1..m PROVE ToolUse(Reply.tool_calls[k]) = UseBlock(q[k])
    <3>1. Reply.tool_calls[k].arguments = <<>> \/ Parses(Reply.tool_calls[k].arguments)
      BY <1>6 DEF Uncut
    <3>2. Reply.tool_calls[k] = CallOf(q[k]) /\ CallOf(q[k]).arguments = ArgumentsOf(q[k])
      BY <1>6 DEF CallOf
    <3>3. Parses(ArgumentsOf(q[k])) \/ ArgumentsOf(q[k]) = <<>>
      BY <3>1, <3>2
    <3>. QED BY <3>2, <3>3, <1>4
  <2>. QED BY <2>1, <2>2
<1>8. Spoken(Assembled) = Assembled
  <2>1. \A k \in 1..Len(Assembled) : Assembled[k].type = "text" => Assembled[k].text # <<>>
    BY <1>1
  <2>. QED BY <2>1, <1>1, SpokenAll
<1>9. <<>> \o Assembled = Assembled
  BY <1>1, ConcatEmptySeq
<1>. QED BY <1>2, <1>3, <1>7, <1>8, <1>9

\* The two tables of reasons agree.
LEMMA ReasonsAgree == ASSUME NEW r \in Reasons PROVE StopReason(r) = MapFinishReason(r)
BY DEF Reasons, StopReason, MapFinishReason

LEMMA StreamedImplied == IInv /\ KeptInv /\ ShapedInv /\ ReasonInv => StreamedAsWhole
<1>. SUFFICES ASSUME IInv, KeptInv, ShapedInv, ReasonInv, Unmixed, Uncut
     PROVE  /\ Spoken(Assembled) = Whole.content
            /\ reason # "none" => stop_reason = Whole.stop_reason
  BY DEF StreamedAsWhole
<1>1. Spoken(Assembled) = Whole.content
  BY ReplyForms, TextWhole, CallsWhole, WholeReply
<1>2. reason # "none" => stop_reason = MapFinishReason(reason)
  BY ReasonsAgree DEF ReasonInv
<1>. QED BY <1>1, <1>2, WholeReply

-----------------------------------------------------------------------------
(* The next request *)

\* Short lists, joined.
LEMMA PairAndOne == ASSUME NEW a, NEW b, NEW c PROVE <<a, b>> \o <<c>> = <<a, b, c>>
<1>. DEFINE S == {a, b, c}  x == <<a, b>>  y == <<c>>  z == <<a, b, c>>
<1>1. /\ x \in Seq(S) /\ y \in Seq(S) /\ z \in Seq(S)
      /\ Len(x) = 2 /\ Len(y) = 1 /\ Len(z) = 3
      /\ x[1] = a /\ x[2] = b /\ y[1] = c /\ z[1] = a /\ z[2] = b /\ z[3] = c
  OBVIOUS
<1>. HIDE DEF x, y, z, S
<1>2. x \o y \in Seq(S) /\ Len(x \o y) = 3 /\ (x \o y)[1] = a /\ (x \o y)[2] = b /\ (x \o y)[3] = c
  <2>1. /\ x \o y \in Seq(S) /\ Len(x \o y) = 3
        /\ \A i \in 1..3 : (x \o y)[i] = IF i <= 2 THEN x[i] ELSE y[i - 2]
    <3>1. Len(x) = 2 /\ Len(x) + Len(y) = 3
      BY <1>1
    <3>2. /\ x \o y \in Seq(S) /\ Len(x \o y) = Len(x) + Len(y)
          /\ \A i \in 1..Len(x) + Len(y) : (x \o y)[i] = IF i <= Len(x) THEN x[i] ELSE y[i - Len(x)]
      BY <1>1, ConcatProperties, ZenonT(30)
    <3>. QED BY <3>1, <3>2
  <2>2. /\ 1 \in 1..3 /\ 2 \in 1..3 /\ 3 \in 1..3
        /\ 1 <= 2 /\ 2 <= 2 /\ ~(3 <= 2) /\ 3 - 2 = 1
    OBVIOUS
  <2>3. (x \o y)[1] = x[1] /\ (x \o y)[2] = x[2] /\ (x \o y)[3] = y[1]
    BY <2>1, <2>2
  <2>. QED BY <2>1, <2>3, <1>1
<1>3. \A i \in 1..3 : i = 1 \/ i = 2 \/ i = 3
  OBVIOUS
<1>4. x \o y = z
  BY <1>1, <1>2, <1>3, SeqEqual
<1>. QED BY <1>4 DEF x, y, z

LEMMA OneAndPair == ASSUME NEW a, NEW b, NEW c PROVE <<a>> \o <<b, c>> = <<a, b, c>>
<1>. DEFINE S == {a, b, c}  x == <<a>>  y == <<b, c>>  z == <<a, b, c>>
<1>1. /\ x \in Seq(S) /\ y \in Seq(S) /\ z \in Seq(S)
      /\ Len(x) = 1 /\ Len(y) = 2 /\ Len(z) = 3
      /\ x[1] = a /\ y[1] = b /\ y[2] = c /\ z[1] = a /\ z[2] = b /\ z[3] = c
  OBVIOUS
<1>. HIDE DEF x, y, z, S
<1>2. x \o y \in Seq(S) /\ Len(x \o y) = 3 /\ (x \o y)[1] = a /\ (x \o y)[2] = b /\ (x \o y)[3] = c
  <2>1. /\ x \o y \in Seq(S) /\ Len(x \o y) = 3
        /\ \A i \in 1..3 : (x \o y)[i] = IF i <= 1 THEN x[i] ELSE y[i - 1]
    <3>1. Len(x) = 1 /\ Len(x) + Len(y) = 3
      BY <1>1
    <3>2. /\ x \o y \in Seq(S) /\ Len(x \o y) = Len(x) + Len(y)
          /\ \A i \in 1..Len(x) + Len(y) : (x \o y)[i] = IF i <= Len(x) THEN x[i] ELSE y[i - Len(x)]
      BY <1>1, ConcatProperties, ZenonT(30)
    <3>. QED BY <3>1, <3>2
  <2>2. /\ 1 \in 1..3 /\ 2 \in 1..3 /\ 3 \in 1..3
        /\ 1 <= 1 /\ ~(2 <= 1) /\ 2 - 1 = 1 /\ ~(3 <= 1) /\ 3 - 1 = 2
    OBVIOUS
  <2>3. (x \o y)[1] = x[1] /\ (x \o y)[2] = y[1] /\ (x \o y)[3] = y[2]
    BY <2>1, <2>2
  <2>. QED BY <2>1, <2>3, <1>1
<1>3. \A i \in 1..3 : i = 1 \/ i = 2 \/ i = 3
  OBVIOUS
<1>4. x \o y = z
  BY <1>1, <1>2, <1>3, SeqEqual
<1>. QED BY <1>4 DEF x, y, z

LEMMA OneAndThree == ASSUME NEW a, NEW b, NEW c, NEW d PROVE <<a>> \o <<b, c, d>> = <<a, b, c, d>>
<1>. DEFINE S == {a, b, c, d}  x == <<a>>  y == <<b, c, d>>  z == <<a, b, c, d>>
<1>1. /\ x \in Seq(S) /\ y \in Seq(S) /\ z \in Seq(S)
      /\ Len(x) = 1 /\ Len(y) = 3 /\ Len(z) = 4
      /\ x[1] = a /\ y[1] = b /\ y[2] = c /\ y[3] = d /\ z[1] = a /\ z[2] = b /\ z[3] = c /\ z[4] = d
  OBVIOUS
<1>. HIDE DEF x, y, z, S
<1>2. /\ x \o y \in Seq(S) /\ Len(x \o y) = 4
      /\ (x \o y)[1] = a /\ (x \o y)[2] = b /\ (x \o y)[3] = c /\ (x \o y)[4] = d
  <2>1. /\ x \o y \in Seq(S) /\ Len(x \o y) = 4
        /\ \A i \in 1..4 : (x \o y)[i] = IF i <= 1 THEN x[i] ELSE y[i - 1]
    <3>1. Len(x) = 1 /\ Len(x) + Len(y) = 4
      BY <1>1
    <3>2. /\ x \o y \in Seq(S) /\ Len(x \o y) = Len(x) + Len(y)
          /\ \A i \in 1..Len(x) + Len(y) : (x \o y)[i] = IF i <= Len(x) THEN x[i] ELSE y[i - Len(x)]
      BY <1>1, ConcatProperties, ZenonT(30)
    <3>. QED BY <3>1, <3>2
  <2>2. /\ 1 \in 1..4 /\ 2 \in 1..4 /\ 3 \in 1..4 /\ 4 \in 1..4
        /\ 1 <= 1 /\ ~(2 <= 1) /\ 2 - 1 = 1 /\ ~(3 <= 1) /\ 3 - 1 = 2 /\ ~(4 <= 1) /\ 4 - 1 = 3
    OBVIOUS
  <2>3. (x \o y)[1] = x[1] /\ (x \o y)[2] = y[1] /\ (x \o y)[3] = y[2] /\ (x \o y)[4] = y[3]
    BY <2>1, <2>2
  <2>. QED BY <2>1, <2>3, <1>1
<1>3. \A i \in 1..4 : i = 1 \/ i = 2 \/ i = 3 \/ i = 4
  OBVIOUS
<1>4. x \o y = z
  BY <1>1, <1>2, <1>3, SeqEqual
<1>. QED BY <1>4 DEF x, y, z

SystemSaid == [role |-> "system", content |-> Text(<<"system">>)]
PromptSaid == [role |-> "user", content |-> Text(<<"prompt">>)]
Prompt == [role |-> "user", content |-> <<[type |-> "text", text |-> <<"prompt">>]>>]
Answer(content) == [role |-> "assistant", content |-> content]
Answered(results) == [role |-> "user", content |-> results]

\* The body of the request that is sent on.
LEMMA SentBody ==
    ASSUME NEW c
    PROVE  Sent(c) = <<SystemSaid>> \o Mapped(ConvertMessage, Filtered(Conversation(c), Convertible))
<1>. DEFINE r == Request(c)
<1>1. /\ "messages" \in DOMAIN r /\ "system" \in DOMAIN r
      /\ r.messages = Conversation(c) /\ r.system = <<TextBlock(<<"system">>)>>
  BY DEF Request, TextBlock
<1>. HIDE DEF r
<1>2. "messages" \in FieldsOf(r)
  <2>1. "messages" \notin Dropped /\ "messages" \notin DOMAIN Renamed
    BY DEF Dropped, Renamed
  <2>. QED BY <2>1, <1>1 DEF FieldsOf
<1>3. TranslateRequest(r, "/v1/messages").body = [f \in FieldsOf(r) |-> ConvertField(r, f)]
  BY <1>1 DEF TranslateRequest
<1>4. Sent(c) = ConvertField(r, "messages")
  BY <1>2, <1>3 DEF Sent, r
<1>5. ConvertField(r, "messages") = SystemMessage(r) \o Mapped(ConvertMessage, Filtered(r.messages, Convertible))
  BY DEF ConvertField
<1>6. SystemMessage(r) = <<SystemSaid>>
  <2>1. <<"system">> \in Seq({"system"})
    OBVIOUS
  <2>2. ConvertContent(r.system) = Text(<<"system">>)
    BY <2>1, <1>1, TextConverted
  <2>3. Text(<<"system">>) # Null
    <3>1. DOMAIN Text(<<"system">>) # DOMAIN Null
      BY DEF Text, Null
    <3>. QED BY <3>1
  <2>. QED BY <2>2, <2>3, <1>1 DEF SystemMessage, SystemSaid
<1>. QED BY <1>1, <1>4, <1>5, <1>6

\* The messages of the conversation, one by one.
LEMMA SentMessages ==
    ASSUME NEW c, NEW results, results = Mapped(Result, OfType(c, "tool_use"))
    PROVE  /\ results = <<>> => Sent(c) = <<SystemSaid, PromptSaid, ConvertAssistant(c)>>
           /\ results # <<>> => Sent(c) = <<SystemSaid, PromptSaid, ConvertAssistant(c), ConvertUser(results)>>
<1>. DEFINE a == Prompt  b == Answer(c)  d == Answered(results)
<1>1. Conversation(c) = <<a, b>> \o (IF results = <<>> THEN <<>> ELSE <<d>>)
  BY DEF Conversation, Prompt, Answer, Answered
<1>2. ConvertMessage(a) = PromptSaid
  <2>1. <<"prompt">> \in Seq({"prompt"})
    OBVIOUS
  <2>. DEFINE v == <<TextBlock(<<"prompt">>)>>
  <2>2. ConvertContent(v) = Text(<<"prompt">>)
    BY <2>1, TextConverted
  <2>3. OfType(v, "tool_result") = <<>>
    <3>. DEFINE x == TextBlock(<<"prompt">>)
    <3>1. x.type # "tool_result"
      BY DEF TextBlock
    <3>. HIDE DEF x
    <3>2. <<x>> \in Seq({x}) /\ \A k \in 1..Len(<<x>>) : <<x>>[k].type # "tool_result"
      BY <3>1
    <3>3. OfType(<<x>>, "tool_result") = <<>>
      BY <3>2, OfTypeNone
    <3>. QED BY <3>3 DEF x
  <2>4. a.role = "user" /\ a.content = v
    BY DEF Prompt, TextBlock
  <2>. HIDE DEF a, v
  <2>5. ConvertUser(v) = PromptSaid
    BY <2>2, <2>3 DEF ConvertUser, PromptSaid
  <2>. QED BY <2>4, <2>5 DEF ConvertMessage
<1>3. ConvertMessage(b) = ConvertAssistant(c)
  <2>1. b.role = "assistant" /\ b.content = c
    BY DEF Answer
  <2>. HIDE DEF b
  <2>. QED BY <2>1 DEF ConvertMessage
<1>4. ConvertMessage(d) = ConvertUser(results)
  <2>1. d.role = "user" /\ d.content = results
    BY DEF Answered
  <2>. HIDE DEF d
  <2>. QED BY <2>1 DEF ConvertMessage
<1>5. Convertible(a) /\ Convertible(b) /\ Convertible(d)
  BY DEF Convertible, Prompt, Answer, Answered
<1>. HIDE DEF a, b, d
<1>6. ASSUME results = <<>> PROVE Sent(c) = <<SystemSaid, PromptSaid, ConvertAssistant(c)>>
  <2>. DEFINE v == <<a, b>>  T == {a, b}
  <2>1. v \in Seq(T) /\ Len(v) = 2 /\ v[1] = a /\ v[2] = b /\ \A k \in 1..2 : k = 1 \/ k = 2
    OBVIOUS
  <2>2. Conversation(c) = v
    <3>1. v \o <<>> = v
      <4>. HIDE DEF v, T
      <4>. QED BY <2>1, ConcatEmptySeq
    <3>. QED BY <3>1, <1>1, <1>6
  <2>3. Filtered(v, Convertible) = v
    <3>1. \A k \in 1..Len(v) : Convertible(v[k])
      BY <2>1, <1>5
    <3>. HIDE DEF v, T
    <3>. QED BY <3>1, <2>1, ConvertibleAll
  <2>4. [k \in 1..Len(v) |-> ConvertMessage(v[k])] = <<ConvertMessage(a), ConvertMessage(b)>>
    OBVIOUS
  <2>5. Mapped(ConvertMessage, v) = <<PromptSaid, ConvertAssistant(c)>>
    BY <2>4, <1>2, <1>3 DEF Mapped
  <2>. QED BY <2>2, <2>3, <2>5, SentBody, OneAndPair
<1>7. ASSUME results # <<>> PROVE Sent(c) = <<SystemSaid, PromptSaid, ConvertAssistant(c), ConvertUser(results)>>
  <2>. DEFINE v == <<a, b, d>>  T == {a, b, d}
  <2>1. /\ v \in Seq(T) /\ Len(v) = 3 /\ v[1] = a /\ v[2] = b /\ v[3] = d
        /\ \A k \in 1..3 : k = 1 \/ k = 2 \/ k = 3
    OBVIOUS
  <2>2. Conversation(c) = v
    BY <1>1, <1>7, PairAndOne
  <2>3. Filtered(v, Convertible) = v
    <3>1. \A k \in 1..Len(v) : Convertible(v[k])
      BY <2>1, <1>5
    <3>. HIDE DEF v, T
    <3>. QED BY <3>1, <2>1, ConvertibleAll
  <2>4. [k \in 1..Len(v) |-> ConvertMessage(v[k])] = <<ConvertMessage(a), ConvertMessage(b), ConvertMessage(d)>>
    OBVIOUS
  <2>5. Mapped(ConvertMessage, v) = <<PromptSaid, ConvertAssistant(c), ConvertUser(results)>>
    BY <2>4, <1>2, <1>3, <1>4 DEF Mapped
  <2>. QED BY <2>2, <2>3, <2>5, SentBody, OneAndThree
<1>. QED BY <1>6, <1>7

\* What HistoryReturns asks of the messages.
Returns(messages) ==
    /\ messages[1].role = "system"
    /\ messages[2] = [role |-> "user", content |-> Text(<<"prompt">>)]
    /\ messages[3].role = "assistant" /\ Heard(messages[3]) = Reply
    /\ Len(Reply.tool_calls) = 0 => Len(messages) = 3
    /\ Len(Reply.tool_calls) = 1 => SubSeq(messages, 4, Len(messages)) = <<ResultMessage(Reply.tool_calls[1])>>

\* A reply without calls is the last message.
LEMMA NoResults ==
    ASSUME NEW message, message.role = "assistant", Heard(message) = Reply, Len(Reply.tool_calls) = 0,
           Sent(Assembled) = <<SystemSaid, PromptSaid, message>>
    PROVE  Returns(Sent(Assembled))
<1>1. SystemSaid.role = "system" /\ PromptSaid = [role |-> "user", content |-> Text(<<"prompt">>)]
  BY DEF SystemSaid, PromptSaid
<1>2. Len(Reply.tool_calls) # 1
  OBVIOUS
<1>3. /\ Len(Sent(Assembled)) = 3
      /\ Sent(Assembled)[1] = SystemSaid /\ Sent(Assembled)[2] = PromptSaid /\ Sent(Assembled)[3] = message
  OBVIOUS
<1>. QED BY <1>1, <1>2, <1>3 DEF Returns

\* A reply of calls is followed by the message of their results.
LEMMA OneResult ==
    ASSUME NEW message, NEW result, message.role = "assistant", Heard(message) = Reply,
           Len(Reply.tool_calls) # 0,
           Len(Reply.tool_calls) = 1 => result = ResultMessage(Reply.tool_calls[1]),
           Sent(Assembled) = <<SystemSaid, PromptSaid, message, result>>
    PROVE  Returns(Sent(Assembled))
<1>. DEFINE s == Sent(Assembled)  S == {SystemSaid, PromptSaid, message, result}
<1>1. SystemSaid.role = "system" /\ PromptSaid = [role |-> "user", content |-> Text(<<"prompt">>)]
  BY DEF SystemSaid, PromptSaid
<1>2. Len(s) = 4 /\ s[1] = SystemSaid /\ s[2] = PromptSaid /\ s[3] = message /\ s[4] = result
  OBVIOUS
<1>. HIDE DEF s
<1>3. SubSeq(s, 4, 4) = <<result>>
  <2>1. result \in S /\ <<result>> \in Seq(S) /\ Len(<<result>>) = 1 /\ <<result>>[1] = result
    OBVIOUS
  <2>. HIDE DEF S
  <2>2. \A i \in 4..4 : s[i] \in S
    BY <1>2, <2>1
  <2>3. /\ SubSeq(s, 4, 4) \in Seq(S)
        /\ Len(SubSeq(s, 4, 4)) = IF 4 <= 4 THEN 4 - 4 + 1 ELSE 0
        /\ \A i \in 1..4 - 4 + 1 : SubSeq(s, 4, 4)[i] = s[4 + i - 1]
    BY <2>2, SubSeqProperties
  <2>4. Len(SubSeq(s, 4, 4)) = 1 /\ SubSeq(s, 4, 4)[1] = result
    BY <2>3, <1>2
  <2>5. \A i \in 1..1 : i = 1
    OBVIOUS
  <2>. QED BY <2>1, <2>3, <2>4, <2>5, SeqEqual
<1>. QED BY <1>1, <1>2, <1>3 DEF Returns, s

\* A reply of text is in the next request.
LEMMA TextReturns ==
    ASSUME IsText
    PROVE  Returns(Sent(Assembled))
<1>. DEFINE t == Given("text")  b == TextBlock(t)  v == <<b>>
<1>. HIDE DEF Pieces
<1>1. Assembled = v /\ t \in Seq(Pieces)
  BY DEF IsText
<1>2. OfType(v, "tool_use") = <<>> /\ v # <<>>
  <2>1. b.type = "text"
    BY DEF TextBlock
  <2>. HIDE DEF b
  <2>2. v \in Seq({b}) /\ \A k \in 1..Len(v) : v[k].type # "tool_use"
    BY <2>1
  <2>3. v # <<>>
    OBVIOUS
  <2>. HIDE DEF v
  <2>. QED BY <2>2, <2>3, OfTypeNone
<1>3. Joined(v) = t
  BY <1>1, TextConverted
<1>4. Reply.tool_calls = <<>> /\ Reply.content = t
  <2>1. [k \in 1..Len(<<>>) |-> CallOf(CallsInOrder[k])] = <<>>
    OBVIOUS
  <2>. QED BY <2>1, ReplyIs DEF IsText
<1>. HIDE DEF v, t
<1>5. Mapped(ConvertToolUse, <<>>) = <<>> /\ Mapped(Result, <<>>) = <<>>
  BY DEF Mapped
<1>. DEFINE message == [role |-> "assistant", content |-> Text(t)]
<1>6. ConvertAssistant(v) = message
  BY <1>2, <1>3, <1>5 DEF ConvertAssistant
<1>7. message.role = "assistant" /\ Heard(message) = Reply
  <2>1. "tool_calls" \notin DOMAIN message /\ message.content = Text(t) /\ message.role = "assistant"
    OBVIOUS
  <2>2. Text(t) # Null /\ Text(t).text = t
    <3>1. DOMAIN Text(t) # DOMAIN Null
      BY DEF Text, Null
    <3>. QED BY <3>1 DEF Text
  <2>. HIDE DEF message
  <2>3. Heard(message) = [content |-> t, tool_calls |-> <<>>]
    BY <2>1, <2>2 DEF Heard
  <2>. QED BY <2>1, <2>3, <1>4, ReplyIs
<1>. HIDE DEF message
<1>8. Sent(v) = <<SystemSaid, PromptSaid, message>>
  BY <1>2, <1>5, <1>6, SentMessages
<1>9. Len(Reply.tool_calls) = 0
  BY <1>4
<1>. QED BY <1>1, <1>7, <1>8, <1>9, NoResults

\* A reply of calls is in the next request, with the result of its only call.
LEMMA CallsReturn ==
    ASSUME IsCalls
    PROVE  Returns(Sent(Assembled))
<1>. DEFINE q == CallsInOrder  m == Len(q)  T == {UseBlock(i) : i \in Index}  v == Assembled
<1>1. /\ v \in Seq(T) /\ Len(v) = m /\ m \in Nat
      /\ \A k \in 1..Len(v) : v[k] = UseBlock(q[k]) /\ v[k].type = "tool_use"
  BY CallBlocks
<1>. HIDE DEF q, m, T, v
<1>2. OfType(v, "tool_use") = v
  BY <1>1, OfTypeAll
<1>3. OfType(v, "text") = <<>>
  <2>1. \A k \in 1..Len(v) : v[k].type # "text"
    BY <1>1
  <2>. QED BY <2>1, <1>1, OfTypeNone
<1>. DEFINE calls == [k \in 1..m |-> CallOf(q[k])]
<1>4. Reply.content = <<>> /\ Reply.tool_calls = calls
  BY ReplyIs DEF IsCalls, q, m
<1>5. Mapped(ConvertToolUse, v) = calls
  <2>1. \A i : ConvertToolUse(UseBlock(i)) = CallOf(i)
    BY DEF ConvertToolUse, UseBlock, CallOf
  <2>2. Mapped(ConvertToolUse, v) = [k \in 1..m |-> ConvertToolUse(v[k])]
    BY <1>1 DEF Mapped
  <2>3. \A k \in 1..m : ConvertToolUse(v[k]) = CallOf(q[k])
    BY <2>1, <1>1
  <2>. QED BY <2>2, <2>3
<1>6. Len(calls) = m /\ (m >= 1 => calls[1] = CallOf(q[1]) /\ calls # <<>>)
  BY <1>1
<1>. HIDE DEF calls
<1>7. CASE m = 0
  <2>1. v = <<>> /\ calls = <<>>
    <3>1. v = <<>>
      BY <1>1, <1>7
    <3>2. calls = <<>>
      BY <1>7 DEF calls
    <3>. QED BY <3>1, <3>2
  <2>. DEFINE message == [role |-> "assistant", content |-> Null]
  <2>2. ConvertAssistant(v) = message
    BY <2>1, <1>2, <1>5 DEF ConvertAssistant
  <2>3. message.role = "assistant" /\ Heard(message) = Reply
    <3>1. "tool_calls" \notin DOMAIN message /\ message.content = Null /\ message.role = "assistant"
      OBVIOUS
    <3>. HIDE DEF message
    <3>2. Heard(message) = [content |-> <<>>, tool_calls |-> <<>>]
      BY <3>1 DEF Heard
    <3>. QED BY <3>1, <3>2, <2>1, <1>4, ReplyIs
  <2>. HIDE DEF message
  <2>4. Mapped(Result, v) = <<>>
    BY <2>1 DEF Mapped
  <2>5. Sent(v) = <<SystemSaid, PromptSaid, message>>
    BY <1>2, <2>2, <2>4, SentMessages
  <2>6. Len(Reply.tool_calls) = 0
    BY <1>4, <1>6, <1>7
  <2>. QED BY <2>3, <2>5, <2>6, NoResults DEF v
<1>8. CASE m # 0
  <2>1. m >= 1 /\ 1 \in 1..m /\ 1 \in 1..Len(v)
    BY <1>1, <1>8
  <2>. DEFINE message == [role |-> "assistant", content |-> Null, tool_calls |-> calls]
  <2>2. ConvertAssistant(v) = message
    <3>1. calls # <<>>
      BY <2>1, <1>6
    <3>. HIDE DEF message
    <3>2. ConvertAssistant(v) = [role |-> "assistant", content |-> Null, tool_calls |-> calls]
      BY <3>1, <1>2, <1>3, <1>5 DEF ConvertAssistant
    <3>. QED BY <3>2 DEF message
  <2>3. message.role = "assistant" /\ Heard(message) = Reply
    <3>1. /\ "tool_calls" \in DOMAIN message /\ message.content = Null /\ message.role = "assistant"
          /\ message.tool_calls = calls
      OBVIOUS
    <3>. HIDE DEF message
    <3>2. Heard(message) = [content |-> <<>>, tool_calls |-> calls]
      BY <3>1 DEF Heard
    <3>. QED BY <3>1, <3>2, <1>4, ReplyIs
  <2>. HIDE DEF message
  <2>. DEFINE results == Mapped(Result, v)
  <2>4. results = [k \in 1..m |-> Result(v[k])]
    BY <1>1 DEF Mapped
  <2>. HIDE DEF results
  <2>5. /\ results \in Seq({Result(v[k]) : k \in 1..m}) /\ Len(results) = m
        /\ \A k \in 1..m : results[k] = Result(v[k])
    BY <2>4, <1>1
  <2>6. results # <<>>
    BY <2>5, <1>8
  <2>7. Sent(v) = <<SystemSaid, PromptSaid, message, ConvertUser(results)>>
    <3>1. results = Mapped(Result, OfType(v, "tool_use"))
      BY <1>2 DEF results
    <3>. QED BY <3>1, <2>2, <2>6, SentMessages
  <2>8. ASSUME m = 1 PROVE ConvertUser(results) = ResultMessage(calls[1])
    <3>. DEFINE i == q[1]  d == <<"result of", i>>
    <3>1. results[1] = Result(UseBlock(i))
      BY <2>1, <2>5, <1>1
    <3>2. Result(UseBlock(i)) = [type |-> "tool_result", tool_use_id |-> i, content |-> <<TextBlock(d)>>]
      BY DEF Result, UseBlock, TextBlock
    <3>3. results[1].tool_use_id = i /\ results[1].content = <<TextBlock(d)>>
      <4>1. Result(UseBlock(i)).tool_use_id = i /\ Result(UseBlock(i)).content = <<TextBlock(d)>>
        <5>. HIDE DEF d
        <5>. DEFINE c == <<TextBlock(d)>>
        <5>1. Result(UseBlock(i)) = [type |-> "tool_result", tool_use_id |-> i, content |-> c]
          BY <3>2
        <5>. HIDE DEF c
        <5>2. Result(UseBlock(i)).tool_use_id = i /\ Result(UseBlock(i)).content = c
          BY <5>1
        <5>. QED BY <5>2 DEF c
      <4>. QED BY <3>1, <4>1
    <3>4. \A k \in 1..Len(results) : results[k].type = "tool_result"
      <4>1. \A use : Result(use).type = "tool_result"
        BY DEF Result
      <4>. QED BY <4>1, <2>5
    <3>5. OfType(results, "tool_result") = results
      <4>. DEFINE R == {Result(v[k]) : k \in 1..m}
      <4>1. results \in Seq(R)
        BY <2>5
      <4>. HIDE DEF R
      <4>. QED BY <4>1, <3>4, OfTypeAll
    <3>6. ConvertContent(<<TextBlock(d)>>) = Text(d)
      <4>1. d \in Seq({"result of", i})
        OBVIOUS
      <4>. HIDE DEF d
      <4>. QED BY <4>1, TextConverted
    <3>7. ConvertUser(results) = ToolMessage(results[1], ConvertContent(results[1].content))
      BY <3>5, <2>5, <2>6, <2>8 DEF ConvertUser
    <3>8. ConvertUser(results) = [role |-> "tool", tool_call_id |-> i, content |-> Text(d)]
      BY <3>3, <3>6, <3>7 DEF ToolMessage
    <3>9. calls[1].id = i
      BY <1>6, <2>1 DEF CallOf
    <3>. QED BY <3>8, <3>9 DEF ResultMessage
  <2>9. Len(Reply.tool_calls) # 0 /\ (Len(Reply.tool_calls) = 1 => ConvertUser(results) = ResultMessage(Reply.tool_calls[1]))
    BY <2>8, <1>4, <1>6, <1>8
  <2>. QED BY <2>3, <2>7, <2>9, OneResult DEF v
<1>. QED BY <1>7, <1>8

LEMMA HistoryImplied == IInv /\ KeptInv /\ ShapedInv => HistoryReturns
<1>. SUFFICES ASSUME IInv, KeptInv, ShapedInv, Ended, Unmixed PROVE HistoryReturns
  BY DEF HistoryReturns
<1>1. Returns(Sent(Assembled))
  BY ReplyForms, TextReturns, CallsReturn
<1>. QED BY <1>1 DEF HistoryReturns, Returns

-----------------------------------------------------------------------------
(* Theorems *)

LEMMA Invariant == Spec => [](IInv /\ ReasonInv)
BY InitOK, StepOK, InitReason, StepReason, PTL DEF Spec

\* TypeOK: the translator and the body around it are in states they can be in.
THEOREM TypeCorrect == Spec => []TypeOK
BY Invariant, TypeImplied, PTL

\* WellFormed: whatever the provider does, the message stops exactly once and its
\* tool arguments reach the agent complete, in order and under the index they came
\* with, and so does its text when none follows the tool calls; as long as the
\* reply is plain, every block is started once, before its deltas, and stopped once,
\* after them.
THEOREM MessageWellFormed == Spec => []WellFormed
<1>1. Init => KeptInv /\ PlainInv
  BY InitKept, InitPlain
<1>2. IInv /\ KeptInv /\ PlainInv /\ [Next]_vars => KeptInv' /\ PlainInv'
  BY StepKept, StepPlain
<1>3. Spec => [](IInv /\ KeptInv /\ PlainInv)
  BY <1>1, <1>2, InitOK, StepOK, PTL DEF Spec
<1>. QED BY <1>3, WellFormedImplied, PTL

\* ReportedIsSent: what the drop of the body reports to the desktop is what the
\* agent was sent, cut at BODY_CAP, and it says truncated exactly when it was cut.
THEOREM Reported == Spec => []ReportedIsSent
<1>1. IInv => ReportedIsSent
  BY DEF IInv
<1>. QED BY Invariant, <1>1, PTL

LEMMA ShapedInvariant == Spec => [](IInv /\ KeptInv /\ ShapedInv)
<1>1. Init => KeptInv /\ ShapedInv
  BY InitKept, InitShaped
<1>2. IInv /\ KeptInv /\ ShapedInv /\ [Next]_vars => KeptInv' /\ ShapedInv'
  BY StepKept, StepShaped
<1>. QED BY <1>1, <1>2, InitOK, StepOK, PTL DEF Spec

\* StreamedAsWhole: a reply of text, or of calls opened in the order of their
\* indices, whose calls were not cut gives the agent the same message streamed and
\* whole, and the same reason for its end when the provider gave one.
THEOREM Streamed == Spec => []StreamedAsWhole
BY Invariant, ShapedInvariant, StreamedImplied, PTL

\* HistoryReturns: after such a reply the next request shows the provider its own
\* conversation: the prompts, the reply with every call as it made it, and the
\* result of its call when it made one.
THEOREM History == Spec => []HistoryReturns
BY ShapedInvariant, HistoryImplied, PTL
=============================================================================
