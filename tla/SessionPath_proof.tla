------------------------- MODULE SessionPath_proof -------------------------
(***************************************************************************)
(* Theorems about the path of a session between the desktop and its host:  *)
(* the relay that all sessions of a transport share (SessionDemux), the    *)
(* counters of the output of one session (FlowControl) and the frames of a *)
(* byte transport (FrameStream).                                           *)
(***************************************************************************)
EXTENDS SessionDemux, FlowControl, FrameStream, TLAPS, SequenceTheorems, FiniteSetTheorems, WellFoundedInduction

-----------------------------------------------------------------------------
(* Induction and recursion over an interval *)

\* A set of natural numbers that is not empty has a least one.
LEMMA LeastNatural ==
      ASSUME NEW S, S \subseteq Nat, S # {}
      PROVE  \E k \in S : \A j \in S : k <= j
  <1>. DEFINE R == StrictSubsetOrdering(Nat)
              F == FiniteSubsetsOf(Nat)
              T == {1..k : k \in S}
  <1>1. T \subseteq F
    <2>1. ASSUME NEW k \in Nat PROVE 1..k \in F
      <3>1. IsFiniteSet(1..k)
        BY FS_Interval
      <3>. QED BY <3>1 DEF FiniteSubsetsOf
    <2>. HIDE DEF F
    <2>. QED BY <2>1
  <1>2. T # {}
    OBVIOUS
  <1>3. IsWellFoundedOn(R, F)
    BY FS_StrictSubsetOrderingWellFounded
  <1>4. PICK t \in T : \A u \in T : ~ (<<u, t>> \in R)
    <2>. HIDE DEF R, F, T
    <2>. QED BY <1>1, <1>2, <1>3, WFMin
  <1>5. PICK k \in S : t = 1..k
    OBVIOUS
  <1>6. ASSUME NEW j \in S, j < k PROVE FALSE
    <2>1. j \in Nat /\ k \in Nat
      OBVIOUS
    <2>2. 1..j \subseteq 1..k /\ k \in 1..k /\ k \notin 1..j
      BY <2>1, <1>6
    <2>3. <<1..j, t>> \in R
      BY <1>5, <2>1, <2>2 DEF StrictSubsetOrdering
    <2>4. 1..j \in T
      OBVIOUS
    <2>. HIDE DEF R, T
    <2>. QED BY <1>4, <2>3, <2>4
  <1>7. \A j \in S : k <= j
    BY <1>6
  <1>. QED BY <1>7

\* What holds of 0 and of each number once it holds of the one before, holds up to n.
LEMMA IntervalInduction ==
    ASSUME NEW n \in Nat, NEW T, 0 \in T, \A k \in 1..n : k - 1 \in T => k \in T
    PROVE  0..n \subseteq T
  <1> DEFINE S == (0..n) \ T
  <1>1. CASE S = {}
    BY <1>1
  <1>2. CASE S # {}
    <2>1. S \subseteq Nat
      OBVIOUS
    <2>2. PICK k \in S : \A j \in S : k <= j
      <3> HIDE DEF S
      <3> QED BY <2>1, <1>2, LeastNatural
    <2>3. k \in 1..n /\ k \notin T /\ k - 1 \in 0..n /\ k - 1 \notin S
      BY <2>2
    <2> QED BY <2>3
  <1> QED BY <1>1, <1>2

\* A value at 0 and a step up to each number make a function up to n.
Recursion(f, S, a, n, g) ==
    f \in [0..n -> S] /\ f[0] = a /\ \A i \in 1..n : f[i] = g[<<i, f[i - 1]>>]

LEMMA RecursionExists ==
    ASSUME NEW S, NEW a \in S, NEW n \in Nat, NEW g \in [(1..n) \X S -> S]
    PROVE  \E f : Recursion(f, S, a, n, g)
  <1> DEFINE Good(f, k) == f[0] = a /\ \A i \in 1..k : f[i] = g[<<i, f[i - 1]>>]
             T == {k \in 0..n : \E f \in [0..k -> S] : Good(f, k)}
  <1>1. 0 \in T
    <2> DEFINE f == [i \in 0..0 |-> a]
    <2>1. f \in [0..0 -> S] /\ Good(f, 0) /\ 0 \in 0..n
      OBVIOUS
    <2> HIDE DEF f, Good
    <2> QED BY <2>1
  <1>2. \A k \in 1..n : k - 1 \in T => k \in T
    <2> SUFFICES ASSUME NEW k \in 1..n, k - 1 \in T PROVE k \in T
      OBVIOUS
    <2>1. PICK f \in [0..(k - 1) -> S] : Good(f, k - 1)
      OBVIOUS
    <2> DEFINE h == [i \in 0..k |-> IF i = k THEN g[<<k, f[k - 1]>>] ELSE f[i]]
    <2>2. f[k - 1] \in S /\ g[<<k, f[k - 1]>>] \in S
      <3>1. k - 1 \in 0..(k - 1)
        OBVIOUS
      <3>2. f[k - 1] \in S
        BY <3>1
      <3> QED BY <3>2
    <2>3. h \in [0..k -> S]
      <3>1. \A i \in 0..k : i # k => i \in 0..(k - 1)
        OBVIOUS
      <3> QED BY <2>2, <3>1
    <2>4. Good(h, k)
      <3>1. h[0] = a
        BY <2>1
      <3>2. ASSUME NEW i \in 1..k PROVE h[i] = g[<<i, h[i - 1]>>]
        <4>1. h[i - 1] = f[i - 1]
          OBVIOUS
        <4>2. CASE i = k
          <5>1. h[k] = g[<<k, f[k - 1]>>]
            OBVIOUS
          <5> HIDE DEF h
          <5> QED BY <4>1, <4>2, <5>1
        <4>3. CASE i # k
          <5>1. i \in 1..(k - 1)
            BY <4>3
          <5>2. h[i] = f[i]
            BY <4>3
          <5> HIDE DEF h
          <5> QED BY <2>1, <4>1, <5>1, <5>2
        <4> QED BY <4>2, <4>3
      <3> HIDE DEF h
      <3> QED BY <3>1, <3>2
    <2>5. k \in 0..n
      OBVIOUS
    <2> HIDE DEF h, Good
    <2> QED BY <2>3, <2>4, <2>5
  <1>3. 0..n \subseteq T
    <2> HIDE DEF T
    <2> QED BY <1>1, <1>2, IntervalInduction
  <1>4. n \in T
    <2>1. n \in 0..n
      OBVIOUS
    <2> HIDE DEF T
    <2> QED BY <1>3, <2>1
  <1>5. PICK f \in [0..n -> S] : Good(f, n)
    BY <1>4
  <1> QED BY <1>5 DEF Recursion

\* Two functions with the same value at 0 and the same steps are equal up to n.
LEMMA RecursionUnique ==
    ASSUME NEW n \in Nat, NEW f, NEW h, f[0] = h[0],
           \A i \in 1..n : f[i - 1] = h[i - 1] => f[i] = h[i]
    PROVE  f[n] = h[n]
  <1> DEFINE T == {i \in 0..n : f[i] = h[i]}
  <1>1. 0 \in T /\ \A k \in 1..n : k - 1 \in T => k \in T
    OBVIOUS
  <1>2. 0..n \subseteq T
    <2> HIDE DEF T
    <2> QED BY <1>1, IntervalInduction
  <1>3. n \in 0..n
    OBVIOUS
  <1> QED BY <1>2, <1>3

LEMMA HeadToEnd ==
    ASSUME NEW S, NEW p \in Seq(S), NEW q \in Seq(S), q # <<>>
    PROVE  Append(p, Head(q)) \o Tail(q) = p \o q
  <1>1. Head(q) \in S /\ Tail(q) \in Seq(S) /\ <<Head(q)>> \in Seq(S)
        /\ q = <<Head(q)>> \o Tail(q)
    OBVIOUS
  <1>2. Append(p, Head(q)) = p \o <<Head(q)>>
    BY <1>1, AppendIsConcat
  <1> QED BY <1>1, <1>2, ConcatAssociative

-----------------------------------------------------------------------------
(* The inductive invariant of the relay *)

\* A session is on the host that its spawn went to, and on no other: its id is
\* new with each spawn. A spawn looks for its transport once.
SpawnSent ==
    \A t \in Transport : \A i \in DOMAIN toHost[t] :
        toHost[t][i].kind = "SpawnSession" =>
            spawn[toHost[t][i].session].via = t /\ spawn[toHost[t][i].session].at # "idle"
OneHost ==
    \A t \in Transport, s \in Session :
        host[t][s] # "none" => spawn[s].via = t /\ spawn[s].at # "idle"

\* Only transports that were attached have sessions, and only sessions say anything.
HostUsed == \A t \in Transport, s \in Session : host[t][s] # "none" => t \in used
OwnOutput ==
    \A t \in Transport : \A i \in DOMAIN (fromHost[t] \o queued[t]) :
        LET m == (fromHost[t] \o queued[t])[i]
        IN  m.kind = "TerminalData" => host[t][m.session] # "none"
Silent ==
    \A s \in Session : (\A t \in Transport : host[t][s] = "none") => chunks[s] = 0 /\ shown[s] = <<>>

DemuxInv ==
    TypeOK /\ SpawnSent /\ OneHost /\ HostUsed /\ OwnOutput /\ Silent /\ NothingSwallowed

-----------------------------------------------------------------------------
(* Output on its way *)

LEMMA MessageType ==
    ASSUME NEW kind \in {"SpawnSession", "CloseSession", "TerminalInput", "SpawnSessionAck",
                         "SpawnSessionNack", "CloseSessionAck", "Error", "TerminalData"},
           NEW s \in Session, NEW n \in Nat
    PROVE  /\ Message(kind, s, n) \in Msg
           /\ Message(kind, s, n).kind = kind
           /\ Message(kind, s, n).session = s
           /\ Message(kind, s, n).seq = n
  BY DEF Message, Msg

LEMMA HeadOfBoth ==
    ASSUME NEW p \in Seq(Msg), NEW q \in Seq(Msg), p # <<>>
    PROVE  /\ p \o q \in Seq(Msg) /\ p \o q # <<>>
           /\ Head(p \o q) = Head(p)
           /\ Tail(p \o q) = Tail(p) \o q
  <1>1. p \o q \in Seq(Msg) /\ Tail(p) \in Seq(Msg) /\ Len(p) >= 1 /\ Len(p) \in Nat
        /\ Len(q) \in Nat /\ Len(p \o q) = Len(p) + Len(q)
    OBVIOUS
  <1>2. p \o q # <<>> /\ Head(p \o q) = Head(p)
    BY <1>1
  <1>3. Tail(p \o q) \in Seq(Msg) /\ Tail(p) \o q \in Seq(Msg)
    BY <1>1, <1>2
  <1>4. Len(Tail(p \o q)) = Len(p) + Len(q) - 1 /\ Len(Tail(p) \o q) = Len(p) + Len(q) - 1
    BY <1>1, <1>2
  <1>5. ASSUME NEW i \in 1..(Len(p) + Len(q) - 1)
        PROVE  Tail(p \o q)[i] = (Tail(p) \o q)[i]
    <2>1. Tail(p \o q)[i] = (p \o q)[i + 1] /\ i + 1 \in 1..(Len(p) + Len(q))
      BY <1>1, <1>2
    <2>2. CASE i <= Len(p) - 1
      BY <1>1, <2>1, <2>2
    <2>3. CASE i > Len(p) - 1
      <3>1. (Tail(p) \o q)[i] = q[i - (Len(p) - 1)]
        BY <1>1, <2>3
      <3>2. (p \o q)[i + 1] = q[i + 1 - Len(p)]
        BY <1>1, <2>3
      <3>3. i - (Len(p) - 1) = i + 1 - Len(p)
        BY <1>1
      <3> QED BY <2>1, <3>1, <3>2, <3>3
    <2> QED BY <1>1, <2>2, <2>3
  <1> QED BY <1>1, <1>2, <1>3, <1>4, <1>5, SeqEqual

\* An answer overtakes what waits in the queue of the host and disturbs no output.
LEMMA ComingInsert ==
    ASSUME NEW p \in Seq(Msg), NEW q \in Seq(Msg), NEW m \in Msg, m.kind # "TerminalData",
           NEW s \in Session, NEW l \in Nat, NEW n \in Nat, Coming(p \o q, s, l, n)
    PROVE  Coming(Append(p, m) \o q, s, l, n)
  <1> DEFINE k == Len(p)
             e == Len(q)
             old == p \o q
             new == Append(p, m) \o q
             Place(i) == IF i <= k THEN i ELSE i - 1
  <1>1. k \in Nat /\ e \in Nat
    OBVIOUS
  <1>2. DOMAIN old = 1..(k + e) /\ \A i \in 1..(k + e) : old[i] = IF i <= k THEN p[i] ELSE q[i - k]
    OBVIOUS
  <1>3. DOMAIN new = 1..(k + 1 + e)
        /\ \A i \in 1..(k + 1 + e) :
              new[i] = IF i <= k THEN p[i] ELSE IF i = k + 1 THEN m ELSE q[i - k - 1]
    OBVIOUS
  <1> HIDE DEF k, e, old, new
  <1>4. ~Said(s, m)
    BY DEF Said
  <1>5. \A i \in DOMAIN new : Said(s, new[i]) => i # k + 1 /\ Place(i) \in DOMAIN old /\ new[i] = old[Place(i)]
    <2> SUFFICES ASSUME NEW i \in DOMAIN new, Said(s, new[i])
                 PROVE  i # k + 1 /\ Place(i) \in DOMAIN old /\ new[i] = old[Place(i)]
      OBVIOUS
    <2>1. i # k + 1
      BY <1>1, <1>3, <1>4
    <2>2. CASE i <= k
      BY <1>1, <1>2, <1>3, <2>2
    <2>3. CASE i > k + 1
      <3>1. (i - 1) - k = i - k - 1 /\ Place(i) = i - 1 /\ i - 1 \in 1..(k + e) /\ ~(i - 1 <= k)
        BY <1>1, <1>3, <2>3
      <3>2. new[i] = q[i - k - 1] /\ old[i - 1] = q[(i - 1) - k]
        BY <1>1, <1>2, <1>3, <2>3, <3>1
      <3> QED BY <1>2, <2>1, <3>1, <3>2
    <2> QED BY <1>1, <1>3, <2>1, <2>2, <2>3
  <1>6. \A i \in DOMAIN old : \E j \in DOMAIN new : new[j] = old[i]
    <2> SUFFICES ASSUME NEW i \in DOMAIN old PROVE \E j \in DOMAIN new : new[j] = old[i]
      OBVIOUS
    <2>1. CASE i <= k
      BY <1>1, <1>2, <1>3, <2>1
    <2>2. CASE i > k
      <3>1. /\ i \in 1..(k + e) /\ ~(i <= k)
            /\ i + 1 \in 1..(k + 1 + e) /\ ~(i + 1 <= k) /\ i + 1 # k + 1
            /\ (i + 1) - k - 1 = i - k
        BY <1>1, <1>2, <1>3, <2>2
      <3>2. new[i + 1] = q[(i + 1) - k - 1] /\ old[i] = q[i - k]
        BY <1>2, <1>3, <3>1
      <3> QED BY <1>3, <3>1, <3>2
    <2> QED BY <1>1, <1>2, <2>1, <2>2
  <1>7. Coming(old, s, l, n)
    BY DEF old
  <1>8. \A i, j \in DOMAIN new : i < j /\ i # k + 1 /\ j # k + 1 => Place(i) < Place(j)
    BY <1>1, <1>3
  <1> HIDE DEF Place
  <1>9. \A i \in DOMAIN new : Said(s, new[i]) => new[i].seq \in l..(n - 1)
    BY <1>5, <1>7 DEF Coming
  <1>10. \A i, j \in DOMAIN new :
            i < j /\ Said(s, new[i]) /\ Said(s, new[j]) => new[i].seq < new[j].seq
    <2> SUFFICES ASSUME NEW i \in DOMAIN new, NEW j \in DOMAIN new, i < j,
                        Said(s, new[i]), Said(s, new[j])
                 PROVE  new[i].seq < new[j].seq
      OBVIOUS
    <2>1. Place(i) < Place(j)
      BY <1>5, <1>8
    <2>2. /\ Place(i) \in DOMAIN old /\ new[i] = old[Place(i)]
          /\ Place(j) \in DOMAIN old /\ new[j] = old[Place(j)]
      BY <1>5
    <2> QED BY <1>7, <2>1, <2>2 DEF Coming
  <1>11. \A c \in l..(n - 1) : \E i \in DOMAIN new : Said(s, new[i]) /\ new[i].seq = c
    <2> SUFFICES ASSUME NEW c \in l..(n - 1)
                 PROVE  \E i \in DOMAIN new : Said(s, new[i]) /\ new[i].seq = c
      OBVIOUS
    <2>1. PICK i \in DOMAIN old : Said(s, old[i]) /\ old[i].seq = c
      BY <1>7 DEF Coming
    <2> QED BY <1>6, <2>1
  <1>12. Coming(new, s, l, n)
    BY <1>9, <1>10, <1>11 DEF Coming
  <1> QED BY <1>12 DEF new

\* What a session says next comes last; it is nothing to the others.
LEMMA ComingAppend ==
    ASSUME NEW q \in Seq(Msg), NEW m \in Msg, NEW s \in Session, NEW l \in Nat, NEW n \in Nat,
           l <= n, Coming(q, s, l, n), Said(s, m) => m.seq = n
    PROVE  Coming(Append(q, m), s, l, IF Said(s, m) THEN n + 1 ELSE n)
  <1> DEFINE k == Len(q)
             new == Append(q, m)
             top == IF Said(s, m) THEN n + 1 ELSE n
  <1>1. k \in Nat /\ DOMAIN q = 1..k /\ DOMAIN new = 1..(k + 1)
        /\ new[k + 1] = m /\ \A i \in 1..k : new[i] = q[i]
    OBVIOUS
  <1> HIDE DEF k, new
  <1>2. \A i \in 1..k : Said(s, q[i]) => q[i].seq \in l..(n - 1)
    BY <1>1 DEF Coming
  <1>3. \A i \in 1..(k + 1) : Said(s, new[i]) => new[i].seq \in l..(top - 1)
    <2> SUFFICES ASSUME NEW i \in 1..(k + 1), Said(s, new[i])
                 PROVE  new[i].seq \in l..(top - 1)
      OBVIOUS
    <2>1. CASE i = k + 1
      BY <1>1, <2>1
    <2>2. CASE i \in 1..k
      <3>1. new[i].seq \in l..(n - 1)
        BY <1>1, <1>2, <2>2
      <3> QED BY <3>1
    <2> QED BY <1>1, <2>1, <2>2
  <1>4. \A i, j \in 1..(k + 1) :
           i < j /\ Said(s, new[i]) /\ Said(s, new[j]) => new[i].seq < new[j].seq
    <2> SUFFICES ASSUME NEW i \in 1..(k + 1), NEW j \in 1..(k + 1), i < j,
                        Said(s, new[i]), Said(s, new[j])
                 PROVE  new[i].seq < new[j].seq
      OBVIOUS
    <2>1. i \in 1..k
      BY <1>1
    <2>2. CASE j \in 1..k
      BY <1>1, <2>1, <2>2 DEF Coming
    <2>3. CASE j = k + 1
      BY <1>1, <1>2, <2>1, <2>3
    <2> QED BY <1>1, <2>2, <2>3
  <1>5. \A c \in l..(top - 1) : \E i \in 1..(k + 1) : Said(s, new[i]) /\ new[i].seq = c
    <2> SUFFICES ASSUME NEW c \in l..(top - 1)
                 PROVE  \E i \in 1..(k + 1) : Said(s, new[i]) /\ new[i].seq = c
      OBVIOUS
    <2>1. CASE c \in l..(n - 1)
      <3>1. PICK i \in 1..k : Said(s, q[i]) /\ q[i].seq = c
        BY <1>1, <2>1 DEF Coming
      <3>2. i \in 1..(k + 1) /\ new[i] = q[i]
        BY <1>1
      <3> QED BY <3>1, <3>2
    <2>2. CASE c \notin l..(n - 1)
      <3>1. Said(s, m) /\ c = n
        BY <2>2
      <3>2. k + 1 \in 1..(k + 1)
        BY <1>1
      <3> QED BY <1>1, <3>1, <3>2
    <2> QED BY <2>1, <2>2
  <1> HIDE DEF top
  <1>6. Coming(new, s, l, top)
    BY <1>1, <1>3, <1>4, <1>5 DEF Coming
  <1> QED BY <1>6 DEF new, top

\* What the relay takes is the oldest that was said and not shown.
LEMMA ComingDrop ==
    ASSUME NEW q \in Seq(Msg), q # <<>>, NEW s \in Session, NEW l \in Nat, NEW n \in Nat,
           Coming(q, s, l, n)
    PROVE  /\ Said(s, Head(q)) => Head(q).seq = l /\ l < n
           /\ Coming(Tail(q), s, IF Said(s, Head(q)) THEN l + 1 ELSE l, n)
  <1> DEFINE k == Len(q)
             new == Tail(q)
             low == IF Said(s, q[1]) THEN l + 1 ELSE l
  <1>1. k \in Nat /\ k >= 1 /\ DOMAIN q = 1..k /\ DOMAIN new = 1..(k - 1)
        /\ Head(q) = q[1] /\ \A i \in 1..(k - 1) : new[i] = q[i + 1]
    OBVIOUS
  <1> HIDE DEF k, new
  <1>2. 1 \in 1..k /\ \A i \in 1..(k - 1) : i + 1 \in 1..k /\ 1 < i + 1
    BY <1>1
  <1>3. \A i \in 1..k : Said(s, q[i]) => q[i].seq \in l..(n - 1)
    BY <1>1 DEF Coming
  <1>4. ASSUME Said(s, q[1]) PROVE q[1].seq = l /\ l < n
    <2>1. q[1].seq \in l..(n - 1)
      BY <1>2, <1>3, <1>4
    <2>2. l \in l..(n - 1)
      BY <2>1
    <2>3. PICK i \in 1..k : Said(s, q[i]) /\ q[i].seq = l
      BY <1>1, <2>2 DEF Coming
    <2>4. CASE i = 1
      BY <2>1, <2>3, <2>4
    <2>5. CASE i # 1
      <3>1. 1 < i
        BY <2>5, <1>1
      <3>2. q[1].seq < l
        BY <1>1, <1>2, <1>4, <2>3, <3>1 DEF Coming
      <3> QED BY <2>1, <3>2
    <2> QED BY <2>4, <2>5
  <1>5. \A i \in 1..(k - 1) : Said(s, new[i]) => new[i].seq \in low..(n - 1)
    <2> SUFFICES ASSUME NEW i \in 1..(k - 1), Said(s, new[i])
                 PROVE  new[i].seq \in low..(n - 1)
      OBVIOUS
    <2>1. new[i].seq \in l..(n - 1) /\ new[i] = q[i + 1] /\ i + 1 \in 1..k /\ 1 < i + 1
      BY <1>1, <1>2, <1>3
    <2>2. CASE Said(s, q[1])
      <3>1. q[1].seq < q[i + 1].seq
        BY <1>1, <1>2, <2>1, <2>2 DEF Coming
      <3> QED BY <1>4, <2>1, <2>2, <3>1
    <2>3. CASE ~Said(s, q[1])
      BY <2>1, <2>3
    <2> QED BY <2>2, <2>3
  <1>6. \A i, j \in 1..(k - 1) :
           i < j /\ Said(s, new[i]) /\ Said(s, new[j]) => new[i].seq < new[j].seq
    <2> SUFFICES ASSUME NEW i \in 1..(k - 1), NEW j \in 1..(k - 1), i < j,
                        Said(s, new[i]), Said(s, new[j])
                 PROVE  new[i].seq < new[j].seq
      OBVIOUS
    <2>1. i + 1 < j + 1 /\ new[i] = q[i + 1] /\ new[j] = q[j + 1]
      BY <1>1
    <2> QED BY <1>1, <1>2, <2>1 DEF Coming
  <1>7. \A c \in low..(n - 1) : \E i \in 1..(k - 1) : Said(s, new[i]) /\ new[i].seq = c
    <2> SUFFICES ASSUME NEW c \in low..(n - 1)
                 PROVE  \E i \in 1..(k - 1) : Said(s, new[i]) /\ new[i].seq = c
      OBVIOUS
    <2>1. c \in l..(n - 1)
      OBVIOUS
    <2>2. PICK j \in 1..k : Said(s, q[j]) /\ q[j].seq = c
      BY <1>1, <2>1 DEF Coming
    <2>3. j # 1
      <3>1. CASE j = 1
        BY <1>4, <2>2, <3>1
      <3> QED BY <3>1
    <2>4. j - 1 \in 1..(k - 1) /\ (j - 1) + 1 = j
      BY <1>1, <2>3
    <2>5. new[j - 1] = q[j]
      BY <1>1, <2>4
    <2> QED BY <2>2, <2>4, <2>5
  <1> HIDE DEF low
  <1>8. Coming(new, s, low, n)
    BY <1>1, <1>5, <1>6, <1>7 DEF Coming
  <1> QED BY <1>1, <1>4, <1>8 DEF new, low

-----------------------------------------------------------------------------
(* Types *)

\* The parts of the state that the groups of steps leave alone.
DesktopType ==
    /\ spawn \in [Session -> [at : {"idle", "found", "registered", "waiting", "ok", "failed", "timedout"},
                              via : Transport \cup {None}]]
    /\ pending \subseteq Session
    /\ answer \in [Session -> {"empty", "ack", "nack"}]
    /\ mapped \subseteq Session /\ closing \subseteq Session
    /\ inputs \in 0..MaxInputs
RelayType ==
    /\ shown \in [Session -> Seq(Nat)]
    /\ scratch \in [Transport -> SUBSET Session]
    /\ panicked \subseteq used
    /\ closed \in [Transport -> SUBSET Session]
LinksType ==
    /\ current \in Remote \cup {None}
    /\ up \subseteq used /\ used \subseteq Transport
QueuesType ==
    /\ toHost \in [Transport -> Seq(Msg)]
    /\ fromHost \in [Transport -> Seq(Msg)]
    /\ queued \in [Transport -> Seq(Msg)]
HostType ==
    /\ host \in [Transport -> [Session -> {"none", "live", "closed"}]]
    /\ chunks \in [Session -> 0..MaxChunks]

LEMMA TypeParts == TypeOK <=> DesktopType /\ RelayType /\ LinksType /\ QueuesType /\ HostType
  BY DEF TypeOK, DesktopType, RelayType, LinksType, QueuesType, HostType

LEMMA SpawnType ==
    ASSUME TypeOK, NEW s \in Session, SpawnCommand(s) \/ SpawnTimesOut(s)
    PROVE  TypeOK'
  <1>1. DesktopType /\ RelayType /\ LinksType /\ QueuesType /\ HostType
    BY TypeParts
  <1>2. RelayType' /\ LinksType' /\ HostType'
    BY <1>1 DEF SpawnCommand, SpawnLooks, SpawnRegisters, SpawnSends, SpawnSendFails, SpawnReturns,
       SpawnRefused, SpawnTimesOut, relay, links, remote, RelayType, LinksType, HostType
  <1>3. Message("SpawnSession", s, 0) \in Msg
    BY MessageType
  <1>4. QueuesType'
    <2>1. CASE SpawnSends(s)
      <3>1. spawn[s].via \in Transport
        BY <1>1, <2>1 DEF SpawnSends, LinksType
      <3> QED BY <1>1, <1>3, <2>1, <3>1 DEF SpawnSends, QueuesType, remote
    <2>2. CASE UNCHANGED <<toHost, fromHost, queued>>
      BY <1>1, <2>2 DEF QueuesType
    <2> QED BY <2>1, <2>2 DEF SpawnCommand, SpawnLooks, SpawnRegisters, SpawnSendFails,
               SpawnReturns, SpawnRefused, SpawnTimesOut, remote
  <1>5. DesktopType'
    <2> DEFINE Spawning == [at : {"idle", "found", "registered", "waiting", "ok", "failed", "timedout"},
                            via : Transport \cup {None}]
    <2>1. spawn' \in [Session -> Spawning]
      <3>1. spawn \in [Session -> Spawning] /\ spawn[s] \in Spawning
        BY <1>1 DEF DesktopType
      <3>2. CASE SpawnLooks(s)
        <4> DEFINE via == IF current # None THEN current ELSE IF LocalAgent THEN Local ELSE None
        <4>1. via \in Transport \cup {None}
          BY <1>1 DEF LinksType, Transport
        <4>2. spawn' = [spawn EXCEPT ![s] = [at |-> IF via = None THEN "failed" ELSE "found", via |-> via]]
          BY <3>2 DEF SpawnLooks
        <4> HIDE DEF via
        <4> QED BY <3>1, <4>1, <4>2
      <3>3. CASE ~SpawnLooks(s)
        <4>1. PICK at \in {"registered", "waiting", "ok", "failed", "timedout"} :
                 spawn' = [spawn EXCEPT ![s].at = at]
          BY <3>3 DEF SpawnCommand, SpawnRegisters, SpawnSends, SpawnSendFails, SpawnReturns,
             SpawnRefused, SpawnTimesOut
        <4> QED BY <3>1, <4>1
      <3> QED BY <3>2, <3>3
    <2>2. pending' \subseteq Session /\ mapped' \subseteq Session
          /\ UNCHANGED <<answer, closing, inputs>>
      BY <1>1 DEF SpawnCommand, SpawnLooks, SpawnRegisters, SpawnSends, SpawnSendFails, SpawnReturns,
         SpawnRefused, SpawnTimesOut, DesktopType
    <2> QED BY <1>1, <2>1, <2>2 DEF DesktopType
  <1> QED BY <1>2, <1>4, <1>5 DEF TypeOK, DesktopType, RelayType, LinksType, QueuesType, HostType

LEMMA CallType ==
    ASSUME TypeOK, NEW s \in Session, CloseSends(s) \/ CloseUnmaps(s) \/ WriteInput(s)
    PROVE  TypeOK'
  <1>1. DesktopType /\ RelayType /\ LinksType /\ QueuesType /\ HostType
    BY TypeParts
  <1>2. RelayType' /\ LinksType' /\ HostType'
    BY <1>1 DEF CloseSends, CloseUnmaps, WriteInput, relay, links, remote, RelayType, LinksType, HostType
  <1>3. DesktopType'
    BY <1>1, BoundAssumption DEF CloseSends, CloseUnmaps, WriteInput, DesktopType
  <1>4. Message("CloseSession", s, 0) \in Msg /\ Message("TerminalInput", s, 0) \in Msg
    BY MessageType
  <1>5. QueuesType'
    <2>1. CASE CloseUnmaps(s)
      BY <1>1, <2>1 DEF CloseUnmaps, QueuesType, remote
    <2>2. CASE CloseSends(s) \/ WriteInput(s)
      <3>1. Resolve(s) \in Transport
        BY <1>1, <2>2 DEF CloseSends, WriteInput, LinksType
      <3>2. PICK m \in Msg : toHost' = [toHost EXCEPT ![Resolve(s)] = Append(@, m)]
        BY <1>4, <2>2 DEF CloseSends, WriteInput
      <3>3. UNCHANGED <<fromHost, queued>>
        BY <2>2 DEF CloseSends, WriteInput, remote
      <3> QED BY <1>1, <3>1, <3>2, <3>3 DEF QueuesType
    <2> QED BY <2>1, <2>2
  <1> QED BY <1>2, <1>3, <1>5 DEF TypeOK, DesktopType, RelayType, LinksType, QueuesType, HostType

LEMMA RelayStepType ==
    ASSUME TypeOK, OwnOutput, HostUsed, NEW t \in Transport, Relay(t)
    PROVE  TypeOK'
  <1>1. DesktopType /\ RelayType /\ LinksType /\ QueuesType /\ HostType
    BY TypeParts
  <1> DEFINE m == Head(fromHost[t])
  <1>2. /\ fromHost[t] \in Seq(Msg) /\ fromHost[t] # <<>>
        /\ fromHost' = [fromHost EXCEPT ![t] = Tail(fromHost[t])]
    BY <1>1 DEF QueuesType, Relay, RelayAnswers, RelayShows, RelayPanics, RelayForgets, RelaySkips,
       RelayTakes
  <1>3. m \in Msg /\ Tail(fromHost[t]) \in Seq(Msg)
    BY <1>2
  <1>4. m.session \in Session /\ m.seq \in Nat
    BY <1>3 DEF Msg
  <1>5. QueuesType'
    <2>1. UNCHANGED <<toHost, queued>>
      BY DEF Relay, RelayAnswers, RelayShows, RelayPanics, RelayForgets, RelaySkips, remote
    <2> QED BY <1>1, <1>2, <1>3, <2>1 DEF QueuesType
  <1>6. LinksType' /\ HostType'
    BY <1>1 DEF Relay, RelayAnswers, RelayShows, RelayPanics, RelayForgets, RelaySkips, links, remote,
       LinksType, HostType
  <1>7. DesktopType'
    <2>1. CASE RelayAnswers(t)
      BY <1>1, <1>4, <2>1 DEF RelayAnswers, DesktopType
    <2>2. CASE ~RelayAnswers(t)
      BY <1>1, <2>2 DEF Relay, RelayShows, RelayPanics, RelayForgets, RelaySkips, desktop, DesktopType
    <2> QED BY <2>1, <2>2
  <1>8. RelayType'
    <2>0. RelayPanics(t) => t \in used
      <3> SUFFICES ASSUME RelayPanics(t) PROVE t \in used
        OBVIOUS
      <3>1. m.kind = "TerminalData"
        BY DEF RelayPanics, RelayTakes
      <3> DEFINE q == fromHost[t] \o queued[t]
      <3>2. q \in Seq(Msg) /\ q # <<>> /\ Head(q) = m
        BY <1>1, <1>2, HeadOfBoth DEF QueuesType
      <3> HIDE DEF q, m
      <3>3. 1 \in DOMAIN q /\ q[1] = m
        BY <3>2
      <3> USE DEF q
      <3> QED BY <1>4, <3>1, <3>3 DEF OwnOutput, HostUsed
    <2>1. CASE RelayShows(t) \/ RelayPanics(t)
      <3>1. shown' = [shown EXCEPT ![m.session] = Append(@, m.seq)]
        BY <2>1 DEF RelayShows, RelayPanics
      <3>2. shown' \in [Session -> Seq(Nat)]
        BY <1>1, <1>4, <3>1 DEF RelayType
      <3>3. closed' = closed
            /\ \/ scratch' = [scratch EXCEPT ![t] = @ \cup {m.session}]
               \/ scratch' = [scratch EXCEPT ![t] = {}]
        BY <2>1 DEF RelayShows, RelayPanics
      <3>4. scratch' \in [Transport -> SUBSET Session]
        <4> HIDE DEF m
        <4>1. scratch[t] \cup {m.session} \in SUBSET Session /\ {} \in SUBSET Session
          BY <1>1, <1>4 DEF RelayType
        <4> QED BY <1>1, <3>3, <4>1 DEF RelayType
      <3>5. panicked' \subseteq used'
        <4>1. CASE RelayShows(t)
          <5>1. used' = used /\ panicked' = panicked
            BY <4>1 DEF RelayShows, links
          <5> QED BY <1>1, <5>1 DEF RelayType
        <4>2. CASE RelayPanics(t)
          <5>1. used' = used /\ panicked' = panicked \cup {t}
            BY <4>2 DEF RelayPanics, links
          <5>2. t \in used
            BY <2>0, <4>2
          <5> QED BY <1>1, <5>1, <5>2 DEF RelayType
        <4> QED BY <2>1, <4>1, <4>2
      <3> QED BY <1>1, <3>2, <3>3, <3>5, <3>4 DEF RelayType
    <2>2. CASE RelayForgets(t)
      BY <1>1, <1>4, <2>2 DEF RelayForgets, RelayType, links
    <2>3. CASE RelayAnswers(t) \/ RelaySkips(t)
      BY <1>1, <2>3 DEF RelayAnswers, RelaySkips, RelayType, relay, desktop, links
    <2> QED BY <2>1, <2>2, <2>3 DEF Relay
  <1> QED BY <1>5, <1>6, <1>7, <1>8 DEF TypeOK, DesktopType, RelayType, LinksType, QueuesType, HostType

LEMMA HostStepType ==
    ASSUME TypeOK, NEW t \in Transport, HostMain(t) \/ HostWrites(t)
    PROVE  TypeOK'
  <1>1. DesktopType /\ RelayType /\ LinksType /\ QueuesType /\ HostType
    BY TypeParts
  <1>2. DesktopType' /\ RelayType' /\ LinksType'
    BY <1>1 DEF HostMain, HostSpawns, HostCloses, HostTypes, HostTakes, HostWrites, desktop, relay,
       links, DesktopType, RelayType, LinksType
  <1>3. CASE HostWrites(t)
    <2>1. queued[t] \in Seq(Msg) /\ queued[t] # <<>>
      BY <1>1, <1>3 DEF HostWrites, QueuesType
    <2>2. Head(queued[t]) \in Msg /\ Tail(queued[t]) \in Seq(Msg)
      BY <2>1
    <2>3. QueuesType'
      BY <1>1, <1>3, <2>2 DEF HostWrites, QueuesType
    <2>4. HostType'
      BY <1>1, <1>3 DEF HostWrites, HostType
    <2> QED BY <1>2, <2>3, <2>4 DEF TypeOK, DesktopType, RelayType, LinksType, QueuesType, HostType
  <1>4. CASE HostMain(t)
    <2> DEFINE m == Head(toHost[t])
    <2>1. toHost[t] \in Seq(Msg) /\ toHost[t] # <<>> /\ toHost' = [toHost EXCEPT ![t] = Tail(toHost[t])]
          /\ UNCHANGED <<queued, chunks>>
      BY <1>1, <1>4 DEF HostMain, HostSpawns, HostCloses, HostTypes, HostTakes, QueuesType
    <2>2. m \in Msg /\ Tail(toHost[t]) \in Seq(Msg)
      BY <2>1
    <2>3. m.session \in Session
      BY <2>2 DEF Msg
    <2>4. /\ Message("SpawnSessionAck", m.session, 0) \in Msg
          /\ Message("SpawnSessionNack", m.session, 0) \in Msg
          /\ Message("CloseSessionAck", m.session, 0) \in Msg
          /\ Message("Error", m.session, 0) \in Msg
      BY <2>3, MessageType
    <2>5. fromHost' \in [Transport -> Seq(Msg)]
      <3>1. fromHost' = fromHost \/ \E n \in Msg : fromHost' = [fromHost EXCEPT ![t] = Append(@, n)]
        BY <1>4, <2>4 DEF HostMain, HostSpawns, HostCloses, HostTypes, Answers
      <3>2. ASSUME NEW n \in Msg, fromHost' = [fromHost EXCEPT ![t] = Append(@, n)]
            PROVE  fromHost' \in [Transport -> Seq(Msg)]
        <4>1. Append(fromHost[t], n) \in Seq(Msg)
          BY <1>1 DEF QueuesType
        <4> QED BY <1>1, <3>2, <4>1 DEF QueuesType
      <3> QED BY <1>1, <3>1, <3>2 DEF QueuesType
    <2>6. HostType'
      <3>1. host' = host \/ \E v \in {"live", "closed"} : host' = [host EXCEPT ![t][m.session] = v]
        BY <1>4 DEF HostMain, HostSpawns, HostCloses, HostTypes
      <3> HIDE DEF m
      <3>2. ASSUME NEW v \in {"live", "closed"}, host' = [host EXCEPT ![t][m.session] = v]
            PROVE  host' \in [Transport -> [Session -> {"none", "live", "closed"}]]
        <4>1. [host[t] EXCEPT ![m.session] = v] \in [Session -> {"none", "live", "closed"}]
          BY <1>1 DEF HostType
        <4> QED BY <1>1, <3>2, <4>1 DEF HostType
      <3> QED BY <1>1, <2>1, <3>1, <3>2 DEF HostType
    <2>7. QueuesType'
      BY <1>1, <2>1, <2>2, <2>5 DEF QueuesType
    <2> QED BY <1>2, <2>6, <2>7 DEF TypeOK, DesktopType, RelayType, LinksType, QueuesType, HostType
  <1> QED BY <1>3, <1>4

LEMMA ReadsType ==
    ASSUME TypeOK, NEW t \in Transport, NEW s \in Session, HostReads(t, s)
    PROVE  TypeOK'
  <1>1. DesktopType /\ RelayType /\ LinksType /\ QueuesType /\ HostType
    BY TypeParts
  <1>2. DesktopType' /\ RelayType' /\ LinksType'
    BY <1>1 DEF HostReads, desktop, relay, links, DesktopType, RelayType, LinksType
  <1>3. chunks[s] \in Nat /\ chunks[s] + 1 \in 0..MaxChunks
    BY <1>1, BoundAssumption DEF HostReads, HostType
  <1>4. Message("TerminalData", s, chunks[s]) \in Msg
    BY <1>3, MessageType
  <1>5. QueuesType'
    BY <1>1, <1>4 DEF HostReads, QueuesType
  <1>6. HostType'
    BY <1>1, <1>3 DEF HostReads, HostType
  <1> QED BY <1>2, <1>5, <1>6 DEF TypeOK, DesktopType, RelayType, LinksType, QueuesType, HostType

LEMMA LinksStepType ==
    ASSUME TypeOK, Detach \/ (\E t \in Remote : Attach(t)) \/ (\E t \in Transport : Lose(t))
    PROVE  TypeOK'
  <1>1. DesktopType /\ RelayType /\ LinksType /\ QueuesType /\ HostType
    BY TypeParts
  <1>2. DesktopType' /\ RelayType' /\ HostType'
    BY <1>1 DEF Detach, Attach, Lose, desktop, relay, links, remote, DesktopType, RelayType, HostType
  <1>3. LinksType'
    BY <1>1 DEF Detach, Attach, Lose, LinksType, Transport
  <1>4. QueuesType'
    <2>1. CASE Detach \/ \E t \in Remote : Attach(t)
      BY <1>1, <2>1 DEF Detach, Attach, remote, QueuesType
    <2>2. ASSUME NEW t \in Transport, Lose(t) PROVE QueuesType'
      <3>1. PICK decoded \in 0..Len(fromHost[t]) :
               fromHost' = [fromHost EXCEPT ![t] = SubSeq(fromHost[t], 1, decoded)]
        BY <2>2 DEF Lose
      <3>2. fromHost[t] \in Seq(Msg)
        BY <1>1 DEF QueuesType
      <3>3. SubSeq(fromHost[t], 1, decoded) \in Seq(Msg)
        BY <3>2
      <3>4. fromHost' \in [Transport -> Seq(Msg)]
        BY <1>1, <3>1, <3>3 DEF QueuesType
      <3> QED BY <1>1, <2>2, <3>4 DEF Lose, QueuesType
    <2> QED BY <2>1, <2>2
  <1> QED BY <1>2, <1>3, <1>4 DEF TypeOK, DesktopType, RelayType, LinksType, QueuesType, HostType

LEMMA NextType == ASSUME TypeOK, OwnOutput, HostUsed, [Next]_vars PROVE TypeOK'
  <1>1. CASE UNCHANGED vars
    BY <1>1 DEF vars, relay, TypeOK
  <1>2. CASE Next
    BY <1>2, SpawnType, CallType, RelayStepType, HostStepType, ReadsType, LinksStepType DEF Next
  <1> QED BY <1>1, <1>2

-----------------------------------------------------------------------------
(* Sessions stay on the host of their spawn *)

LEMMA SpawnKept ==
    ASSUME TypeOK, [Next]_vars, NEW s \in Session, spawn[s].at # "idle"
    PROVE  spawn'[s].via = spawn[s].via /\ spawn'[s].at # "idle"
  <1>1. CASE UNCHANGED spawn
    BY <1>1
  <1>2. ASSUME NEW r \in Session, SpawnCommand(r) \/ SpawnTimesOut(r)
        PROVE  spawn'[s].via = spawn[s].via /\ spawn'[s].at # "idle"
    <2>1. CASE SpawnLooks(r)
      <3>1. r # s
        BY <2>1 DEF SpawnLooks
      <3> QED BY <2>1, <3>1 DEF SpawnLooks, TypeOK
    <2>2. CASE ~SpawnLooks(r)
      <3>1. PICK at \in {"registered", "waiting", "ok", "failed", "timedout"} :
               spawn' = [spawn EXCEPT ![r].at = at]
        BY <1>2, <2>2 DEF SpawnCommand, SpawnRegisters, SpawnSends, SpawnSendFails, SpawnReturns,
           SpawnRefused, SpawnTimesOut
      <3> QED BY <3>1 DEF TypeOK
    <2> QED BY <2>1, <2>2
  <1> QED
    BY <1>1, <1>2
    DEF Next, CloseSends, CloseUnmaps, WriteInput, Relay, RelayAnswers, RelayShows, RelayPanics,
        RelayForgets, RelaySkips, HostMain, HostSpawns, HostCloses, HostTypes, HostTakes, HostWrites,
        Lose, HostReads, Detach, Attach, desktop, vars

\* A request on its way was on its way, or is one that was just sent.
LEMMA SentOrNew ==
    ASSUME TypeOK, [Next]_vars, NEW t \in Transport, NEW i \in DOMAIN toHost'[t],
           toHost'[t][i].kind = "SpawnSession"
    PROVE  \/ \E j \in DOMAIN toHost[t] : toHost[t][j] = toHost'[t][i]
           \/ \E s \in Session : toHost'[t][i].session = s /\ spawn[s].via = t /\ spawn[s].at # "idle"
  <1>0. toHost \in [Transport -> Seq(Msg)] /\ toHost[t] \in Seq(Msg)
    BY DEF TypeOK
  <1>1. CASE UNCHANGED toHost
    BY <1>1
  <1>2. ASSUME NEW u \in Transport, NEW m \in Msg, toHost' = [toHost EXCEPT ![u] = Append(@, m)]
        PROVE  \/ \E j \in DOMAIN toHost[t] : toHost[t][j] = toHost'[t][i]
               \/ t = u /\ toHost'[t][i] = m
    <2>1. CASE t # u
      BY <1>0, <1>2, <2>1
    <2>2. CASE t = u
      <3>1. toHost'[t] = Append(toHost[t], m)
        BY <1>0, <1>2, <2>2
      <3>2. DOMAIN toHost'[t] = 1..(Len(toHost[t]) + 1) /\ toHost'[t][Len(toHost[t]) + 1] = m
            /\ DOMAIN toHost[t] = 1..Len(toHost[t]) /\ Len(toHost[t]) \in Nat
            /\ \A j \in 1..Len(toHost[t]) : toHost'[t][j] = toHost[t][j]
        BY <1>0, <3>1
      <3>3. CASE i = Len(toHost[t]) + 1
        BY <2>2, <3>2, <3>3
      <3>4. CASE i \in 1..Len(toHost[t])
        BY <3>2, <3>4
      <3> QED BY <3>2, <3>3, <3>4
    <2> QED BY <2>1, <2>2
  <1>3. ASSUME NEW s \in Session, SpawnSends(s)
        PROVE  \/ \E j \in DOMAIN toHost[t] : toHost[t][j] = toHost'[t][i]
               \/ toHost'[t][i].session = s /\ spawn[s].via = t /\ spawn[s].at # "idle"
    <2>1. Message("SpawnSession", s, 0) \in Msg /\ Message("SpawnSession", s, 0).session = s
      BY MessageType
    <2>2. spawn[s].via \in Transport /\ spawn[s].at # "idle"
          /\ toHost' = [toHost EXCEPT ![spawn[s].via] = Append(@, Message("SpawnSession", s, 0))]
      BY <1>3 DEF SpawnSends, TypeOK
    <2> QED BY <1>2, <2>1, <2>2
  <1>4. ASSUME NEW s \in Session, CloseSends(s) \/ WriteInput(s)
        PROVE  \E j \in DOMAIN toHost[t] : toHost[t][j] = toHost'[t][i]
    <2>1. /\ Message("CloseSession", s, 0) \in Msg /\ Message("CloseSession", s, 0).kind = "CloseSession"
          /\ Message("TerminalInput", s, 0) \in Msg /\ Message("TerminalInput", s, 0).kind = "TerminalInput"
      BY MessageType
    <2>2. Resolve(s) \in Transport
      BY <1>4 DEF CloseSends, WriteInput, TypeOK
    <2>3. PICK m \in Msg : m.kind # "SpawnSession" /\ toHost' = [toHost EXCEPT ![Resolve(s)] = Append(@, m)]
      BY <1>4, <2>1 DEF CloseSends, WriteInput
    <2> QED BY <1>2, <2>2, <2>3
  <1>5. ASSUME NEW u \in Transport, HostMain(u)
        PROVE  \E j \in DOMAIN toHost[t] : toHost[t][j] = toHost'[t][i]
    <2>1. toHost[u] \in Seq(Msg) /\ toHost[u] # <<>> /\ toHost' = [toHost EXCEPT ![u] = Tail(toHost[u])]
      BY <1>5 DEF HostMain, HostSpawns, HostCloses, HostTypes, HostTakes, TypeOK
    <2>2. CASE t # u
      BY <1>0, <2>1, <2>2
    <2>3. CASE t = u
      <3>1. toHost'[t] = Tail(toHost[t])
        BY <1>0, <2>1, <2>3
      <3>2. i + 1 \in DOMAIN toHost[t] /\ toHost[t][i + 1] = toHost'[t][i]
        <4>1. \A q \in Seq(Msg) : q # <<>> =>
                \A j \in DOMAIN Tail(q) : j + 1 \in DOMAIN q /\ q[j + 1] = Tail(q)[j]
          OBVIOUS
        <4>2. i \in DOMAIN Tail(toHost[t]) /\ toHost[t] \in Seq(Msg) /\ toHost[t] # <<>>
          BY <1>0, <2>1, <2>3, <3>1
        <4> QED BY <3>1, <4>1, <4>2
      <3> QED BY <3>2
    <2> QED BY <2>2, <2>3
  <1>6. ASSUME NEW u \in Transport, Lose(u)
        PROVE  \E j \in DOMAIN toHost[t] : toHost[t][j] = toHost'[t][i]
    <2>1. toHost' = [toHost EXCEPT ![u] = <<>>]
      BY <1>6 DEF Lose
    <2>2. CASE t # u
      BY <1>0, <2>1, <2>2
    <2>3. CASE t = u
      <3>1. toHost'[t] = <<>>
        BY <1>0, <2>1, <2>3
      <3> QED BY <3>1
    <2> QED BY <2>2, <2>3
  <1> QED
    BY <1>1, <1>3, <1>4, <1>5, <1>6
    DEF Next, SpawnCommand, SpawnLooks, SpawnRegisters, SpawnSendFails, SpawnReturns, SpawnRefused,
        SpawnTimesOut, CloseUnmaps, Relay, RelayAnswers, RelayShows, RelayPanics, RelayForgets,
        RelaySkips, HostWrites, HostReads, Detach, Attach, vars

LEMMA NextSpawnSent == ASSUME TypeOK, SpawnSent, [Next]_vars PROVE SpawnSent'
  <1> SUFFICES ASSUME NEW t \in Transport, NEW i \in DOMAIN toHost'[t],
                      toHost'[t][i].kind = "SpawnSession"
               PROVE  spawn'[toHost'[t][i].session].via = t /\ spawn'[toHost'[t][i].session].at # "idle"
    BY DEF SpawnSent
  <1>1. CASE \E j \in DOMAIN toHost[t] : toHost[t][j] = toHost'[t][i]
    <2>1. PICK j \in DOMAIN toHost[t] : toHost[t][j] = toHost'[t][i]
      BY <1>1
    <2>2. toHost[t][j] \in Msg
      <3>1. toHost[t] \in Seq(Msg)
        BY DEF TypeOK
      <3> QED BY <3>1
    <2>3. toHost'[t][i].session \in Session
      BY <2>1, <2>2 DEF Msg
    <2>4. spawn[toHost'[t][i].session].via = t /\ spawn[toHost'[t][i].session].at # "idle"
      BY <2>1 DEF SpawnSent
    <2> QED BY <2>3, <2>4, SpawnKept
  <1>2. ASSUME NEW s \in Session, toHost'[t][i].session = s, spawn[s].via = t, spawn[s].at # "idle"
        PROVE  spawn'[toHost'[t][i].session].via = t /\ spawn'[toHost'[t][i].session].at # "idle"
    BY <1>2, SpawnKept
  <1> QED BY <1>1, <1>2, SentOrNew

\* A session comes to a host by the request its spawn sent there, and stays.
LEMMA HostChanges ==
    ASSUME TypeOK, SpawnSent, [Next]_vars, NEW t \in Transport, NEW s \in Session
    PROVE  /\ host[t][s] # "none" => host'[t][s] # "none"
           /\ host[t][s] = "none" /\ host'[t][s] # "none" =>
                 t \in up /\ spawn[s].via = t /\ spawn[s].at # "idle"
  <1>0. host \in [Transport -> [Session -> {"none", "live", "closed"}]]
    BY DEF TypeOK
  <1>1. CASE UNCHANGED host
    BY <1>1
  <1>2. ASSUME NEW u \in Transport, HostMain(u)
        PROVE  /\ host[t][s] # "none" => host'[t][s] # "none"
               /\ host[t][s] = "none" /\ host'[t][s] # "none" =>
                     t \in up /\ spawn[s].via = t /\ spawn[s].at # "idle"
    <2> DEFINE m == Head(toHost[u])
    <2>1. toHost[u] \in Seq(Msg) /\ toHost[u] # <<>> /\ u \in up
      BY <1>2 DEF HostMain, HostSpawns, HostCloses, HostTypes, HostTakes, TypeOK
    <2>2. m \in Msg /\ 1 \in DOMAIN toHost[u] /\ toHost[u][1] = m
      BY <2>1
    <2>3. m.session \in Session
      BY <2>2 DEF Msg
    <2>4. CASE HostSpawns(u)
      <3>1. m.kind = "SpawnSession"
        BY <2>4 DEF HostSpawns, HostTakes
      <3>2. spawn[m.session].via = u /\ spawn[m.session].at # "idle"
        BY <2>2, <3>1 DEF SpawnSent
      <3>3. host' = host \/ host' = [host EXCEPT ![u][m.session] = "live"]
        BY <2>4 DEF HostSpawns
      <3> HIDE DEF m
      <3> QED BY <1>0, <2>1, <2>3, <3>2, <3>3
    <2>5. CASE HostCloses(u)
      <3>1. host' = host \/ (host[u][m.session] = "live" /\ host' = [host EXCEPT ![u][m.session] = "closed"])
        BY <2>5 DEF HostCloses
      <3> HIDE DEF m
      <3> QED BY <1>0, <2>3, <3>1
    <2>6. CASE HostTypes(u)
      BY <1>1, <2>6 DEF HostTypes
    <2> QED BY <1>2, <2>4, <2>5, <2>6 DEF HostMain
  <1> QED
    BY <1>1, <1>2
    DEF Next, SpawnCommand, SpawnLooks, SpawnRegisters, SpawnSends, SpawnSendFails, SpawnReturns,
        SpawnRefused, SpawnTimesOut, CloseSends, WriteInput, CloseUnmaps, Relay, RelayAnswers,
        RelayShows, RelayPanics, RelayForgets, RelaySkips, HostWrites, HostReads, Lose, Detach,
        Attach, remote, vars

LEMMA NextOneHost == ASSUME TypeOK, SpawnSent, OneHost, HostUsed, [Next]_vars PROVE OneHost' /\ HostUsed'
  <1>1. OneHost'
    BY HostChanges, SpawnKept DEF OneHost
  <1>2. used \subseteq used' /\ up \subseteq used
    BY DEF TypeOK, Next, SpawnCommand, SpawnLooks, SpawnRegisters, SpawnSends, SpawnSendFails,
       SpawnReturns, SpawnRefused, SpawnTimesOut, CloseSends, WriteInput, CloseUnmaps, Relay,
       RelayAnswers, RelayShows, RelayPanics, RelayForgets, RelaySkips, HostMain, HostSpawns,
       HostCloses, HostTypes, HostTakes, HostWrites, HostReads, Lose, Detach, Attach, links, vars
  <1>3. HostUsed'
    BY <1>2, HostChanges DEF HostUsed
  <1> QED BY <1>1, <1>3

-----------------------------------------------------------------------------
(* Nothing is swallowed *)

\* What a host said and the relay of its transport has not taken.
Out(t) == fromHost[t] \o queued[t]

OutputInv == OwnOutput /\ Silent /\ NothingSwallowed

LEMMA OutType ==
    ASSUME TypeOK, NEW t \in Transport
    PROVE  fromHost[t] \in Seq(Msg) /\ queued[t] \in Seq(Msg) /\ Out(t) \in Seq(Msg)
  BY DEF TypeOK, Out

LEMMA ConcatAt ==
    ASSUME NEW p \in Seq(Msg), NEW q \in Seq(Msg)
    PROVE  /\ Len(p) \in Nat /\ Len(q) \in Nat
           /\ DOMAIN (p \o q) = 1..(Len(p) + Len(q))
           /\ \A i \in 1..(Len(p) + Len(q)) :
                 (p \o q)[i] = IF i <= Len(p) THEN p[i] ELSE q[i - Len(p)]
  OBVIOUS

LEMMA ConcatAppend ==
    ASSUME NEW p \in Seq(Msg), NEW q \in Seq(Msg), NEW m \in Msg
    PROVE  p \o q \in Seq(Msg) /\ p \o Append(q, m) = Append(p \o q, m)
  OBVIOUS

LEMMA InsertAt ==
    ASSUME NEW p \in Seq(Msg), NEW q \in Seq(Msg), NEW m \in Msg
    PROVE  /\ DOMAIN (Append(p, m) \o q) = 1..(Len(p) + 1 + Len(q))
           /\ \A i \in 1..(Len(p) + 1 + Len(q)) :
                 (Append(p, m) \o q)[i] =
                   IF i <= Len(p) THEN p[i] ELSE IF i = Len(p) + 1 THEN m ELSE q[i - Len(p) - 1]
  OBVIOUS

\* Steps that hand nothing on, or hand it on in order.
LEMMA SameOutput ==
    ASSUME TypeOK, OutputInv, UNCHANGED <<host, chunks, shown>>,
           \A t \in Transport : Out(t)' = Out(t),
           \A t \in up' : t \in Transport /\ (t \in up \/ \A s \in Session : host[t][s] = "none")
    PROVE  OutputInv'
  <1>1. OwnOutput'
    BY DEF OutputInv, OwnOutput, Out
  <1>2. Silent'
    BY DEF OutputInv, Silent
  <1>3. NothingSwallowed'
    BY DEF OutputInv, NothingSwallowed, Out
  <1> QED BY <1>1, <1>2, <1>3 DEF OutputInv

\* A lost transport says nothing more than what was decoded of it.
LEMMA LoseOutput ==
    ASSUME TypeOK, OutputInv, NEW t \in Transport, Lose(t)
    PROVE  OutputInv'
  <1>0. /\ up' = up \ {t} /\ UNCHANGED <<host, chunks, shown>>
        /\ up \subseteq Transport
        /\ fromHost \in [Transport -> Seq(Msg)] /\ queued \in [Transport -> Seq(Msg)]
    BY DEF Lose, desktop, relay, TypeOK
  <1>1. PICK decoded \in 0..Len(fromHost[t]) :
           fromHost' = [fromHost EXCEPT ![t] = SubSeq(fromHost[t], 1, decoded)]
    BY DEF Lose
  <1>2. queued' = [queued EXCEPT ![t] = <<>>]
    BY DEF Lose
  <1>3. \A u \in Transport : u # t => Out(u)' = Out(u)
    BY <1>0, <1>1, <1>2 DEF Out
  <1>4. \A i \in DOMAIN Out(t)' : i \in DOMAIN Out(t) /\ Out(t)'[i] = Out(t)[i]
    <2> DEFINE q == SubSeq(fromHost[t], 1, decoded)
    <2>1. /\ Len(q) = decoded /\ q \in Seq(Msg) /\ \A i \in 1..decoded : q[i] = fromHost[t][i]
          /\ fromHost[t] \in Seq(Msg) /\ queued[t] \in Seq(Msg)
      BY <1>0, <1>1
    <2>2. Out(t)' = q \o <<>>
      BY <1>0, <1>1, <1>2 DEF Out
    <2> HIDE DEF q
    <2>3. Out(t)' = q
      BY <2>1, <2>2
    <2>4. DOMAIN Out(t)' = 1..decoded
      BY <2>1, <2>3
    <2>5. \A i \in 1..decoded : i \in DOMAIN Out(t) /\ Out(t)[i] = fromHost[t][i]
      <3>1. DOMAIN Out(t) = 1..(Len(fromHost[t]) + Len(queued[t])) /\ Len(fromHost[t]) \in Nat
            /\ Len(queued[t]) \in Nat
            /\ \A i \in 1..(Len(fromHost[t]) + Len(queued[t])) :
                 Out(t)[i] = IF i <= Len(fromHost[t]) THEN fromHost[t][i]
                             ELSE queued[t][i - Len(fromHost[t])]
        BY <2>1, ConcatAt DEF Out
      <3>2. \A i \in 1..decoded : i \in 1..(Len(fromHost[t]) + Len(queued[t])) /\ i <= Len(fromHost[t])
        <4> DEFINE a == Len(fromHost[t])
                   b == Len(queued[t])
        <4>1. a \in Nat /\ b \in Nat /\ decoded \in 0..a
          BY <1>1, <3>1
        <4> HIDE DEF a, b
        <4>2. \A i \in 1..decoded : i \in 1..(a + b) /\ i <= a
          BY <4>1
        <4> QED BY <4>2 DEF a, b
      <3> QED BY <3>1, <3>2
    <2> QED BY <2>1, <2>3, <2>4, <2>5
  <1>5. OwnOutput'
    <2> SUFFICES ASSUME NEW u \in Transport, NEW i \in DOMAIN Out(u)', Out(u)'[i].kind = "TerminalData"
                 PROVE  host'[u][Out(u)'[i].session] # "none"
      BY DEF OwnOutput, Out
    <2>1. i \in DOMAIN Out(u) /\ Out(u)'[i] = Out(u)[i]
      BY <1>3, <1>4
    <2> QED BY <1>0, <2>1 DEF OutputInv, OwnOutput, Out
  <1>6. Silent'
    BY <1>0 DEF OutputInv, Silent
  <1>7. NothingSwallowed'
    BY <1>0, <1>3 DEF OutputInv, NothingSwallowed, Out
  <1> QED BY <1>5, <1>6, <1>7 DEF OutputInv

\* An answer of the host: a session may come with it, which has said nothing.
LEMMA AnswerOutput ==
    ASSUME TypeOK, SpawnSent, OneHost, OutputInv, NEW t \in Transport,
           HostSpawns(t) \/ HostCloses(t)
    PROVE  OutputInv'
  <1> DEFINE r == Head(toHost[t]).session
  <1>0. /\ UNCHANGED <<up, queued, chunks, shown>> /\ t \in up
        /\ toHost[t] \in Seq(Msg) /\ toHost[t] # <<>>
        /\ fromHost \in [Transport -> Seq(Msg)] /\ queued \in [Transport -> Seq(Msg)]
        /\ shown \in [Session -> Seq(Nat)] /\ chunks \in [Session -> Nat]
    BY DEF HostSpawns, HostCloses, HostTakes, desktop, relay, links, TypeOK
  <1>1. r \in Session
    <2>1. Head(toHost[t]) \in Msg
      BY <1>0
    <2> QED BY <2>1 DEF Msg
  <1>2. PICK m \in Msg : m.kind # "TerminalData" /\ fromHost' = [fromHost EXCEPT ![t] = Append(fromHost[t], m)]
    <2>1. \A kind \in {"SpawnSessionAck", "SpawnSessionNack", "CloseSessionAck", "Error"} :
             Message(kind, r, 0) \in Msg /\ Message(kind, r, 0).kind = kind
      BY <1>1, MessageType
    <2> HIDE DEF r
    <2>2. \E kind \in {"SpawnSessionAck", "SpawnSessionNack", "CloseSessionAck", "Error"} :
             fromHost' = [fromHost EXCEPT ![t] = Append(fromHost[t], Message(kind, r, 0))]
      BY DEF HostSpawns, HostCloses, Answers, r
    <2> QED BY <2>1, <2>2
  <1>3. [Next]_vars
    BY DEF Next, HostMain
  <1>4. \A u \in Transport, s \in Session :
           /\ host[u][s] # "none" => host'[u][s] # "none"
           /\ host[u][s] = "none" /\ host'[u][s] # "none" => spawn[s].via = u
    BY <1>3, HostChanges
  <1>5. \A u \in Transport : u # t => Out(u)' = Out(u)
    BY <1>0, <1>2 DEF Out
  <1>6. Out(t)' = Append(fromHost[t], m) \o queued[t] /\ fromHost[t] \in Seq(Msg) /\ queued[t] \in Seq(Msg)
    BY <1>0, <1>2 DEF Out
  <1>7. \A i \in DOMAIN Out(t)' : Out(t)'[i] = m \/ \E j \in DOMAIN Out(t) : Out(t)'[i] = Out(t)[j]
    <2> SUFFICES ASSUME NEW i \in DOMAIN Out(t)', Out(t)'[i] # m
                 PROVE  \E j \in DOMAIN Out(t) : Out(t)'[i] = Out(t)[j]
      OBVIOUS
    <2> DEFINE p == fromHost[t]
               q == queued[t]
    <2>1. DOMAIN Out(t) = 1..(Len(p) + Len(q)) /\ Len(p) \in Nat /\ Len(q) \in Nat
          /\ \A j \in 1..(Len(p) + Len(q)) : Out(t)[j] = IF j <= Len(p) THEN p[j] ELSE q[j - Len(p)]
      BY <1>6, ConcatAt DEF Out
    <2>2. DOMAIN Out(t)' = 1..(Len(p) + 1 + Len(q))
          /\ \A j \in 1..(Len(p) + 1 + Len(q)) :
               Out(t)'[j] = IF j <= Len(p) THEN p[j] ELSE IF j = Len(p) + 1 THEN m ELSE q[j - Len(p) - 1]
      <3> DEFINE new == Append(p, m) \o q
      <3>1. DOMAIN new = 1..(Len(p) + 1 + Len(q))
            /\ \A j \in 1..(Len(p) + 1 + Len(q)) :
                 new[j] = IF j <= Len(p) THEN p[j]
                          ELSE IF j = Len(p) + 1 THEN m ELSE q[j - Len(p) - 1]
        BY <1>6, InsertAt
      <3>2. Out(t)' = new
        BY <1>6
      <3> HIDE DEF new, p, q
      <3> QED BY <3>1, <3>2
    <2> HIDE DEF p, q
    <2>3. CASE i <= Len(p)
      BY <2>1, <2>2, <2>3
    <2>4. CASE i > Len(p)
      <3>1. i # Len(p) + 1
        BY <2>1, <2>2, <2>4
      <3>2. /\ i - 1 \in 1..(Len(p) + Len(q)) /\ ~(i - 1 <= Len(p)) /\ ~(i <= Len(p))
            /\ (i - 1) - Len(p) = i - Len(p) - 1
        BY <2>1, <2>2, <2>4, <3>1
      <3>3. Out(t)'[i] = q[i - Len(p) - 1] /\ Out(t)[i - 1] = q[(i - 1) - Len(p)]
        BY <2>1, <2>2, <3>1, <3>2
      <3> QED BY <2>1, <3>2, <3>3
    <2> QED BY <2>1, <2>2, <2>3, <2>4
  <1>8. OwnOutput'
    <2> SUFFICES ASSUME NEW u \in Transport, NEW i \in DOMAIN Out(u)', Out(u)'[i].kind = "TerminalData"
                 PROVE  host'[u][Out(u)'[i].session] # "none"
      BY DEF OwnOutput, Out
    <2>1. PICK j \in DOMAIN Out(u) : Out(u)'[i] = Out(u)[j]
      BY <1>2, <1>5, <1>7
    <2>2. host[u][Out(u)[j].session] # "none"
      BY <2>1 DEF OutputInv, OwnOutput, Out
    <2>3. Out(u)[j].session \in Session
      <3>1. Out(u)[j] \in Msg
        BY <2>1, OutType
      <3> QED BY <3>1 DEF Msg
    <2> QED BY <1>4, <2>1, <2>2, <2>3
  <1>9. Silent'
    BY <1>0, <1>4 DEF OutputInv, Silent
  <1>10. NothingSwallowed'
    <2> SUFFICES ASSUME NEW u \in up, NEW s \in Session, host'[u][s] # "none"
                 PROVE  /\ Len(shown[s]) <= chunks[s]
                        /\ \A i \in DOMAIN shown[s] : shown[s][i] = i - 1
                        /\ Coming(Out(u)', s, Len(shown[s]), chunks[s])
      BY <1>0 DEF NothingSwallowed, Out
    <2>0. u \in Transport
      BY DEF TypeOK
    <2>1. CASE host[u][s] # "none"
      <3>1. /\ Len(shown[s]) <= chunks[s]
            /\ \A i \in DOMAIN shown[s] : shown[s][i] = i - 1
            /\ Coming(Out(u), s, Len(shown[s]), chunks[s])
        BY <2>1 DEF OutputInv, NothingSwallowed, Out
      <3>2. Len(shown[s]) \in Nat /\ chunks[s] \in Nat
        BY <1>0
      <3>3. CASE u = t
        BY <1>2, <1>6, <3>1, <3>2, <3>3, ComingInsert DEF Out
      <3>4. CASE u # t
        BY <1>5, <2>0, <3>1, <3>4
      <3> QED BY <3>1, <3>3, <3>4
    <2>2. CASE host[u][s] = "none"
      <3>1. spawn[s].via = u
        BY <1>4, <2>0, <2>2
      <3>2. \A w \in Transport : host[w][s] = "none"
        BY <2>2, <3>1 DEF OneHost
      <3>3. chunks[s] = 0 /\ shown[s] = <<>>
        BY <3>2 DEF OutputInv, Silent
      <3>4. \A i \in DOMAIN Out(u) : ~Said(s, Out(u)[i])
        BY <2>0, <3>2 DEF OutputInv, OwnOutput, Out, Said
      <3>5. \A i \in DOMAIN Out(u)' : ~Said(s, Out(u)'[i])
        BY <1>2, <1>5, <1>7, <2>0, <3>4 DEF Said
      <3>6. Coming(Out(u)', s, 0, 0)
        BY <3>5 DEF Coming
      <3>7. Len(shown[s]) = 0 /\ DOMAIN shown[s] = {}
        BY <3>3
      <3> QED BY <3>3, <3>6, <3>7
    <2> QED BY <2>1, <2>2
  <1> QED BY <1>8, <1>9, <1>10 DEF OutputInv

\* The relay takes the oldest message, whatever it makes of it.
LEMMA RelayTakesHead ==
    ASSUME TypeOK, NEW t \in Transport, Relay(t)
    PROVE  /\ UNCHANGED <<up, host, chunks, queued>>
           /\ Out(t) \in Seq(Msg) /\ Out(t) # <<>> /\ Head(Out(t)) = Head(fromHost[t])
           /\ Head(Out(t)) \in Msg
           /\ Out(t)' = Tail(Out(t))
           /\ \A u \in Transport : u # t => Out(u)' = Out(u)
  <1>1. fromHost \in [Transport -> Seq(Msg)] /\ queued \in [Transport -> Seq(Msg)]
    BY DEF TypeOK
  <1>2. /\ fromHost[t] # <<>> /\ fromHost' = [fromHost EXCEPT ![t] = Tail(fromHost[t])]
        /\ UNCHANGED <<up, host, chunks, queued>>
    BY DEF Relay, RelayAnswers, RelayShows, RelayPanics, RelayForgets, RelaySkips, RelayTakes, links,
       remote
  <1>3. fromHost[t] \in Seq(Msg) /\ queued[t] \in Seq(Msg)
    BY <1>1
  <1>4. Out(t)' = Tail(fromHost[t]) \o queued[t]
    BY <1>1, <1>2 DEF Out
  <1>5. \A u \in Transport : u # t => Out(u)' = Out(u)
    BY <1>1, <1>2 DEF Out
  <1>6. Out(t) \in Seq(Msg) /\ Out(t) # <<>> /\ Head(Out(t)) = Head(fromHost[t])
        /\ Out(t)' = Tail(Out(t))
    BY <1>2, <1>3, <1>4, HeadOfBoth DEF Out
  <1>7. Head(Out(t)) \in Msg
    BY <1>6
  <1> QED BY <1>2, <1>5, <1>6, <1>7

LEMMA RelayOutput ==
    ASSUME TypeOK, OneHost, OutputInv, NEW t \in Transport, Relay(t)
    PROVE  OutputInv'
  <1> DEFINE m == Head(Out(t))
  <1>0. /\ UNCHANGED <<up, host, chunks>> /\ up \subseteq Transport
        /\ Out(t) \in Seq(Msg) /\ Out(t) # <<>> /\ m \in Msg
        /\ Out(t)' = Tail(Out(t))
        /\ \A u \in Transport : u # t => Out(u)' = Out(u)
        /\ m.session \in Session /\ m.seq \in Nat
    <2>1. up \subseteq Transport
      BY DEF TypeOK
    <2>2. m \in Msg
      BY RelayTakesHead
    <2>3. m.session \in Session /\ m.seq \in Nat
      BY <2>2 DEF Msg
    <2> QED BY <2>1, <2>2, <2>3, RelayTakesHead
  <1>1. \/ m.kind = "TerminalData" /\ shown' = [shown EXCEPT ![m.session] = Append(@, m.seq)]
        \/ m.kind # "TerminalData" /\ shown' = shown
    <2>1. m = Head(fromHost[t])
      BY RelayTakesHead
    <2> HIDE DEF m
    <2> QED BY <2>1 DEF Relay, RelayAnswers, RelayShows, RelayPanics, RelayForgets, RelaySkips,
               RelayTakes, relay, desktop
  <1>2. shown \in [Session -> Seq(Nat)] /\ chunks \in [Session -> Nat]
    BY DEF TypeOK
  <1> HIDE DEF m
  <1>3. 1 \in DOMAIN Out(t) /\ Out(t)[1] = m
        /\ \A i \in DOMAIN Out(t)' : i + 1 \in DOMAIN Out(t) /\ Out(t)'[i] = Out(t)[i + 1]
    <2>1. \A q \in Seq(Msg) : q # <<>> =>
             /\ 1 \in DOMAIN q /\ q[1] = Head(q)
             /\ \A j \in DOMAIN Tail(q) : j + 1 \in DOMAIN q /\ q[j + 1] = Tail(q)[j]
      OBVIOUS
    <2> QED BY <1>0, <2>1 DEF m
  <1>4. m.kind = "TerminalData" => host[t][m.session] # "none"
    BY <1>3 DEF OutputInv, OwnOutput, Out
  <1>5. OwnOutput'
    <2> SUFFICES ASSUME NEW u \in Transport, NEW i \in DOMAIN Out(u)', Out(u)'[i].kind = "TerminalData"
                 PROVE  host'[u][Out(u)'[i].session] # "none"
      BY DEF OwnOutput, Out
    <2>1. \E j \in DOMAIN Out(u) : Out(u)'[i] = Out(u)[j]
      BY <1>0, <1>3
    <2> QED BY <1>0, <2>1 DEF OutputInv, OwnOutput, Out
  <1>6. Silent'
    <2> SUFFICES ASSUME NEW s \in Session, \A u \in Transport : host[u][s] = "none"
                 PROVE  chunks[s] = 0 /\ shown'[s] = <<>>
      BY <1>0 DEF Silent
    <2>1. ~(m.kind = "TerminalData" /\ m.session = s)
      BY <1>4
    <2>2. shown'[s] = shown[s]
      BY <1>0, <1>1, <1>2, <2>1
    <2> QED BY <2>2 DEF OutputInv, Silent
  <1>7. NothingSwallowed'
    <2> SUFFICES ASSUME NEW u \in up, NEW s \in Session, host[u][s] # "none"
                 PROVE  /\ Len(shown'[s]) <= chunks[s]
                        /\ \A i \in DOMAIN shown'[s] : shown'[s][i] = i - 1
                        /\ Coming(Out(u)', s, Len(shown'[s]), chunks[s])
      BY <1>0 DEF NothingSwallowed, Out
    <2>1. /\ Len(shown[s]) <= chunks[s]
          /\ \A i \in DOMAIN shown[s] : shown[s][i] = i - 1
          /\ Coming(Out(u), s, Len(shown[s]), chunks[s])
      BY DEF OutputInv, NothingSwallowed, Out
    <2>2. Len(shown[s]) \in Nat /\ chunks[s] \in Nat /\ u \in Transport /\ shown[s] \in Seq(Nat)
      BY <1>0, <1>2
    <2>3. CASE Said(s, m)
      <3>1. u = t
        BY <1>4, <2>2, <2>3 DEF OneHost, Said
      <3>2. m.seq = Len(shown[s]) /\ Len(shown[s]) < chunks[s]
            /\ Coming(Tail(Out(t)), s, Len(shown[s]) + 1, chunks[s])
        BY <1>0, <2>1, <2>2, <2>3, <3>1, ComingDrop DEF m
      <3>3. shown'[s] = Append(shown[s], m.seq)
        BY <1>1, <1>2, <2>3 DEF Said
      <3>4. Len(shown'[s]) = Len(shown[s]) + 1
            /\ \A i \in DOMAIN shown'[s] : shown'[s][i] = i - 1
        BY <2>1, <2>2, <3>2, <3>3
      <3>5. Len(shown'[s]) <= chunks[s]
        BY <2>2, <3>2, <3>4
      <3> QED BY <1>0, <3>1, <3>2, <3>4, <3>5
    <2>4. CASE ~Said(s, m)
      <3>1. shown'[s] = shown[s]
        BY <1>0, <1>1, <1>2, <2>4 DEF Said
      <3>2. CASE u = t
        <4>1. Coming(Tail(Out(t)), s, Len(shown[s]), chunks[s])
          BY <1>0, <2>1, <2>2, <2>4, <3>2, ComingDrop DEF m
        <4> QED BY <1>0, <2>1, <3>1, <3>2, <4>1
      <3>3. CASE u # t
        BY <1>0, <2>1, <2>2, <3>1, <3>3
      <3> QED BY <3>2, <3>3
    <2> QED BY <2>3, <2>4
  <1> QED BY <1>5, <1>6, <1>7 DEF OutputInv

LEMMA ReadsOutput ==
    ASSUME TypeOK, OneHost, OutputInv, NEW t \in Transport, NEW r \in Session, HostReads(t, r)
    PROVE  OutputInv'
  <1> DEFINE m == Message("TerminalData", r, chunks[r])
  <1>0. /\ UNCHANGED <<up, host, shown, fromHost>> /\ up \subseteq Transport /\ t \in up
        /\ host[t][r] # "none"
        /\ fromHost \in [Transport -> Seq(Msg)] /\ queued \in [Transport -> Seq(Msg)]
        /\ queued' = [queued EXCEPT ![t] = Append(@, m)]
        /\ shown \in [Session -> Seq(Nat)] /\ chunks \in [Session -> Nat]
        /\ chunks' = [chunks EXCEPT ![r] = @ + 1]
    BY DEF HostReads, desktop, relay, links, TypeOK
  <1>1. m \in Msg /\ m.kind = "TerminalData" /\ m.session = r /\ m.seq = chunks[r]
    BY <1>0, MessageType
  <1> HIDE DEF m
  <1>2. Out(t) \in Seq(Msg) /\ Out(t)' = Append(Out(t), m)
    <2>1. fromHost[t] \in Seq(Msg) /\ queued[t] \in Seq(Msg)
      BY <1>0
    <2>2. Out(t)' = fromHost[t] \o Append(queued[t], m)
      BY <1>0 DEF Out
    <2> QED BY <1>1, <2>1, <2>2, ConcatAppend DEF Out
  <1>3. \A u \in Transport : u # t => Out(u)' = Out(u)
    BY <1>0 DEF Out
  <1>4. \A i \in DOMAIN Out(t)' : Out(t)'[i] = m \/ \E j \in DOMAIN Out(t) : Out(t)'[i] = Out(t)[j]
    BY <1>2
  <1>5. OwnOutput'
    <2> SUFFICES ASSUME NEW u \in Transport, NEW i \in DOMAIN Out(u)', Out(u)'[i].kind = "TerminalData"
                 PROVE  host'[u][Out(u)'[i].session] # "none"
      BY DEF OwnOutput, Out
    <2>1. CASE u = t /\ Out(t)'[i] = m
      BY <1>0, <1>1, <2>1
    <2>2. CASE \E j \in DOMAIN Out(u) : Out(u)'[i] = Out(u)[j]
      BY <1>0, <2>2 DEF OutputInv, OwnOutput, Out
    <2> QED BY <1>3, <1>4, <2>1, <2>2
  <1>6. Silent'
    BY <1>0 DEF OutputInv, Silent
  <1>7. NothingSwallowed'
    <2> SUFFICES ASSUME NEW u \in up, NEW s \in Session, host[u][s] # "none"
                 PROVE  /\ Len(shown[s]) <= chunks'[s]
                        /\ \A i \in DOMAIN shown[s] : shown[s][i] = i - 1
                        /\ Coming(Out(u)', s, Len(shown[s]), chunks'[s])
      BY <1>0 DEF NothingSwallowed, Out
    <2>1. /\ Len(shown[s]) <= chunks[s]
          /\ \A i \in DOMAIN shown[s] : shown[s][i] = i - 1
          /\ Coming(Out(u), s, Len(shown[s]), chunks[s])
      BY DEF OutputInv, NothingSwallowed, Out
    <2>2. Len(shown[s]) \in Nat /\ chunks[s] \in Nat /\ u \in Transport
      BY <1>0
    <2>3. chunks'[s] = (IF s = r THEN chunks[s] + 1 ELSE chunks[s]) /\ Len(shown[s]) <= chunks'[s]
      BY <1>0, <2>1, <2>2
    <2>4. Said(s, m) <=> s = r
      BY <1>1 DEF Said
    <2>5. CASE u = t
      <3>1. Coming(Append(Out(t), m), s, Len(shown[s]), IF Said(s, m) THEN chunks[s] + 1 ELSE chunks[s])
        BY <1>1, <1>2, <2>1, <2>2, <2>4, <2>5, ComingAppend
      <3> QED BY <1>2, <2>1, <2>3, <2>4, <2>5, <3>1
    <2>6. CASE u # t
      <3>1. s # r
        <4>1. spawn[s].via = u /\ spawn[r].via = t
          BY <1>0, <2>2 DEF OneHost
        <4> QED BY <2>6, <4>1
      <3> QED BY <1>3, <2>1, <2>2, <2>3, <2>6, <3>1
    <2> QED BY <2>5, <2>6
  <1> QED BY <1>5, <1>6, <1>7 DEF OutputInv

LEMMA NextOutput ==
    ASSUME TypeOK, SpawnSent, OneHost, HostUsed, OutputInv, [Next]_vars
    PROVE  OutputInv'
  <1>1. ASSUME UNCHANGED <<up, fromHost, queued, host, chunks, shown>> PROVE OutputInv'
    <2>1. up \subseteq Transport
      BY DEF TypeOK
    <2> QED BY <1>1, <2>1, SameOutput DEF Out
  <1>2. ASSUME NEW t \in Remote, Attach(t) PROVE OutputInv'
    <2>1. /\ UNCHANGED <<fromHost, queued, host, chunks, shown>> /\ up' = up \cup {t}
          /\ t \notin used /\ t \in Transport /\ up \subseteq Transport
      BY <1>2 DEF Attach, desktop, relay, remote, TypeOK, Transport
    <2>2. \A s \in Session : host[t][s] = "none"
      BY <2>1 DEF HostUsed
    <2> QED BY <2>1, <2>2, SameOutput DEF Out
  <1>3. ASSUME NEW t \in Transport, HostWrites(t) PROVE OutputInv'
    <2>1. /\ UNCHANGED <<up, host, chunks, shown>> /\ up \subseteq Transport
          /\ fromHost \in [Transport -> Seq(Msg)] /\ queued \in [Transport -> Seq(Msg)]
          /\ queued[t] # <<>>
          /\ fromHost' = [fromHost EXCEPT ![t] = Append(fromHost[t], Head(queued[t]))]
          /\ queued' = [queued EXCEPT ![t] = Tail(queued[t])]
      BY <1>3 DEF HostWrites, desktop, relay, links, TypeOK
    <2>2. Append(fromHost[t], Head(queued[t])) \o Tail(queued[t]) = fromHost[t] \o queued[t]
      BY <2>1, HeadToEnd
    <2>3. \A u \in Transport : Out(u)' = Out(u)
      BY <2>1, <2>2 DEF Out
    <2> QED BY <2>1, <2>3, SameOutput
  <1> QED
    BY <1>1, <1>2, <1>3, LoseOutput, AnswerOutput, RelayOutput, ReadsOutput
    DEF Next, SpawnCommand, SpawnLooks, SpawnRegisters, SpawnSends, SpawnSendFails, SpawnReturns,
        SpawnRefused, SpawnTimesOut, CloseSends, CloseUnmaps, WriteInput, HostMain, HostTypes,
        HostTakes, Detach, desktop, relay, links, remote, vars

LEMMA InitDemux == Init => DemuxInv
  <1> SUFFICES ASSUME Init PROVE DemuxInv
    OBVIOUS
  <1>1. TypeOK
    BY BoundAssumption DEF Init, TypeOK, Transport
  <1>2. SpawnSent /\ OneHost /\ HostUsed /\ Silent /\ NothingSwallowed
    BY <1>1 DEF Init, TypeOK, SpawnSent, OneHost, HostUsed, Silent, NothingSwallowed
  <1>3. OwnOutput
    <2>1. \A t \in Transport : fromHost[t] \o queued[t] = <<>>
      BY DEF Init
    <2>2. DOMAIN <<>> = {}
      OBVIOUS
    <2>3. \A t \in Transport : DOMAIN (fromHost[t] \o queued[t]) = {}
      BY <2>1, <2>2, Zenon
    <2> QED BY <2>3 DEF OwnOutput
  <1> QED BY <1>1, <1>2, <1>3 DEF DemuxInv

LEMMA NextDemux == DemuxInv /\ [Next]_vars => DemuxInv'
  BY NextType, NextSpawnSent, NextOneHost, NextOutput DEF DemuxInv, OutputInv

\* Calls, maps, queues, relays and hosts keep their types, for any number of
\* sessions and of transports lost and attached in any order.
THEOREM DemuxTypes == Spec => []TypeOK
  <1>1. DemuxInv => TypeOK
    BY DEF DemuxInv
  <1> QED BY <1>1, InitDemux, NextDemux, PTL DEF Spec

\* While a transport is up, what was shown of each of its sessions and what is
\* on its way is everything the session said, once and in order, however many
\* sessions share the relay and whichever of them are closed or timed out.
THEOREM Shown == Spec => []NothingSwallowed
  <1>1. DemuxInv => NothingSwallowed
    BY DEF DemuxInv
  <1> QED BY <1>1, InitDemux, NextDemux, PTL DEF Spec

-----------------------------------------------------------------------------
(* Flow control: sums of chunks *)

FlowChunk == [seq : Nat, bytes : Nat]

\* The sums of the first chunks, the last of them of all.
Sums(f, q) == f = [i \in 0..Len(q) |-> IF i = 0 THEN 0 ELSE f[i - 1] + q[i].bytes]

LEMMA SumsAt ==
    ASSUME NEW f, NEW q \in Seq(FlowChunk), Sums(f, q)
    PROVE  /\ f[0] = 0
           /\ \A i \in 1..Len(q) : f[i] = f[i - 1] + q[i].bytes
  <1>1. Len(q) \in Nat
    OBVIOUS
  <1>2. \A i \in 0..Len(q) : f[i] = IF i = 0 THEN 0 ELSE f[i - 1] + q[i].bytes
    BY DEF Sums
  <1>3. 0 \in 0..Len(q) /\ \A i \in 1..Len(q) : i \in 0..Len(q) /\ i # 0
    BY <1>1
  <1> QED BY <1>2, <1>3

\* Every sequence has its sums, which are natural numbers.
LEMMA SumsExist ==
    ASSUME NEW q \in Seq(FlowChunk)
    PROVE  \E f : Sums(f, q) /\ \A i \in 0..Len(q) : f[i] \in Nat
  <1> DEFINE n == Len(q)
             g == [p \in (1..n) \X Nat |-> p[2] + q[p[1]].bytes]
  <1>1. n \in Nat /\ \A i \in 1..n : q[i].bytes \in Nat
    <2>1. n \in Nat /\ \A i \in 1..n : q[i] \in FlowChunk
      OBVIOUS
    <2> QED BY <2>1 DEF FlowChunk
  <1> HIDE DEF n
  <1>2. g \in [(1..n) \X Nat -> Nat]
    BY <1>1
  <1>3. PICK f : f \in [0..n -> Nat] /\ f[0] = 0 /\ \A i \in 1..n : f[i] = g[<<i, f[i - 1]>>]
    <2>1. \E f : Recursion(f, Nat, 0, n, g)
      <3> HIDE DEF g
      <3> QED BY <1>1, <1>2, RecursionExists
    <2> HIDE DEF g
    <2> QED BY <2>1 DEF Recursion
  <1>4. ASSUME NEW i \in 1..n PROVE f[i] = f[i - 1] + q[i].bytes
    <2>1. i - 1 \in 0..n
      BY <1>1
    <2>2. f[i - 1] \in Nat
      BY <1>3, <2>1
    <2>3. g[<<i, f[i - 1]>>] = f[i - 1] + q[i].bytes
      BY <2>2
    <2> QED BY <1>3, <2>3
  <1>5. \A i \in 0..n : f[i] = IF i = 0 THEN 0 ELSE f[i - 1] + q[i].bytes
    BY <1>1, <1>3, <1>4
  <1>6. f = [i \in 0..n |-> IF i = 0 THEN 0 ELSE f[i - 1] + q[i].bytes]
    BY <1>3, <1>5
  <1>7. Sums(f, q)
    BY <1>6 DEF Sums, n
  <1> QED BY <1>3, <1>7 DEF n

\* The sum is that of the bytes: it does not depend on how it was found.
LEMMA SumIs ==
    ASSUME NEW q \in Seq(FlowChunk), NEW f, Sums(f, q)
    PROVE  Sum(q) = f[Len(q)]
  <1> DEFINE g == CHOOSE g : Sums(g, q)
  <1>1. Sum(q) = g[Len(q)]
    BY DEF Sum, Sums
  <1>2. Sums(g, q)
    OBVIOUS
  <1> HIDE DEF g
  <1>3. Len(q) \in Nat /\ g[0] = f[0]
        /\ \A i \in 1..Len(q) : g[i - 1] = f[i - 1] => g[i] = f[i]
    BY <1>2, SumsAt
  <1> QED BY <1>1, <1>3, RecursionUnique

\* Appending a chunk adds its bytes.
LEMMA SumsAppend ==
    ASSUME NEW f, NEW q \in Seq(FlowChunk), NEW m \in FlowChunk, Sums(f, q)
    PROVE  Sums([i \in 0..(Len(q) + 1) |-> IF i = Len(q) + 1 THEN f[Len(q)] + m.bytes ELSE f[i]],
                Append(q, m))
  <1> DEFINE n == Len(q)
             r == Append(q, m)
             g == [i \in 0..(n + 1) |-> IF i = n + 1 THEN f[n] + m.bytes ELSE f[i]]
  <1>1. n \in Nat /\ Len(r) = n + 1 /\ r[n + 1] = m /\ \A i \in 1..n : r[i] = q[i]
    OBVIOUS
  <1>2. f[0] = 0 /\ \A i \in 1..n : f[i] = f[i - 1] + q[i].bytes
    BY SumsAt
  <1> HIDE DEF n, r
  <1>3. \A i \in 0..(n + 1) : g[i] = IF i = 0 THEN 0 ELSE g[i - 1] + r[i].bytes
    <2> SUFFICES ASSUME NEW i \in 0..(n + 1)
                 PROVE  g[i] = IF i = 0 THEN 0 ELSE g[i - 1] + r[i].bytes
      OBVIOUS
    <2>1. CASE i = 0
      BY <1>1, <1>2, <2>1
    <2>2. CASE i = n + 1
      <3>1. i # 0 /\ i - 1 = n /\ i - 1 \in 0..(n + 1) /\ i - 1 # n + 1
        BY <1>1, <2>2
      <3>2. g[i] = f[n] + m.bytes /\ g[i - 1] = f[n]
        BY <2>2, <3>1
      <3> QED BY <1>1, <2>2, <3>1, <3>2
    <2>3. CASE i # 0 /\ i # n + 1
      <3>1. i \in 1..n /\ i - 1 \in 0..(n + 1) /\ i - 1 # n + 1
        BY <1>1, <2>3
      <3>2. g[i] = f[i] /\ g[i - 1] = f[i - 1]
        BY <2>3, <3>1
      <3> QED BY <1>1, <1>2, <2>3, <3>1, <3>2
    <2> QED BY <2>1, <2>2, <2>3
  <1>4. g = [i \in 0..(n + 1) |-> g[i]]
    OBVIOUS
  <1> HIDE DEF g
  <1>5. Sums(g, r)
    BY <1>1, <1>3, <1>4 DEF Sums
  <1> QED BY <1>5 DEF g, n, r

LEMMA SumFacts ==
    ASSUME NEW q \in Seq(FlowChunk)
    PROVE  /\ Sum(<<>>) = 0
           /\ Sum(q) \in Nat
           /\ \A m \in FlowChunk : Sum(Append(q, m)) = Sum(q) + m.bytes
  <1>1. PICK f : Sums(f, q) /\ \A i \in 0..Len(q) : f[i] \in Nat
    BY SumsExist
  <1>2. Sum(q) = f[Len(q)] /\ Len(q) \in Nat
    BY <1>1, SumIs
  <1>3. ASSUME NEW m \in FlowChunk PROVE Sum(Append(q, m)) = Sum(q) + m.bytes
    <2> DEFINE g == [i \in 0..(Len(q) + 1) |-> IF i = Len(q) + 1 THEN f[Len(q)] + m.bytes ELSE f[i]]
    <2>1. Sums(g, Append(q, m))
      BY <1>1, SumsAppend
    <2>2. g[Len(q) + 1] = f[Len(q)] + m.bytes
      BY <1>2
    <2>3. Append(q, m) \in Seq(FlowChunk) /\ Len(Append(q, m)) = Len(q) + 1
      OBVIOUS
    <2> HIDE DEF g
    <2> QED BY <1>2, <2>1, <2>2, <2>3, SumIs
  <1>4. Sum(<<>>) = 0
    <2>1. <<>> \in Seq(FlowChunk) /\ Len(<<>>) = 0
      OBVIOUS
    <2>2. PICK h : Sums(h, <<>>)
      BY <2>1, SumsExist
    <2> QED BY <2>1, <2>2, SumIs, SumsAt
  <1> QED BY <1>1, <1>2, <1>3, <1>4

LEMMA SumTail ==
    ASSUME NEW q \in Seq(FlowChunk), q # <<>>
    PROVE  Sum(q) = Head(q).bytes + Sum(Tail(q))
  <1> DEFINE n == Len(q)
             r == Tail(q)
  <1>1. PICK f : Sums(f, q) /\ \A i \in 0..Len(q) : f[i] \in Nat
    BY SumsExist
  <1> DEFINE g == [i \in 0..(n - 1) |-> f[i + 1] - f[1]]
  <1>2. /\ n \in Nat /\ n >= 1 /\ r \in Seq(FlowChunk) /\ Len(r) = n - 1
        /\ Head(q) = q[1] /\ \A i \in 1..(n - 1) : r[i] = q[i + 1]
    OBVIOUS
  <1>3. \A i \in 1..n : q[i].bytes \in Nat
    <2>1. \A i \in 1..n : q[i] \in FlowChunk
      OBVIOUS
    <2> QED BY <2>1 DEF FlowChunk
  <1>4. /\ f[0] = 0 /\ \A i \in 1..n : f[i] = f[i - 1] + q[i].bytes
        /\ \A i \in 0..n : f[i] \in Nat
    BY <1>1, SumsAt
  <1>5. Sum(q) = f[n]
    BY <1>1, SumIs
  <1> HIDE DEF n, r
  <1>6. f[1] = q[1].bytes
    <2>1. 1 \in 1..n /\ 1 - 1 = 0
      BY <1>2
    <2>2. f[1] = f[1 - 1] + q[1].bytes
      BY <1>4, <2>1
    <2> QED BY <1>3, <1>4, <2>1, <2>2
  <1>7. \A i \in 0..(n - 1) : g[i] = IF i = 0 THEN 0 ELSE g[i - 1] + r[i].bytes
    <2> SUFFICES ASSUME NEW i \in 0..(n - 1)
                 PROVE  g[i] = IF i = 0 THEN 0 ELSE g[i - 1] + r[i].bytes
      OBVIOUS
    <2>1. CASE i = 0
      <3>1. g[i] = f[1] - f[1] /\ f[1] \in Nat
        BY <1>2, <1>4, <2>1
      <3> QED BY <2>1, <3>1
    <2>2. CASE i # 0
      <3>1. i - 1 \in 0..(n - 1) /\ i \in 1..(n - 1) /\ i + 1 \in 1..n
            /\ (i - 1) + 1 = i /\ (i + 1) - 1 = i /\ i \in 0..n /\ 1 \in 0..n
        BY <1>2, <2>2
      <3>2. g[i] = f[i + 1] - f[1] /\ g[i - 1] = f[i] - f[1] /\ r[i] = q[i + 1]
        BY <1>2, <3>1
      <3>3. f[i + 1] = f[i] + q[i + 1].bytes
        BY <1>4, <3>1
      <3>4. f[i] \in Nat /\ f[1] \in Nat /\ q[i + 1].bytes \in Nat
        BY <1>3, <1>4, <3>1
      <3> HIDE DEF g
      <3> QED BY <2>2, <3>2, <3>3, <3>4
    <2> QED BY <2>1, <2>2
  <1>8. g = [i \in 0..(n - 1) |-> g[i]] /\ g[n - 1] = f[n] - f[1]
    <2>1. n - 1 \in 0..(n - 1) /\ (n - 1) + 1 = n
      BY <1>2
    <2> QED BY <2>1
  <1> HIDE DEF g
  <1>9. Sums(g, r)
    BY <1>2, <1>7, <1>8 DEF Sums
  <1>10. Sum(r) = f[n] - f[1]
    BY <1>2, <1>8, <1>9, SumIs
  <1>11. f[n] \in Nat /\ f[1] \in Nat
    BY <1>2, <1>4
  <1> QED BY <1>2, <1>5, <1>6, <1>10, <1>11 DEF r

-----------------------------------------------------------------------------
(* Flow control: the inductive invariant *)

FlowReader == [pc : {"check", "read", "count", "pause", "send"}, chunk : FlowChunk, over : BOOLEAN]

FlowTypes ==
    /\ recorded \in BOOLEAN /\ paused \in BOOLEAN
    /\ left \in Nat /\ bytesPending \in Nat /\ seqCounter \in Nat /\ lastAcked \in Nat
    /\ reader \in FlowReader /\ reader.chunk.bytes <= ReadChunkSize
    /\ wire \in Seq(FlowChunk) /\ acks \in Seq(FlowChunk)
    /\ handler \in {"idle", "resume", "keep"}

\* The counter is what is about to be sent, on its way, or on its way back.
Held == IF reader.pc \in {"pause", "send"} THEN reader.chunk.bytes ELSE 0
Accounted == recorded => bytesPending = Sum(wire) + Sum(acks) + Held

\* What is bytesPending has been written: the counter never wraps.
Uncounted == IF reader.pc = "count" THEN reader.chunk.bytes ELSE 0
Written == bytesPending + Uncounted + left <= Total

\* No more than n is bytesPending when the reader reads, and one chunk more until it
\* stops: whoever holds a chunk that crosses the watermark has seen that it does,
\* and has paused when he has stored it.
Limited(n) ==
    /\ reader.pc \in {"read", "count"} => bytesPending <= n
    /\ reader.pc = "pause" => bytesPending <= n \/ reader.over
    /\ reader.pc \in {"send", "check"} => bytesPending <= n \/ paused
    /\ bytesPending <= n + ReadChunkSize

\* The store of record_ack may undo a pause it has not seen: it comes when no more
\* than the high watermark and a chunk is bytesPending. Nothing undoes a pause when the
\* main loop records nothing.
LateStore ==
    /\ Limited(High + ReadChunkSize)
    /\ handler = "resume" \/ ~recorded => Limited(High)
    /\ ~recorded => handler = "idle"

FlowInv == FlowTypes /\ Accounted /\ Written /\ LateStore

LEMMA FlowBegins ==
    ASSUME FlowInit PROVE FlowInv
  <1>1. reader = [pc |-> "check", chunk |-> [seq |-> 0, bytes |-> 0], over |-> FALSE]
    BY DEF FlowInit, At, NoChunk
  <1>2. /\ recorded \in BOOLEAN /\ left = Total /\ Total \in Nat /\ bytesPending = 0 /\ paused = FALSE
        /\ seqCounter = 0 /\ lastAcked = 0 /\ wire = <<>> /\ acks = <<>> /\ handler = "idle"
        /\ High \in Nat /\ ReadChunkSize \in Nat
    BY WatermarkAssumption DEF FlowInit
  <1>3. reader.pc = "check" /\ Held = 0 /\ Uncounted = 0
    BY <1>1 DEF Held, Uncounted
  <1>4. <<>> \in Seq(FlowChunk)
    OBVIOUS
  <1>5. FlowTypes
    <2>1. reader \in FlowReader /\ reader.chunk.bytes <= ReadChunkSize
      BY <1>1, <1>2 DEF FlowReader, FlowChunk
    <2> QED BY <1>2, <1>4, <2>1 DEF FlowTypes
  <1>6. Accounted
    <2>1. Sum(wire) = 0 /\ Sum(acks) = 0
      BY <1>2, <1>4, SumFacts
    <2> QED BY <1>2, <1>3, <2>1 DEF Accounted
  <1>7. Written
    BY <1>2, <1>3 DEF Written
  <1>8. LateStore
    BY <1>2, <1>3 DEF LateStore, Limited
  <1> QED BY <1>5, <1>6, <1>7, <1>8 DEF FlowInv

\* The reader thread.
LEMMA ReaderKeeps ==
    ASSUME FlowInv, Reader PROVE FlowInv'
  <1> USE DEF FlowInv
  <1>1. CASE Check
    <2>1. reader' = [pc |-> "read", chunk |-> [seq |-> 0, bytes |-> 0], over |-> FALSE]
      BY <1>1 DEF Check, At, NoChunk
    <2>2. FlowTypes'
      <3>1. reader' \in FlowReader /\ reader'.chunk.bytes <= ReadChunkSize
        BY <2>1, WatermarkAssumption DEF FlowReader, FlowChunk
      <3> QED BY <1>1, <3>1 DEF FlowTypes, Check
    <2>6. Held = 0 /\ Uncounted = 0 /\ Held' = 0 /\ Uncounted' = 0
      <3>1. reader.pc = "check"
        BY <1>1 DEF Check
      <3>2. reader'.pc = "read"
        BY <2>1
      <3> QED BY <3>1, <3>2 DEF Held, Uncounted
    <2>3. Accounted'
      BY <1>1, <2>6 DEF Accounted, Check
    <2>4. Written'
      BY <1>1, <2>6 DEF Written, Check
    <2>5. LateStore'
      BY <1>1, <2>1, WatermarkAssumption DEF FlowTypes, LateStore, Limited, Check
    <2> QED BY <2>2, <2>3, <2>4, <2>5
  <1>2. ASSUME NEW n \in 1..ReadChunkSize, ReadChunk(n) PROVE FlowInv'
    <2>1. reader' = [pc |-> "count", chunk |-> [seq |-> seqCounter, bytes |-> n], over |-> FALSE]
      BY <1>2 DEF ReadChunk, At
    <2>2. n \in Nat /\ n <= ReadChunkSize /\ n <= left
      BY <1>2, WatermarkAssumption DEF ReadChunk
    <2>3. /\ reader.pc = "read" /\ left' = left - n /\ seqCounter' = seqCounter + 1
          /\ UNCHANGED <<recorded, bytesPending, paused, lastAcked, wire, acks, handler>>
          /\ left \in Nat /\ bytesPending \in Nat /\ seqCounter \in Nat
      BY <1>2 DEF FlowTypes, ReadChunk
    <2>4. Held = 0 /\ Uncounted = 0 /\ Held' = 0 /\ Uncounted' = n
      BY <2>1, <2>3 DEF Held, Uncounted
    <2>5. FlowTypes'
      <3>1. reader' \in FlowReader /\ reader'.chunk.bytes <= ReadChunkSize
        BY <2>1, <2>2, <2>3 DEF FlowReader, FlowChunk
      <3>2. left' \in Nat /\ seqCounter' \in Nat
        BY <2>2, <2>3
      <3> QED BY <2>3, <3>1, <3>2 DEF FlowTypes
    <2>7. Accounted'
      BY <2>3, <2>4 DEF Accounted
    <2>8. Written'
      <3>1. Total \in Nat
        BY WatermarkAssumption
      <3> QED BY <2>2, <2>3, <2>4, <3>1 DEF Written
    <2>6. LateStore'
      BY <1>2, <2>1 DEF FlowTypes, LateStore, Limited, ReadChunk
    <2> QED BY <2>5, <2>6, <2>7, <2>8
  <1>3. CASE CountSent
    <2> DEFINE b == reader.chunk.bytes
    <2>0. b \in Nat /\ b <= ReadChunkSize /\ bytesPending \in Nat /\ left \in Nat
      BY DEF FlowTypes, FlowReader, FlowChunk
    <2>1. reader.pc = "count" /\ bytesPending + b + left <= Total
      BY <1>3 DEF Written, Uncounted, CountSent
    <2>2. bytesPending' = bytesPending + b
      <3>1. bytesPending + b \in Nat /\ bytesPending + b < Width /\ Width \in Nat
        BY <2>0, <2>1, WatermarkAssumption
      <3>2. (bytesPending + b) % Width = bytesPending + b
        <4> HIDE DEF b
        <4> QED BY <3>1
      <3> QED BY <1>3, <3>2 DEF CountSent
    <2>3. reader' = [pc |-> "pause", chunk |-> reader.chunk, over |-> bytesPending + b > High]
      BY <1>3 DEF CountSent, At, Crosses
    <2>4. FlowTypes'
      <3>1. reader' \in FlowReader /\ reader'.chunk.bytes <= ReadChunkSize
        BY <2>3 DEF FlowReader, FlowTypes
      <3> QED BY <1>3, <2>0, <2>2, <3>1 DEF FlowTypes, CountSent
    <2>5. Accounted'
      <3>1. Held = 0 /\ Held' = b
        BY <2>1, <2>3 DEF Held
      <3>2. recorded' = recorded /\ wire' = wire /\ acks' = acks
        BY <1>3 DEF CountSent
      <3>3. Sum(wire) \in Nat /\ Sum(acks) \in Nat
        BY SumFacts DEF FlowTypes
      <3> HIDE DEF b
      <3> QED BY <2>0, <2>2, <3>1, <3>2, <3>3 DEF Accounted
    <2>6. Written'
      BY <1>3, <2>0, <2>1, <2>2, <2>3 DEF Written, Uncounted, CountSent
    <2>7. LateStore'
      <3>1. bytesPending' <= High \/ reader'.over
        <4>1. High \in Nat /\ (bytesPending + b <= High \/ bytesPending + b > High)
          BY <2>0, WatermarkAssumption
        <4>2. CASE bytesPending + b > High
          <5>1. reader'.over = (bytesPending + b > High)
            BY <2>3
          <5> QED BY <4>2, <5>1
        <4> QED BY <2>2, <4>1, <4>2
      <3>2. reader'.pc = "pause" /\ recorded' = recorded /\ handler' = handler
        BY <1>3, <2>3 DEF CountSent
      <3> HIDE DEF b
      <3> QED BY <2>0, <2>1, <2>2, <3>1, <3>2, WatermarkAssumption DEF LateStore, Limited
    <2> QED BY <2>4, <2>5, <2>6, <2>7
  <1>4. CASE Pause
    <2>1. reader.pc = "pause"
          /\ reader' = [pc |-> "send", chunk |-> reader.chunk, over |-> FALSE]
          /\ paused' = (paused \/ reader.over)
      BY <1>4 DEF Pause, At
    <2>2. FlowTypes'
      <3>1. reader' \in FlowReader /\ reader'.chunk.bytes <= ReadChunkSize
        BY <2>1 DEF FlowReader, FlowTypes
      <3>2. paused' \in BOOLEAN
        BY <2>1 DEF FlowTypes
      <3> QED BY <1>4, <3>1, <3>2 DEF FlowTypes, Pause
    <2>3. Accounted'
      <3>1. Held' = Held
        BY <2>1 DEF Held
      <3> QED BY <1>4, <3>1 DEF Accounted, Pause
    <2>4. Written'
      <3>1. Uncounted = 0 /\ Uncounted' = 0
        BY <2>1 DEF Uncounted
      <3> QED BY <1>4, <3>1 DEF Written, Pause
    <2>5. LateStore'
      <3>1. reader.over => paused'
        BY <2>1
      <3>2. ~ reader.over => paused' = paused
        BY <2>1 DEF FlowTypes
      <3>3. reader.pc = "pause" /\ reader'.pc = "send"
        BY <2>1
      <3>4. bytesPending' = bytesPending /\ recorded' = recorded /\ handler' = handler
        BY <1>4 DEF Pause
      <3> QED BY <3>1, <3>2, <3>3, <3>4 DEF LateStore, Limited
    <2> QED BY <2>2, <2>3, <2>4, <2>5
  <1>5. CASE Send
    <2>1. reader.pc = "send"
          /\ reader' = [pc |-> "check", chunk |-> [seq |-> 0, bytes |-> 0], over |-> FALSE]
      BY <1>5 DEF Send, At, NoChunk
    <2>2. reader.chunk \in FlowChunk
      BY DEF FlowTypes, FlowReader
    <2>3. FlowTypes'
      <3>1. reader' \in FlowReader /\ reader'.chunk.bytes <= ReadChunkSize
        BY <2>1, WatermarkAssumption DEF FlowReader, FlowChunk
      <3>2. wire' \in Seq(FlowChunk)
        BY <1>5, <2>2 DEF FlowTypes, Send
      <3> QED BY <1>5, <3>1, <3>2 DEF FlowTypes, Send
    <2>4. Accounted'
      <3>1. Held = reader.chunk.bytes /\ Held' = 0
        BY <2>1 DEF Held
      <3>2. Sum(wire') = Sum(wire) + reader.chunk.bytes
        BY <1>5, <2>2, SumFacts DEF FlowTypes, Send
      <3>3. recorded' = recorded /\ bytesPending' = bytesPending /\ acks' = acks
        BY <1>5 DEF Send
      <3>4. Sum(wire) \in Nat /\ Sum(acks) \in Nat /\ reader.chunk.bytes \in Nat
        BY <2>2, SumFacts DEF FlowTypes, FlowChunk
      <3>5. Sum(acks') = Sum(acks)
        BY <3>3
      <3> QED BY <3>1, <3>2, <3>3, <3>4, <3>5 DEF Accounted
    <2>5. Written'
      <3>1. Uncounted = 0 /\ Uncounted' = 0
        BY <2>1 DEF Uncounted
      <3> QED BY <1>5, <3>1 DEF Written, Send
    <2>6. LateStore'
      <3>1. reader.pc = "send" /\ reader'.pc = "check"
        BY <2>1
      <3> QED BY <1>5, <3>1 DEF LateStore, Limited, Send
    <2> QED BY <2>3, <2>4, <2>5, <2>6
  <1> QED BY <1>1, <1>2, <1>3, <1>4, <1>5 DEF Reader

\* The client.
LEMMA ConsumeKeeps ==
    ASSUME FlowInv, Consume PROVE FlowInv'
  <1> USE DEF FlowInv
  <1>1. wire # <<>> /\ wire \in Seq(FlowChunk) /\ acks \in Seq(FlowChunk)
        /\ wire' = Tail(wire) /\ acks' = Append(acks, Head(wire))
    BY DEF FlowTypes, Consume
  <1>2. Head(wire) \in FlowChunk /\ Tail(wire) \in Seq(FlowChunk)
    BY <1>1
  <1>3. FlowTypes'
    <2>1. wire' \in Seq(FlowChunk) /\ acks' \in Seq(FlowChunk)
      BY <1>1, <1>2
    <2> QED BY <2>1 DEF FlowTypes, Consume
  <1>4. Accounted'
    <2>1. Sum(wire) = Head(wire).bytes + Sum(wire')
      BY <1>1, SumTail
    <2>2. Sum(acks') = Sum(acks) + Head(wire).bytes
      BY <1>1, <1>2, SumFacts
    <2>3. /\ Sum(wire') \in Nat /\ Sum(acks) \in Nat /\ Head(wire).bytes \in Nat
          /\ Held' = Held /\ Held \in Nat
      <3>1. Sum(wire') \in Nat /\ Sum(acks) \in Nat
        BY <1>1, <1>2, SumFacts
      <3>2. Head(wire).bytes \in Nat
        BY <1>2 DEF FlowChunk
      <3>3. Held' = Held /\ Held \in Nat
        BY DEF Held, Consume, FlowTypes, FlowReader, FlowChunk
      <3> QED BY <3>1, <3>2, <3>3
    <2>4. recorded' = recorded /\ bytesPending' = bytesPending
      BY DEF Consume
    <2> QED BY <2>1, <2>2, <2>3, <2>4 DEF Accounted
  <1>5. Written'
    BY DEF Written, Uncounted, Consume
  <1>6. LateStore'
    BY DEF LateStore, Limited, Consume
  <1> QED BY <1>3, <1>4, <1>5, <1>6

\* The main loop.
LEMMA HandleAckKeeps ==
    ASSUME FlowInv, HandleAck PROVE FlowInv'
  <1> USE DEF FlowInv
  <1>1. CASE IgnoreAck
    <2>1. FlowTypes'
      <3>1. acks' \in Seq(FlowChunk)
        BY <1>1 DEF FlowTypes, IgnoreAck
      <3> QED BY <1>1, <3>1 DEF FlowTypes, IgnoreAck
    <2>2. Accounted'
      BY <1>1 DEF Accounted, IgnoreAck
    <2>3. Written'
      BY <1>1 DEF Written, Uncounted, IgnoreAck
    <2>4. LateStore'
      BY <1>1 DEF LateStore, Limited, IgnoreAck
    <2> QED BY <2>1, <2>2, <2>3, <2>4
  <1>2. CASE RecordAck
    <2> DEFINE m == Head(acks)
    <2>1. acks \in Seq(FlowChunk) /\ acks # <<>> /\ acks' = Tail(acks) /\ wire \in Seq(FlowChunk)
          /\ recorded /\ recorded' = recorded
      BY <1>2 DEF FlowTypes, RecordAck
    <2>2. m \in FlowChunk /\ Tail(acks) \in Seq(FlowChunk)
      BY <2>1
    <2>3. m.bytes \in Nat /\ m.seq \in Nat
      BY <2>2 DEF FlowChunk
    <2>4. Sum(acks) = m.bytes + Sum(acks')
      BY <2>1, SumTail
    <2>5. Sum(acks') \in Nat /\ Sum(wire) \in Nat
      BY <2>1, <2>2, SumFacts
    <2>6. Held \in Nat /\ Held' = Held
      BY <1>2 DEF Held, FlowTypes, FlowReader, FlowChunk, RecordAck
    <2>7. bytesPending = Sum(wire) + Sum(acks) + Held /\ bytesPending \in Nat
      BY <2>1 DEF Accounted, FlowTypes
    <2> HIDE DEF m
    <2>8. m.bytes <= bytesPending /\ bytesPending - m.bytes \in Nat
      BY <2>3, <2>4, <2>5, <2>6, <2>7
    <2>9. bytesPending' = bytesPending - m.bytes
      <3>1. bytesPending <= Total
        BY <2>7, WatermarkAssumption DEF Written, Uncounted, FlowTypes, FlowReader, FlowChunk
      <3>2. bytesPending - m.bytes < Width /\ Width \in Nat
        BY <2>3, <2>7, <3>1, WatermarkAssumption
      <3>3. (bytesPending - m.bytes) % Width = bytesPending - m.bytes
        BY <2>8, <3>2
      <3> QED BY <1>2, <3>3 DEF RecordAck, m
    <2>10. reader' = reader /\ paused' = paused /\ left' = left /\ wire' = wire
           /\ seqCounter' = seqCounter /\ lastAcked' \in Nat /\ handler' \in {"resume", "keep"}
      <3>1. lastAcked' = IF m.seq > lastAcked THEN m.seq ELSE lastAcked
        BY <1>2 DEF RecordAck, m
      <3> QED BY <1>2, <2>3, <3>1 DEF RecordAck, FlowTypes
    <2>11. handler' = "resume" => bytesPending' <= Low
      <3>1. handler' = "resume" => Monus(bytesPending, m.bytes) <= Low
        BY <1>2 DEF RecordAck, Resumes, m
      <3>2. Monus(bytesPending, m.bytes) = bytesPending - m.bytes
        BY <2>3, <2>7, <2>8 DEF Monus
      <3> QED BY <2>9, <3>1, <3>2
    <2>12. FlowTypes'
      BY <2>1, <2>2, <2>8, <2>9, <2>10 DEF FlowTypes
    <2>13. Accounted'
      <3>1. Sum(wire') = Sum(wire)
        BY <2>10
      <3>2. bytesPending' = Sum(wire) + Sum(acks') + Held
        BY <2>3, <2>4, <2>5, <2>6, <2>7, <2>9
      <3> QED BY <2>6, <3>1, <3>2 DEF Accounted
    <2>14. bytesPending' \in Nat /\ bytesPending' <= bytesPending
      BY <2>3, <2>7, <2>8, <2>9
    <2>15. Written'
      <3>1. Uncounted' = Uncounted /\ Uncounted \in Nat /\ left \in Nat
        BY <2>10 DEF Uncounted, FlowTypes, FlowReader, FlowChunk
      <3>2. Total \in Nat /\ bytesPending + Uncounted + left <= Total /\ left' = left
        BY <2>10, WatermarkAssumption DEF Written
      <3>3. bytesPending \in Nat
        BY <2>7
      <3>4. bytesPending' + Uncounted' + left' <= Total
        <4>1. ASSUME NEW a \in Nat, NEW b \in Nat, NEW c \in Nat, NEW d \in Nat, a <= b,
                     b + c + d <= Total
              PROVE  a + c + d <= Total
          BY <3>2, <4>1
        <4> QED BY <2>14, <3>1, <3>2, <3>3, <4>1
      <3> QED BY <3>4 DEF Written
    <2>16. LateStore'
      BY <2>1, <2>7, <2>10, <2>11, <2>14, WatermarkAssumption DEF FlowTypes, LateStore, Limited
    <2> QED BY <2>12, <2>13, <2>15, <2>16
  <1>3. CASE Resume
    <2>1. FlowTypes'
      BY <1>3 DEF FlowTypes, Resume
    <2>2. Accounted'
      BY <1>3 DEF Accounted, Held, Resume
    <2>3. Written'
      BY <1>3 DEF Written, Uncounted, Resume
    <2>4. LateStore'
      BY <1>3, WatermarkAssumption DEF FlowTypes, LateStore, Limited, FlowReader, Resume
    <2> QED BY <2>1, <2>2, <2>3, <2>4
  <1> QED BY <1>1, <1>2, <1>3 DEF HandleAck

\* However the reader thread and the main loop interleave, at most the high
\* watermark and two chunks are pending, one chunk fewer while handle_ack records
\* nothing; and with every Ack recorded the counter is what is on its way.
THEOREM Bounded ==
    FlowSpec => []UnackedBounded
  <1>1. FlowInit => FlowInv
    BY FlowBegins
  <1>2. FlowInv /\ [FlowNext]_flowVars => FlowInv'
    <2> SUFFICES ASSUME FlowInv, [FlowNext]_flowVars PROVE FlowInv'
      OBVIOUS
    <2>1. CASE UNCHANGED flowVars
      BY <2>1 DEF flowVars, FlowInv, FlowTypes, Accounted, Held, Written, Uncounted, LateStore,
                  Limited
    <2> QED BY <2>1, ReaderKeeps, ConsumeKeeps, HandleAckKeeps DEF FlowNext
  <1>3. FlowInv => UnackedBounded
    <2> SUFFICES ASSUME FlowInv PROVE UnackedBounded
      OBVIOUS
    <2>1. bytesPending <= High + (IF recorded THEN 2 ELSE 1) * ReadChunkSize
      <3>1. CASE recorded
        BY <3>1, WatermarkAssumption DEF FlowInv, FlowTypes, LateStore, Limited
      <3>2. CASE ~recorded
        BY <3>2, WatermarkAssumption DEF FlowInv, FlowTypes, LateStore, Limited
      <3> QED BY <3>1, <3>2
    <2> QED BY <2>1 DEF FlowInv, Accounted, Held, UnackedBounded
  <1> QED BY <1>1, <1>2, <1>3, PTL DEF FlowSpec

-----------------------------------------------------------------------------
(* Frames: the length prefix *)

LEMMA WeightFacts ==
    ASSUME Base \in Nat \ {0}, HeaderSize \in Nat
    PROVE  /\ Weight[0] = 1
           /\ \A i \in 1..HeaderSize : Weight[i] = Base * Weight[i - 1]
           /\ \A i \in 0..HeaderSize : Weight[i] \in Nat \ {0}
  <1> DEFINE Is(w) == w = [i \in 0..HeaderSize |-> IF i = 0 THEN 1 ELSE Base * w[i - 1]]
             g == [p \in (1..HeaderSize) \X Nat |-> Base * p[2]]
             w == CHOOSE f : Is(f)
  <1>1. Weight = w
    BY DEF Weight
  <1>2. \E f : Recursion(f, Nat, 1, HeaderSize, g)
    <2>1. g \in [(1..HeaderSize) \X Nat -> Nat]
      OBVIOUS
    <2> HIDE DEF g
    <2> QED BY <2>1, RecursionExists
  <1>3. PICK f : f \in [0..HeaderSize -> Nat] /\ f[0] = 1
                 /\ \A i \in 1..HeaderSize : f[i] = g[<<i, f[i - 1]>>]
    <2> HIDE DEF g
    <2> QED BY <1>2 DEF Recursion
  <1>4. ASSUME NEW i \in 1..HeaderSize PROVE f[i] = Base * f[i - 1]
    <2>1. i - 1 \in 0..HeaderSize
      OBVIOUS
    <2>2. f[i - 1] \in Nat
      BY <1>3, <2>1
    <2>3. g[<<i, f[i - 1]>>] = Base * f[i - 1]
      BY <2>2
    <2> QED BY <1>3, <2>3
  <1>5. \A i \in 0..HeaderSize : f[i] = IF i = 0 THEN 1 ELSE Base * f[i - 1]
    BY <1>3, <1>4
  <1>6. Is(f)
    BY <1>3, <1>5
  <1>7. Is(w)
    <2> HIDE DEF Is
    <2> QED BY <1>6
  <1> HIDE DEF w
  <1>8. w[0] = 1 /\ \A i \in 1..HeaderSize : w[i] = Base * w[i - 1]
    BY <1>7
  <1> DEFINE T == {i \in 0..HeaderSize : w[i] \in Nat \ {0}}
  <1>9. 0 \in T
    BY <1>8
  <1>10. \A k \in 1..HeaderSize : k - 1 \in T => k \in T
    <2> SUFFICES ASSUME NEW k \in 1..HeaderSize, k - 1 \in T PROVE k \in T
      OBVIOUS
    <2>1. \A x \in Nat \ {0} : Base * x \in Nat \ {0}
      OBVIOUS
    <2>2. k \in 0..HeaderSize /\ w[k] = Base * w[k - 1] /\ w[k - 1] \in Nat \ {0}
      BY <1>8
    <2> QED BY <2>1, <2>2
  <1>11. 0..HeaderSize \subseteq T
    <2> HIDE DEF T
    <2> QED BY <1>9, <1>10, IntervalInduction
  <1> QED BY <1>1, <1>8, <1>11

\* The value of a sequence of bytes, byte by byte.
LEMMA LengthFacts ==
    ASSUME NEW b \in Seq(Byte), Base \in Nat \ {0}
    PROVE  \E v : /\ v[0] = 0
                  /\ \A i \in 1..Len(b) : v[i] = v[i - 1] * Base + b[i]
                  /\ \A i \in 0..Len(b) : v[i] \in Nat
                  /\ Length(b) = v[Len(b)]
  <1> DEFINE n == Len(b)
             Is(v) == v = [i \in 0..n |-> IF i = 0 THEN 0 ELSE v[i - 1] * Base + b[i]]
             g == [p \in (1..n) \X Nat |-> p[2] * Base + b[p[1]]]
             v == CHOOSE f : Is(f)
  <1>1. Length(b) = v[n]
    BY DEF Length
  <1>2. n \in Nat /\ \A i \in 1..n : b[i] \in Nat
    BY DEF Byte
  <1> HIDE DEF n
  <1>3. \E f : Recursion(f, Nat, 0, n, g)
    <2>1. g \in [(1..n) \X Nat -> Nat]
      <3>1. \A x \in Nat : x * Base \in Nat
        OBVIOUS
      <3>2. ASSUME NEW p \in (1..n) \X Nat PROVE p[2] * Base + b[p[1]] \in Nat
        <4>1. p[2] * Base \in Nat /\ b[p[1]] \in Nat
          BY <1>2, <3>1
        <4> QED BY <4>1
      <3> QED BY <3>2
    <2> HIDE DEF g
    <2> QED BY <1>2, <2>1, RecursionExists
  <1>4. PICK f : f \in [0..n -> Nat] /\ f[0] = 0 /\ \A i \in 1..n : f[i] = g[<<i, f[i - 1]>>]
    <2> HIDE DEF g
    <2> QED BY <1>3 DEF Recursion
  <1>5. ASSUME NEW i \in 1..n PROVE f[i] = f[i - 1] * Base + b[i]
    <2>1. i - 1 \in 0..n
      BY <1>2
    <2>2. f[i - 1] \in Nat
      BY <1>4, <2>1
    <2>3. g[<<i, f[i - 1]>>] = f[i - 1] * Base + b[i]
      BY <2>2
    <2> QED BY <1>4, <2>3
  <1>6. \A i \in 0..n : f[i] = IF i = 0 THEN 0 ELSE f[i - 1] * Base + b[i]
    BY <1>2, <1>4, <1>5
  <1>7. Is(f)
    BY <1>4, <1>6
  <1>8. Is(v)
    <2> HIDE DEF Is
    <2> QED BY <1>7
  <1> HIDE DEF v
  <1>9. v[0] = 0 /\ \A i \in 1..n : v[i] = v[i - 1] * Base + b[i]
    BY <1>2, <1>8
  <1> DEFINE T == {i \in 0..n : v[i] \in Nat}
  <1>10. 0 \in T
    BY <1>2, <1>9
  <1>11. \A k \in 1..n : k - 1 \in T => k \in T
    <2> SUFFICES ASSUME NEW k \in 1..n, k - 1 \in T PROVE k \in T
      OBVIOUS
    <2>1. k \in 0..n /\ v[k] = v[k - 1] * Base + b[k] /\ v[k - 1] \in Nat /\ b[k] \in Nat
      BY <1>2, <1>9
    <2>2. v[k - 1] * Base \in Nat
      BY <2>1
    <2> QED BY <2>1, <2>2
  <1>12. 0..n \subseteq T
    <2> HIDE DEF T
    <2> QED BY <1>2, <1>10, <1>11, IntervalInduction
  <1> QED BY <1>1, <1>9, <1>12 DEF n

LEMMA Division ==
    ASSUME NEW n \in Nat, NEW d \in Nat \ {0}
    PROVE  \E p, s \in Nat : p = n \div d /\ s = n % d /\ s < d /\ n = p * d + s
  <1> DEFINE p == n \div d
             s == n % d
  <1>1. p \in Nat /\ s \in Nat /\ s < d /\ n = p * d + s
    OBVIOUS
  <1> QED BY <1>1

\* Division by a product is division by one factor and then by the other.
LEMMA Quotient ==
    ASSUME NEW n \in Nat, NEW d \in Nat \ {0}, NEW q \in Nat, NEW r \in Nat, r < d, n = q * d + r
    PROVE  n \div d = q
  <1> DEFINE p == n \div d
             s == n % d
  <1>1. p \in Nat /\ s \in Nat /\ s < d /\ n = p * d + s
    OBVIOUS
  <1> HIDE DEF p, s
  <1>2. ASSUME NEW x \in Nat, NEW y \in Nat, x < y PROVE y * d >= x * d + d
    <2>1. y >= x + 1
      BY <1>2
    <2>2. y * d >= (x + 1) * d
      BY <2>1
    <2>3. (x + 1) * d = x * d + d
      OBVIOUS
    <2> QED BY <2>2, <2>3
  <1>3. p * d \in Nat /\ q * d \in Nat
    BY <1>1
  <1>4. CASE p < q
    BY <1>1, <1>2, <1>3, <1>4
  <1>5. CASE q < p
    BY <1>1, <1>2, <1>3, <1>5
  <1> QED BY <1>1, <1>4, <1>5 DEF p

LEMMA QuotientTwice ==
    ASSUME NEW n \in Nat, NEW b \in Nat \ {0}, NEW d \in Nat \ {0}
    PROVE  n \div (b * d) = (n \div d) \div b
  <1> DEFINE m == n \div d
             s == n % d
             q == m \div b
             r == m % b
  <1>1. m \in Nat /\ s \in Nat /\ s < d /\ n = m * d + s
    OBVIOUS
  <1> HIDE DEF m, s
  <1>2. q \in Nat /\ r \in Nat /\ r < b /\ m = q * b + r
    BY <1>1
  <1> HIDE DEF q, r
  <1>3. n = q * (b * d) + (r * d + s)
    <2>1. m * d = (q * b) * d + r * d
      BY <1>2
    <2>2. (q * b) * d = q * (b * d)
      BY <1>2
    <2>3. r * d \in Nat /\ q * (b * d) \in Nat
      BY <1>2
    <2> QED BY <1>1, <2>1, <2>2, <2>3
  <1>4. r * d + s \in Nat /\ r * d + s < b * d
    <2>1. r + 1 <= b
      BY <1>2
    <2>2. (r + 1) * d <= b * d
      BY <1>2, <2>1
    <2>3. (r + 1) * d = r * d + d /\ r * d \in Nat /\ b * d \in Nat
      BY <1>2
    <2> QED BY <1>1, <2>2, <2>3
  <1>5. b * d \in Nat \ {0}
    OBVIOUS
  <1>6. n \div (b * d) = q
    <2> DEFINE e == b * d
               t == r * d + s
    <2>1. e \in Nat \ {0} /\ t \in Nat /\ t < e /\ n = q * e + t
      BY <1>3, <1>4, <1>5
    <2> HIDE DEF e, t
    <2>2. n \div e = q
      BY <1>2, <2>1, Quotient
    <2> QED BY <2>2 DEF e
  <1> QED BY <1>6 DEF q, m

\* The header of a length is that many bytes, and reads back as the length.
LEMMA HeaderType ==
    ASSUME Base \in Nat \ {0}, HeaderSize \in Nat, NEW n \in Nat
    PROVE  Header(n) \in Seq(Byte) /\ Len(Header(n)) = HeaderSize
  <1>1. ASSUME NEW i \in 1..HeaderSize PROVE (n \div Weight[HeaderSize - i]) % Base \in Byte
    <2>1. HeaderSize - i \in 0..HeaderSize
      OBVIOUS
    <2>2. Weight[HeaderSize - i] \in Nat \ {0}
      BY <2>1, WeightFacts
    <2>3. n \div Weight[HeaderSize - i] \in Nat
      BY <2>2
    <2>4. \A x \in Nat : x % Base \in Byte
      BY DEF Byte
    <2> QED BY <2>3, <2>4
  <1>2. Header(n) \in [1..HeaderSize -> Byte]
    BY <1>1 DEF Header
  <1> QED BY <1>2

LEMMA HeaderLength ==
    ASSUME Base \in Nat \ {0}, HeaderSize \in Nat, NEW n \in Nat, n < Weight[HeaderSize]
    PROVE  Length(Header(n)) = n
  <1> DEFINE h == Header(n)
             W(i) == Weight[HeaderSize - i]
  <1>1. /\ h \in Seq(Byte) /\ Len(h) = HeaderSize
        /\ \A i \in 1..HeaderSize : h[i] = (n \div W(i)) % Base
    BY HeaderType DEF Header
  <1>2. \A i \in 0..HeaderSize : W(i) \in Nat \ {0}
    <2>1. \A i \in 0..HeaderSize : HeaderSize - i \in 0..HeaderSize
      OBVIOUS
    <2> QED BY <2>1, WeightFacts
  <1>3. ASSUME NEW i \in 1..HeaderSize PROVE W(i - 1) = Base * W(i)
    <2>1. HeaderSize - (i - 1) \in 1..HeaderSize /\ (HeaderSize - (i - 1)) - 1 = HeaderSize - i
      OBVIOUS
    <2> QED BY <2>1, WeightFacts
  <1>4. W(HeaderSize) = 1 /\ n < W(0)
    <2>1. HeaderSize - HeaderSize = 0 /\ HeaderSize - 0 = HeaderSize
      OBVIOUS
    <2> QED BY <2>1, WeightFacts
  <1> HIDE DEF h, W
  <1>5. PICK v : /\ v[0] = 0
                 /\ \A i \in 1..HeaderSize : v[i] = v[i - 1] * Base + h[i]
                 /\ \A i \in 0..HeaderSize : v[i] \in Nat
                 /\ Length(h) = v[HeaderSize]
    BY <1>1, LengthFacts
  <1> DEFINE T == {i \in 0..HeaderSize : v[i] = n \div W(i)}
  <1>6. 0 \in T
    <2>1. W(0) \in Nat \ {0} /\ n = 0 * W(0) + n
      BY <1>2
    <2>2. n \div W(0) = 0
      BY <1>4, <2>1, Quotient
    <2> QED BY <1>5, <2>2
  <1>7. \A k \in 1..HeaderSize : k - 1 \in T => k \in T
    <2> SUFFICES ASSUME NEW k \in 1..HeaderSize, k - 1 \in T PROVE k \in T
      OBVIOUS
    <2> DEFINE x == n \div W(k)
    <2>1. W(k) \in Nat \ {0}
      BY <1>2
    <2>2. x \in Nat
      BY <2>1
    <2>3. v[k - 1] = n \div (Base * W(k))
      BY <1>3
    <2>4. v[k - 1] = x \div Base
      BY <2>1, <2>3, QuotientTwice
    <2>5. v[k] = v[k - 1] * Base + h[k] /\ h[k] = x % Base
      BY <1>1, <1>5
    <2> HIDE DEF x
    <2>6. PICK p, s \in Nat : p = x \div Base /\ s = x % Base /\ x = p * Base + s
      BY <2>2, Division
    <2>7. v[k] = v[k - 1] * Base + h[k] /\ v[k - 1] = p /\ h[k] = s
      BY <2>4, <2>5, <2>6
    <2>8. v[k] = p * Base + s
      BY <2>7
    <2>9. v[k] = x
      BY <2>6, <2>8
    <2> QED BY <2>9 DEF x
  <1>8. 0..HeaderSize \subseteq T
    <2> HIDE DEF T
    <2> QED BY <1>6, <1>7, IntervalInduction
  <1>9. v[HeaderSize] = n
    <2>1. HeaderSize \in 0..HeaderSize /\ n \div 1 = n
      OBVIOUS
    <2> QED BY <1>4, <1>8, <2>1
  <1> QED BY <1>5, <1>9 DEF h

-----------------------------------------------------------------------------
(* Frames: what the decoder finds at the start of a buffer *)

LEMMA LengthType ==
    ASSUME NEW b \in Seq(Byte), Base \in Nat \ {0}
    PROVE  Length(b) \in Nat
  <1>1. Len(b) \in 0..Len(b)
    OBVIOUS
  <1> QED BY <1>1, LengthFacts

LEMMA PayloadLengthType ==
    ASSUME NEW b \in Seq(Byte), Len(b) >= HeaderSize
    PROVE  PayloadLength(b) \in Nat /\ SubSeq(b, 1, HeaderSize) \in Seq(Byte)
  <1>1. HeaderSize \in Nat /\ Base \in Nat \ {0}
    BY SizeAssumption
  <1>2. SubSeq(b, 1, HeaderSize) \in Seq(Byte)
    <2>1. \A i \in 1..HeaderSize : i \in 1..Len(b)
      BY <1>1
    <2>2. \A i \in 1..HeaderSize : b[i] \in Byte
      BY <2>1
    <2> QED BY <1>1, <2>2, SubSeqProperties
  <1> QED BY <1>1, <1>2, LengthType DEF PayloadLength

\* The bytes that follow do not change what a buffer starts with.
LEMMA StartStays ==
    ASSUME NEW S, NEW b \in Seq(S), NEW x \in Seq(S), NEW n \in 0..Len(b)
    PROVE  /\ Len(b \o x) = Len(b) + Len(x)
           /\ \A m \in 1..(n + 1) : SubSeq(b \o x, m, n) = SubSeq(b, m, n)
           /\ SubSeq(b \o x, n + 1, Len(b \o x)) = SubSeq(b, n + 1, Len(b)) \o x
  <1>1. Len(b) \in Nat /\ Len(x) \in Nat /\ n \in Nat
    OBVIOUS
  <1>2. b \o x \in Seq(S) /\ Len(b \o x) = Len(b) + Len(x)
    BY ConcatProperties
  <1>3. ASSUME NEW m \in 1..(n + 1) PROVE SubSeq(b \o x, m, n) = SubSeq(b, m, n)
    <2>1. CASE m <= n
      <3>1. m \in 1..Len(b) /\ n \in 1..Len(b)
        BY <1>1, <2>1
      <3> QED BY <3>1, SubSeqOfConcat1
    <2>2. CASE m > n
      <3>1. SubSeq(b, m, n) = <<>> /\ SubSeq(b \o x, m, n) = <<>>
        BY <1>1, <1>2, <2>2
      <3> QED BY <3>1
    <2> QED BY <1>1, <2>1, <2>2
  <1> DEFINE h == SubSeq(b, 1, n)
             t == SubSeq(b, n + 1, Len(b))
             w == t \o x
  <1>4. h \in Seq(S) /\ t \in Seq(S) /\ Len(h) = n /\ b = h \o t
    <2>1. h \in Seq(S) /\ t \in Seq(S) /\ Len(h) = n
      BY <1>1
    <2>2. /\ 1 \in 1..(Len(b) + 1) /\ n \in (1 - 1)..Len(b) /\ Len(b) \in n..Len(b)
          /\ SubSeq(b, 1, Len(b)) = b
      BY <1>1
    <2>3. h \o t = SubSeq(b, 1, Len(b))
      BY <2>2, ConcatAdjacentSubSeq
    <2> QED BY <2>1, <2>2, <2>3
  <1> HIDE DEF h, t
  <1>5. w \in Seq(S) /\ b \o x = h \o w
    BY <1>4, ConcatProperties, ConcatAssociative
  <1> HIDE DEF w
  <1>6. SubSeq(h \o w, n + 1, n + Len(w)) = w
    <2>1. CASE w = <<>>
      BY <1>1, <1>4, <1>5, <2>1
    <2>2. CASE w # <<>>
      <3>1. Len(w) \in Nat \ {0} /\ SubSeq(w, 1, Len(w)) = w
        BY <1>5, <2>2
      <3>2. n + 1 \in (n + 1)..(n + Len(w)) /\ n + Len(w) \in (n + 1)..(n + Len(w))
            /\ (n + 1) - n = 1 /\ (n + Len(w)) - n = Len(w)
        BY <1>1, <3>1
      <3>3. SubSeq(h \o w, n + 1, n + Len(w)) = SubSeq(w, (n + 1) - n, (n + Len(w)) - n)
        BY <1>4, <1>5, <3>2, SubSeqOfConcat2
      <3> QED BY <3>1, <3>2, <3>3
    <2> QED BY <2>1, <2>2
  <1>7. Len(b \o x) = n + Len(w)
    BY <1>4, <1>5, ConcatProperties
  <1> QED BY <1>2, <1>3, <1>5, <1>6, <1>7 DEF t, w

LEMMA HeaderStays ==
    ASSUME NEW b \in Seq(Byte), NEW x \in Seq(Byte), Len(b) >= HeaderSize
    PROVE  /\ Len(b \o x) >= HeaderSize
           /\ PayloadLength(b \o x) = PayloadLength(b)
  <1>1. HeaderSize \in 0..Len(b) /\ 1 \in 1..(HeaderSize + 1) /\ Len(b) \in Nat /\ Len(x) \in Nat
    BY SizeAssumption
  <1>2. Len(b \o x) = Len(b) + Len(x) /\ SubSeq(b \o x, 1, HeaderSize) = SubSeq(b, 1, HeaderSize)
    BY <1>1, StartStays
  <1>3. Len(b \o x) >= HeaderSize
    BY <1>1, <1>2
  <1> QED BY <1>2, <1>3 DEF PayloadLength

\* A complete frame at the start is the same frame, whatever follows.
LEMMA FrameStays ==
    ASSUME NEW b \in Seq(Byte), NEW x \in Seq(Byte), Complete(b)
    PROVE  /\ Complete(b \o x)
           /\ Payload(b \o x) = Payload(b)
           /\ Rest(b \o x) = Rest(b) \o x
           /\ Malformed(b \o x) <=> Malformed(b)
  <1> DEFINE n == PayloadLength(b)
             k == HeaderSize + n
  <1>1. Len(b) >= HeaderSize /\ Len(b) >= k
    BY DEF Complete
  <1>2. PayloadLength(b \o x) = n /\ Len(b \o x) >= HeaderSize /\ n \in Nat
    BY <1>1, HeaderStays, PayloadLengthType
  <1>3. HeaderSize \in Nat /\ Len(b) \in Nat /\ Len(x) \in Nat
    BY SizeAssumption
  <1> HIDE DEF n
  <1>4. k \in 0..Len(b) /\ HeaderSize + 1 \in 1..(k + 1) /\ k + 1 = HeaderSize + n + 1
    BY <1>1, <1>2, <1>3
  <1> HIDE DEF k
  <1>5. /\ Len(b \o x) = Len(b) + Len(x)
        /\ SubSeq(b \o x, HeaderSize + 1, k) = SubSeq(b, HeaderSize + 1, k)
        /\ SubSeq(b \o x, k + 1, Len(b \o x)) = SubSeq(b, k + 1, Len(b)) \o x
    BY <1>4, StartStays
  <1>6. Payload(b \o x) = Payload(b)
    BY <1>2, <1>5 DEF Payload, k, n
  <1>7. Rest(b \o x) = Rest(b) \o x
    BY <1>2, <1>4, <1>5 DEF Rest, n
  <1>8. Complete(b \o x)
    <2>1. Len(b \o x) >= k
      BY <1>3, <1>4, <1>5
    <2> QED BY <1>2, <2>1 DEF Complete, k
  <1>9. Malformed(b \o x) <=> Malformed(b)
    BY <1>1, <1>2, <1>6, <1>8 DEF Malformed, Oversized, n
  <1> QED BY <1>6, <1>7, <1>8, <1>9

\* A malformed frame is so whatever follows.
LEMMA MalformedStays ==
    ASSUME NEW b \in Seq(Byte), NEW x \in Seq(Byte), Malformed(b)
    PROVE  Malformed(b \o x)
  <1>1. CASE Oversized(b)
    <2>1. Len(b) >= HeaderSize /\ PayloadLength(b) > MaxFrameSize
      BY <1>1 DEF Oversized
    <2> QED BY <2>1, HeaderStays DEF Malformed, Oversized
  <1>2. CASE Complete(b)
    BY <1>2, FrameStays
  <1> QED BY <1>1, <1>2 DEF Malformed

\* What was encoded is a complete frame, with the payload and nothing after it.
LEMMA EncodedFrame ==
    ASSUME NEW m \in Sendable, ~TooLarge(m)
    PROVE  LET f == Encode(m)
           IN  /\ f \in Seq(Byte) /\ Complete(f) /\ ~Malformed(f)
               /\ Payload(f) = PayloadOf(m) /\ Rest(f) = <<>>
               /\ Deserialized(PayloadOf(m)) = m
  <1> DEFINE p == PayloadOf(m)
             n == Len(p)
             h == Header(n)
             f == Encode(m)
  <1>1. /\ p \in Seq(Byte) /\ n \in Nat /\ n <= MaxFrameSize /\ n < Weight[HeaderSize]
        /\ HeaderSize \in Nat /\ Base \in Nat \ {0} /\ MaxFrameSize \in Nat
    <2>1. p \in Seq(Byte)
      BY PayloadAssumption DEF Byte
    <2>2. HeaderSize \in Nat /\ Base \in Nat \ {0} /\ MaxFrameSize \in Nat
          /\ MaxFrameSize < Weight[HeaderSize]
      BY SizeAssumption
    <2>3. n \in Nat
      BY <2>1
    <2>4. n <= MaxFrameSize
      BY <2>2, <2>3 DEF TooLarge
    <2>5. Weight[HeaderSize] \in Nat
      <3>1. HeaderSize \in 0..HeaderSize
        BY <2>2
      <3> QED BY <2>2, <3>1, WeightFacts
    <2> HIDE DEF n, p
    <2> QED BY <2>1, <2>2, <2>3, <2>4, <2>5
  <1>2. h \in Seq(Byte) /\ Len(h) = HeaderSize /\ Length(h) = n
    <2> HIDE DEF n
    <2> QED BY <1>1, HeaderType, HeaderLength
  <1>3. f = h \o p
    BY DEF Encode
  <1> HIDE DEF h, p, f
  <1>4. f \in Seq(Byte) /\ Len(f) = HeaderSize + n
    BY <1>1, <1>2, <1>3, ConcatProperties
  <1>5. SubSeq(f, 1, HeaderSize) = h
    <2>1. HeaderSize \in 0..Len(h) /\ 1 \in 1..(HeaderSize + 1)
      BY <1>1, <1>2
    <2>2. SubSeq(h \o p, 1, HeaderSize) = SubSeq(h, 1, HeaderSize)
      BY <1>1, <1>2, <2>1, StartStays
    <2>3. SubSeq(h, 1, HeaderSize) = h
      BY <1>2
    <2> QED BY <1>3, <2>2, <2>3
  <1>6. PayloadLength(f) = n
    BY <1>2, <1>5 DEF PayloadLength
  <1>7. Complete(f)
    BY <1>1, <1>4, <1>6 DEF Complete
  <1>8. Payload(f) = p
    <2>1. HeaderSize \in 0..Len(h)
      BY <1>1, <1>2
    <2>2. SubSeq(h \o p, HeaderSize + 1, Len(h \o p)) = SubSeq(h, HeaderSize + 1, Len(h)) \o p
      BY <1>1, <1>2, <2>1, StartStays
    <2>3. SubSeq(h, HeaderSize + 1, Len(h)) = <<>>
      BY <1>1, <1>2
    <2>4. <<>> \o p = p
      BY <1>1
    <2> QED BY <1>3, <1>4, <1>6, <2>2, <2>3, <2>4 DEF Payload
  <1>9. Rest(f) = <<>>
    <2> DEFINE k == HeaderSize + n
    <2>1. k \in Nat /\ Len(f) = k
      BY <1>1, <1>4
    <2> HIDE DEF k
    <2>2. SubSeq(f, k + 1, k) = <<>>
      BY <1>4, <2>1
    <2> QED BY <1>6, <2>1, <2>2 DEF Rest, k
  <1>10. Deserialized(p) = m
    <2>1. \E l \in Sendable : PayloadOf(l) = p
      BY DEF p
    <2>2. Deserialized(p) = CHOOSE l \in Sendable : PayloadOf(l) = p
      BY <2>1 DEF Deserialized
    <2>3. \A l \in Sendable : PayloadOf(l) = p => l = m
      BY PayloadAssumption DEF p
    <2> QED BY <2>1, <2>2, <2>3
  <1>11. ~Malformed(f)
    <2>1. NoMessage \notin Sendable
      BY PeerAssumption
    <2> QED BY <1>1, <1>6, <1>8, <1>10, <2>1 DEF Malformed, Oversized
  <1> QED BY <1>4, <1>7, <1>8, <1>9, <1>10, <1>11 DEF f, p

-----------------------------------------------------------------------------
(* Frames: the bytes between the two ends *)

\* What can be put on the stream.
Item == {m \in Sendable : ~TooLarge(m)} \cup Foreign

Frame(x) == IF x \in Foreign THEN BytesOf(x) ELSE Encode(x)

\* The bytes are the frames of q: `rest` has what follows each of them.
Framed(bytes, q) ==
    \E rest \in [0..Len(q) -> Seq(Byte)] :
        /\ rest[0] = bytes /\ rest[Len(q)] = <<>>
        /\ \A i \in 1..Len(q) : rest[i - 1] = Frame(q[i]) \o rest[i]

\* What was sent is what was delivered and what is still in the bytes.
FrameInv ==
    /\ FrameTypeOK
    /\ \E q \in Seq(Item) : sent = delivered \o q /\ Framed(buf \o stream, q)

LEMMA BytesAssociate == \A s, u, v \in Seq(Byte) : (s \o u) \o v = s \o (u \o v)
  BY ConcatAssociative

LEMMA FrameBytes ==
    ASSUME NEW x \in Item
    PROVE  Frame(x) \in Seq(Byte)
  <1>1. CASE x \in Foreign
    BY <1>1, PayloadAssumption DEF Frame, Byte
  <1>2. CASE x \notin Foreign
    <2>1. x \in Sendable /\ ~TooLarge(x)
      BY <1>2 DEF Item
    <2> QED BY <1>2, <2>1, EncodedFrame DEF Frame
  <1> QED BY <1>1, <1>2

LEMMA FramedNone ==
    /\ Framed(<<>>, <<>>)
    /\ \A bytes : Framed(bytes, <<>>) => bytes = <<>>
  <1>1. Framed(<<>>, <<>>)
    <2> DEFINE rest == [i \in 0..0 |-> <<>>]
    <2>1. <<>> \in Seq(Byte) /\ Len(<<>>) = 0
      OBVIOUS
    <2>2. rest \in [0..0 -> Seq(Byte)] /\ rest[0] = <<>>
      BY <2>1
    <2> HIDE DEF rest
    <2> QED BY <2>1, <2>2 DEF Framed
  <1>2. Len(<<>>) = 0
    OBVIOUS
  <1> QED BY <1>1, <1>2 DEF Framed

LEMMA FramedMore ==
    ASSUME NEW bytes, NEW q \in Seq(Item), NEW x \in Item,
           Framed(bytes, q)
    PROVE  Framed(bytes \o Frame(x), Append(q, x))
  <1> DEFINE n == Len(q)
             r == Append(q, x)
             f == Frame(x)
  <1>1. PICK rest \in [0..n -> Seq(Byte)] :
            /\ rest[0] = bytes /\ rest[n] = <<>>
            /\ \A i \in 1..n : rest[i - 1] = Frame(q[i]) \o rest[i]
    BY DEF Framed
  <1> DEFINE more == [i \in 0..(n + 1) |-> IF i = n + 1 THEN <<>> ELSE rest[i] \o f]
  <1>2. n \in Nat /\ Len(r) = n + 1 /\ r[n + 1] = x /\ \A i \in 1..n : r[i] = q[i] /\ q[i] \in Item
    OBVIOUS
  <1>3. f \in Seq(Byte)
    BY FrameBytes
  <1>4. <<>> \in Seq(Byte) /\ \A s \in Seq(Byte) : <<>> \o s = s /\ s \o <<>> = s
    OBVIOUS
  <1> HIDE DEF n, r, f
  <1>5. more \in [0..(n + 1) -> Seq(Byte)]
    <2>1. ASSUME NEW i \in 0..(n + 1), i # n + 1 PROVE rest[i] \o f \in Seq(Byte)
      <3>1. i \in 0..n
        BY <1>2, <2>1
      <3> QED BY <1>3, <3>1, ConcatProperties
    <2> QED BY <1>4, <2>1
  <1>6. more[0] = bytes \o f /\ more[n + 1] = <<>>
    <2>1. 0 \in 0..(n + 1) /\ n + 1 \in 0..(n + 1) /\ 0 # n + 1
      BY <1>2
    <2> QED BY <1>1, <2>1
  <1>7. ASSUME NEW i \in 1..(n + 1) PROVE more[i - 1] = Frame(r[i]) \o more[i]
    <2>1. i - 1 \in 0..n /\ i - 1 \in 0..(n + 1) /\ i - 1 # n + 1
      BY <1>2
    <2>2. more[i - 1] = rest[i - 1] \o f
      BY <2>1
    <2>3. CASE i = n + 1
      <3>1. i - 1 = n /\ more[i] = <<>>
        BY <1>2, <2>3
      <3>2. rest[i - 1] \o f = f /\ f \o <<>> = f
        BY <1>1, <1>3, <1>4, <3>1
      <3> HIDE DEF more
      <3> QED BY <1>2, <2>2, <2>3, <3>1, <3>2 DEF f
    <2>4. CASE i # n + 1
      <3>1. i \in 1..n /\ more[i] = rest[i] \o f /\ rest[i] \in Seq(Byte)
        BY <1>2, <2>4, SMTT(30)
      <3>2. rest[i - 1] = Frame(q[i]) \o rest[i]
        BY <1>1, <3>1
      <3>3. Frame(q[i]) \in Seq(Byte)
        <4>1. q[i] \in Item
          BY <1>2, <3>1
        <4> QED BY <4>1, FrameBytes
      <3>4. (Frame(q[i]) \o rest[i]) \o f = Frame(q[i]) \o (rest[i] \o f)
        BY <1>3, <3>1, <3>3, BytesAssociate
      <3> HIDE DEF more
      <3> QED BY <1>2, <2>2, <3>1, <3>2, <3>4
    <2> QED BY <2>3, <2>4
  <1> HIDE DEF more
  <1>8. Framed(bytes \o f, r)
    BY <1>2, <1>5, <1>6, <1>7 DEF Framed
  <1> QED BY <1>8 DEF r, f

LEMMA FramedFirst ==
    ASSUME NEW bytes, NEW q \in Seq(Item), q # <<>>, Framed(bytes, q)
    PROVE  \E r \in Seq(Byte) : bytes = Frame(Head(q)) \o r /\ Framed(r, Tail(q))
  <1> DEFINE n == Len(q)
             t == Tail(q)
  <1>1. PICK rest \in [0..n -> Seq(Byte)] :
            /\ rest[0] = bytes /\ rest[n] = <<>>
            /\ \A i \in 1..n : rest[i - 1] = Frame(q[i]) \o rest[i]
    BY DEF Framed
  <1> DEFINE less == [i \in 0..(n - 1) |-> rest[i + 1]]
  <1>2. n \in Nat /\ n >= 1 /\ Len(t) = n - 1 /\ Head(q) = q[1]
        /\ \A i \in 1..(n - 1) : t[i] = q[i + 1]
    OBVIOUS
  <1> HIDE DEF n, t
  <1>3. bytes = Frame(Head(q)) \o rest[1] /\ rest[1] \in Seq(Byte)
    <2>1. 1 \in 1..n /\ 1 \in 0..n /\ 1 - 1 = 0
      BY <1>2
    <2>2. rest[1 - 1] = Frame(q[1]) \o rest[1]
      BY <1>1, <2>1
    <2> QED BY <1>1, <1>2, <2>1, <2>2
  <1>4. less \in [0..(n - 1) -> Seq(Byte)]
    <2>1. \A i \in 0..(n - 1) : i + 1 \in 0..n
      BY <1>2
    <2> QED BY <2>1
  <1>5. less[0] = rest[1] /\ less[n - 1] = <<>>
    <2>1. 0 \in 0..(n - 1) /\ 0 + 1 = 1 /\ n - 1 \in 0..(n - 1) /\ (n - 1) + 1 = n
      BY <1>2
    <2> QED BY <1>1, <2>1
  <1>6. ASSUME NEW i \in 1..(n - 1) PROVE less[i - 1] = Frame(t[i]) \o less[i]
    <2>1. i - 1 \in 0..(n - 1) /\ i \in 0..(n - 1) /\ i + 1 \in 1..n
          /\ (i - 1) + 1 = i /\ (i + 1) - 1 = i
      BY <1>2
    <2>2. less[i - 1] = rest[i] /\ less[i] = rest[i + 1]
      BY <2>1
    <2>3. rest[(i + 1) - 1] = Frame(q[i + 1]) \o rest[i + 1]
      BY <1>1, <2>1
    <2> HIDE DEF less
    <2> QED BY <1>2, <2>1, <2>2, <2>3
  <1> HIDE DEF less
  <1>7. Framed(rest[1], t)
    BY <1>2, <1>4, <1>5, <1>6 DEF Framed
  <1> QED BY <1>3, <1>7 DEF t

\* A frame that the decoder takes from its buffer is that of the next message.
LEMMA NextDecoded ==
    ASSUME NEW b \in Seq(Byte), NEW x \in Seq(Byte), NEW q \in Seq(Item),
           Framed(b \o x, q), Complete(b), ~Malformed(b)
    PROVE  /\ q # <<>> /\ Head(q) \in Sendable /\ Head(q) \notin Foreign
           /\ Deserialized(Payload(b)) = Head(q)
           /\ Rest(b) \in Seq(Byte)
           /\ Framed(Rest(b) \o x, Tail(q))
  <1>1. HeaderSize \in Nat \ {0} /\ Len(b) >= HeaderSize /\ Len(b) \in Nat
        /\ PayloadLength(b) \in Nat
    <2>1. HeaderSize \in Nat \ {0} /\ Len(b) >= HeaderSize
      BY SizeAssumption DEF Complete
    <2> QED BY <2>1, PayloadLengthType
  <1>2. q # <<>>
    <2> SUFFICES ASSUME q = <<>> PROVE FALSE
      OBVIOUS
    <2>1. b \o x = <<>>
      BY FramedNone
    <2>2. b = <<>>
      BY <2>1, ConcatEqualIffEmpty
    <2> QED BY <1>1, <2>2
  <1> DEFINE m == Head(q)
             f == Frame(m)
  <1>3. m \in Item
    BY <1>2
  <1>4. PICK r \in Seq(Byte) : b \o x = f \o r /\ Framed(r, Tail(q))
    BY <1>2, FramedFirst
  <1>5. f \in Seq(Byte)
    BY <1>3, FrameBytes
  <1> HIDE DEF m, f
  <1>6. /\ Payload(b \o x) = Payload(b)
        /\ Rest(b \o x) = Rest(b) \o x
        /\ ~Malformed(b \o x)
    BY FrameStays
  <1>7. m \notin Foreign
    <2> SUFFICES ASSUME m \in Foreign PROVE FALSE
      OBVIOUS
    <2>1. Malformed(f)
      BY PayloadAssumption DEF f, Frame
    <2> QED BY <1>4, <1>5, <1>6, <2>1, MalformedStays
  <1>8. m \in Sendable /\ ~TooLarge(m) /\ f = Encode(m)
    BY <1>3, <1>7 DEF Item, f, Frame
  <1>9. /\ Complete(f) /\ Payload(f) = PayloadOf(m) /\ Rest(f) = <<>>
        /\ Deserialized(PayloadOf(m)) = m
    BY <1>8, EncodedFrame
  <1>10. Payload(f \o r) = PayloadOf(m) /\ Rest(f \o r) = r
    <2>1. Payload(f \o r) = Payload(f) /\ Rest(f \o r) = Rest(f) \o r
      BY <1>5, <1>9, FrameStays
    <2>2. <<>> \o r = r
      OBVIOUS
    <2> QED BY <1>9, <2>1, <2>2
  <1>11. Rest(b) \in Seq(Byte)
    <2> DEFINE k == HeaderSize + PayloadLength(b) + 1
    <2>1. k \in Nat \ {0}
      BY <1>1
    <2> HIDE DEF k
    <2>2. \A i \in k..Len(b) : b[i] \in Byte
      <3>1. \A i \in k..Len(b) : i \in 1..Len(b)
        BY <1>1, <2>1
      <3> QED BY <3>1
    <2>3. SubSeq(b, k, Len(b)) \in Seq(Byte)
      BY <1>1, <2>1, <2>2, SubSeqProperties
    <2> QED BY <2>3 DEF Rest, k
  <1>12. Payload(b) = PayloadOf(m) /\ Rest(b) \o x = r
    BY <1>4, <1>6, <1>10
  <1>13. Deserialized(Payload(b)) = m
    BY <1>9, <1>12
  <1> QED BY <1>2, <1>4, <1>7, <1>8, <1>11, <1>12, <1>13 DEF m

-----------------------------------------------------------------------------
(* Frames: the inductive invariant *)

LEMMA FrameBegins ==
    ASSUME FrameInit PROVE FrameInv
  <1>1. <<>> \in Seq(Item) /\ <<>> \in Seq(Byte) /\ <<>> \in Seq(Sendable)
        /\ <<>> \in Seq(Sendable \cup Foreign) /\ <<>> \o <<>> = <<>>
    OBVIOUS
  <1>2. FrameTypeOK
    BY <1>1, SizeAssumption DEF FrameInit, FrameTypeOK, Byte
  <1>3. sent = delivered \o <<>> /\ Framed(buf \o stream, <<>>)
    BY <1>1, FramedNone DEF FrameInit
  <1> QED BY <1>1, <1>2, <1>3 DEF FrameInv

LEMMA Widened ==
    ASSUME NEW p \in Seq(Sendable), NEW q \in Seq(Item)
    PROVE  p \in Seq(Sendable \cup Foreign) /\ q \in Seq(Sendable \cup Foreign)
  <1>1. \A i \in 1..Len(q) : q[i] \in Sendable \cup Foreign
    <2>1. \A i \in 1..Len(q) : q[i] \in Item
      OBVIOUS
    <2> QED BY <2>1 DEF Item
  <1>2. \A i \in 1..Len(p) : p[i] \in Sendable \cup Foreign
    OBVIOUS
  <1> QED BY <1>1, <1>2

LEMMA AppendLast ==
    \A p, q \in Seq(Sendable \cup Foreign), e \in Sendable \cup Foreign :
        Append(p \o q, e) = p \o Append(q, e)
  <1> DEFINE S == Sendable \cup Foreign
  <1>1. ASSUME NEW p \in Seq(S), NEW q \in Seq(S), NEW e \in S
        PROVE  Append(p \o q, e) = p \o Append(q, e)
    <2> HIDE DEF S
    <2>1. <<e>> \in Seq(S) /\ p \o q \in Seq(S)
      OBVIOUS
    <2>2. Append(p \o q, e) = (p \o q) \o <<e>> /\ Append(q, e) = q \o <<e>>
      BY <2>1, AppendIsConcat
    <2> QED BY <2>1, <2>2, ConcatAssociative
  <1> QED BY <1>1

\* An item is put on the stream.
LEMMA PutKeeps ==
    ASSUME FrameInv, NEW x \in Item,
           sent' = Append(sent, x), stream' = stream \o Frame(x),
           UNCHANGED <<receiver, sender, buf, readLoop, delivered, errors>>
    PROVE  FrameInv'
  <1>1. PICK q \in Seq(Item) : sent = delivered \o q /\ Framed(buf \o stream, q)
    BY DEF FrameInv
  <1>2. /\ delivered \in Seq(Sendable) /\ sent \in Seq(Sendable \cup Foreign)
        /\ buf \in Seq(Byte) /\ stream \in Seq(Byte)
    BY DEF FrameInv, FrameTypeOK, Byte
  <1>3. Frame(x) \in Seq(Byte) /\ x \in Sendable \cup Foreign
    BY FrameBytes DEF Item
  <1>4. Append(q, x) \in Seq(Item)
    OBVIOUS
  <1>5. sent' = delivered' \o Append(q, x)
    <2>1. delivered \in Seq(Sendable \cup Foreign) /\ q \in Seq(Sendable \cup Foreign)
      BY <1>2, Widened
    <2>2. Append(delivered \o q, x) = delivered \o Append(q, x)
      BY <1>3, <2>1, AppendLast
    <2> QED BY <1>1, <2>2
  <1>6. Framed(buf' \o stream', Append(q, x))
    <2>1. buf \o (stream \o Frame(x)) = (buf \o stream) \o Frame(x)
      BY <1>2, <1>3, BytesAssociate
    <2>2. Framed((buf \o stream) \o Frame(x), Append(q, x))
      BY <1>1, FramedMore
    <2> QED BY <2>1, <2>2
  <1>7. FrameTypeOK'
    <2>1. sent' \in Seq(Sendable \cup Foreign)
      BY <1>2, <1>3
    <2>2. stream' \in Seq(Byte)
      BY <1>2, <1>3, ConcatProperties DEF Byte
    <2> QED BY <2>1, <2>2 DEF FrameInv, FrameTypeOK, Byte
  <1> QED BY <1>4, <1>5, <1>6, <1>7 DEF FrameInv

\* The decoder takes a message.
LEMMA DecodeKeeps ==
    ASSUME FrameInv, DecodeMessage
    PROVE  /\ FrameInv'
           /\ \E q \in Seq(Item) : /\ q # <<>> /\ sent = delivered \o q
                                   /\ Head(q) \notin Foreign /\ delivered' = Append(delivered, Head(q))
  <1>1. PICK q \in Seq(Item) : sent = delivered \o q /\ Framed(buf \o stream, q)
    BY DEF FrameInv
  <1>2. /\ delivered \in Seq(Sendable) /\ buf \in Seq(Byte) /\ stream \in Seq(Byte)
    BY DEF FrameInv, FrameTypeOK, Byte
  <1>3. /\ q # <<>> /\ Head(q) \in Sendable /\ Head(q) \notin Foreign
        /\ Deserialized(Payload(buf)) = Head(q)
        /\ Rest(buf) \in Seq(Byte)
        /\ Framed(Rest(buf) \o stream, Tail(q))
    <2>1. Complete(buf) /\ ~Malformed(buf)
      BY DEF DecodeMessage
    <2> QED BY <1>1, <1>2, <2>1, NextDecoded
  <1>4. /\ delivered' = Append(delivered, Head(q)) /\ buf' = Rest(buf)
        /\ UNCHANGED <<receiver, sender, sent, stream, readLoop, errors>>
    BY <1>3 DEF DecodeMessage
  <1>5. Tail(q) \in Seq(Item)
    BY <1>3
  <1>6. sent' = delivered' \o Tail(q)
    <2>1. delivered \in Seq(Sendable \cup Foreign) /\ q \in Seq(Sendable \cup Foreign)
      BY <1>2, Widened
    <2> QED BY <1>1, <1>3, <1>4, <2>1, HeadToEnd
  <1>7. Framed(buf' \o stream', Tail(q))
    BY <1>3, <1>4
  <1>8. FrameTypeOK'
    <2>1. delivered' \in Seq(Sendable)
      BY <1>2, <1>3, <1>4
    <2>2. buf' \in Seq(Byte)
      BY <1>3, <1>4 DEF Byte
    <2> QED BY <1>4, <2>1, <2>2 DEF FrameInv, FrameTypeOK, Byte
  <1>9. FrameInv'
    BY <1>5, <1>6, <1>7, <1>8 DEF FrameInv
  <1> QED BY <1>1, <1>3, <1>4, <1>9

\* A read moves bytes from the stream to the buffer.
LEMMA ReadKeeps ==
    ASSUME FrameInv, NEW n \in 1..Len(stream), Read(n) PROVE FrameInv'
  <1>1. PICK q \in Seq(Item) : sent = delivered \o q /\ Framed(buf \o stream, q)
    BY DEF FrameInv
  <1> DEFINE a == SubSeq(stream, 1, n)
             z == SubSeq(stream, n + 1, Len(stream))
  <1>2. /\ buf' = buf \o a /\ stream' = z /\ readLoop' = "decoding"
        /\ UNCHANGED <<receiver, sender, sent, delivered, errors>>
    BY DEF Read
  <1>3. buf \in Seq(Byte) /\ stream \in Seq(Byte)
    BY DEF FrameInv, FrameTypeOK, Byte
  <1>4. a \in Seq(Byte) /\ z \in Seq(Byte) /\ a \o z = stream
    <2>1. /\ 1 \in 1..(Len(stream) + 1) /\ n \in (1 - 1)..Len(stream) /\ Len(stream) \in n..Len(stream)
          /\ SubSeq(stream, 1, Len(stream)) = stream
      BY <1>3
    <2>2. a \o z = SubSeq(stream, 1, Len(stream))
      BY <1>3, <2>1, ConcatAdjacentSubSeq
    <2>3. a \in Seq(Byte) /\ z \in Seq(Byte)
      BY <1>3
    <2> QED BY <2>1, <2>2, <2>3
  <1> HIDE DEF a, z
  <1>5. buf' \o stream' = buf \o stream
    BY <1>2, <1>3, <1>4, BytesAssociate
  <1>6. FrameTypeOK'
    <2>1. buf' \in Seq(Byte) /\ stream' \in Seq(Byte)
      BY <1>2, <1>3, <1>4, ConcatProperties DEF Byte
    <2> QED BY <1>2, <2>1 DEF FrameInv, FrameTypeOK, Byte
  <1>7. sent' = delivered' \o q /\ Framed(buf' \o stream', q)
    BY <1>1, <1>2, <1>5
  <1> QED BY <1>6, <1>7 DEF FrameInv

\* Every other step leaves the bytes and the messages alone.
LEMMA OthersKeep ==
    ASSUME FrameInv, UNCHANGED <<receiver, sent, stream, buf, delivered>>,
           sender' \in {"up", "gone"}, readLoop' \in {"reading", "decoding", "eof", "failed"},
           errors' \in 0..MaxErrors
    PROVE  FrameInv'
  BY DEF FrameInv, FrameTypeOK, Byte

Putting(x) ==
    /\ sent' = Append(sent, x) /\ stream' = stream \o Frame(x)
    /\ Len(sent) < MaxSent
    /\ UNCHANGED <<receiver, sender, buf, readLoop, delivered, errors>>

Idling ==
    /\ UNCHANGED <<receiver, sent, stream, buf, delivered>>
    /\ sender' \in {"up", "gone"} /\ readLoop' \in {"reading", "decoding", "eof", "failed"}
    /\ errors' \in 0..MaxErrors

\* What a step can be.
LEMMA StepCases ==
    ASSUME FrameInv, [FrameNext]_frameVars
    PROVE  \/ \E x \in Item : Putting(x)
           \/ DecodeMessage
           \/ \E n \in 1..Len(stream) : Read(n)
           \/ Idling
  <1>1. /\ sender \in {"up", "gone"} /\ readLoop \in {"reading", "decoding", "eof", "failed"}
        /\ errors \in 0..MaxErrors /\ MaxErrors \in Nat
    BY SizeAssumption DEF FrameInv, FrameTypeOK
  <1>2. ASSUME NEW m \in Sendable, Write(m) PROVE m \in Item /\ Putting(m)
    <2>1. m \in Item /\ m \notin Foreign
      BY <1>2, PeerAssumption DEF Item, Write
    <2> QED BY <1>2, <2>1 DEF Putting, Frame, Write
  <1>3. ASSUME NEW m \in Sendable, WriteTooLarge(m) PROVE Idling
    BY <1>1, <1>3 DEF Idling, WriteTooLarge
  <1>4. ASSUME NEW f \in Foreign, WriteForeign(f) PROVE f \in Item /\ Putting(f)
    BY <1>4 DEF Item, Putting, Frame, WriteForeign
  <1>5. CASE Leave
    BY <1>1, <1>5 DEF Idling, Leave
  <1>6. CASE DecodeNone
    BY <1>1, <1>6 DEF Idling, DecodeNone
  <1>7. CASE DecodeFails
    <2>1. errors' \in 0..MaxErrors /\ readLoop' \in {"reading", "decoding", "eof", "failed"}
      BY <1>1, <1>7 DEF DecodeFails
    <2> QED BY <1>1, <1>7, <2>1 DEF Idling, DecodeFails
  <1>8. CASE ReadEof
    BY <1>1, <1>8 DEF Idling, ReadEof
  <1>9. CASE UNCHANGED frameVars
    BY <1>1, <1>9 DEF Idling, frameVars
  <1> QED BY <1>2, <1>3, <1>4, <1>5, <1>6, <1>7, <1>8, <1>9
          DEF FrameNext, Loop, Decoder

LEMMA FrameStep ==
    ASSUME FrameInv, [FrameNext]_frameVars PROVE FrameInv'
  BY StepCases, PutKeeps, DecodeKeeps, ReadKeeps, OthersKeep DEF Putting, Idling

-----------------------------------------------------------------------------
(* Frames: a FIFO channel *)

Wire == Sendable \cup Foreign

\* The first k items of q can be decoded, and the next one, if any, cannot.
WellUpTo(q, k) ==
    /\ k \in 0..Len(q)
    /\ \A i \in 1..k : q[i] \notin Foreign
    /\ k < Len(q) => q[k + 1] \in Foreign

LEMMA WellExists ==
    ASSUME NEW q \in Seq(Wire) PROVE \E k : WellUpTo(q, k)
  <1> DEFINE bad == {i \in 1..Len(q) : q[i] \in Foreign}
  <1>1. Len(q) \in Nat
    OBVIOUS
  <1>2. CASE bad = {}
    BY <1>1, <1>2 DEF WellUpTo
  <1>3. CASE bad # {}
    <2>1. bad \subseteq Nat
      OBVIOUS
    <2>2. PICK i \in bad : \A j \in bad : i <= j
      <3> HIDE DEF bad
      <3> QED BY <1>3, <2>1, LeastNatural
    <2>3. i \in 1..Len(q) /\ q[i] \in Foreign /\ i - 1 \in 0..Len(q) /\ (i - 1) + 1 = i
      BY <1>1
    <2>4. \A j \in 1..(i - 1) : q[j] \notin Foreign
      <3> SUFFICES ASSUME NEW j \in 1..(i - 1), q[j] \in Foreign PROVE FALSE
        OBVIOUS
      <3>1. j \in bad /\ ~(i <= j)
        BY <1>1, <2>3
      <3> QED BY <2>2, <3>1
    <2> HIDE DEF bad
    <2>5. WellUpTo(q, i - 1)
      BY <2>3, <2>4 DEF WellUpTo
    <2> QED BY <2>5
  <1> QED BY <1>2, <1>3

\* SentWell, of any sequence.
Well(q) ==
    LET bad == {i \in DOMAIN q : IsForeign(q[i])}
    IN  IF bad = {} THEN q ELSE SubSeq(q, 1, (CHOOSE i \in bad : \A j \in bad : i <= j) - 1)

LEMMA WellIs ==
    ASSUME NEW q \in Seq(Wire), NEW k, WellUpTo(q, k)
    PROVE  Well(q) = SubSeq(q, 1, k) /\ Len(Well(q)) = k
  <1> DEFINE bad == {i \in DOMAIN q : IsForeign(q[i])}
             least == CHOOSE i \in bad : \A j \in bad : i <= j
  <1>1. /\ Len(q) \in Nat /\ k \in 0..Len(q)
        /\ \A i \in 1..k : q[i] \notin Foreign
        /\ k < Len(q) => q[k + 1] \in Foreign
    BY DEF WellUpTo
  <1>2. bad = {i \in 1..Len(q) : q[i] \in Foreign}
    BY DEF IsForeign
  <1>3. Well(q) = IF bad = {} THEN q ELSE SubSeq(q, 1, least - 1)
    BY DEF Well
  <1> HIDE DEF bad
  <1>4. CASE k = Len(q)
    <2>1. bad = {} /\ SubSeq(q, 1, k) = q
      BY <1>1, <1>2, <1>4
    <2> QED BY <1>1, <1>3, <1>4, <2>1
  <1>5. CASE k < Len(q)
    <2>1. k + 1 \in bad /\ \A j \in bad : k + 1 <= j
      <3>1. k + 1 \in bad
        BY <1>1, <1>2, <1>5
      <3>2. ASSUME NEW j \in bad PROVE k + 1 <= j
        BY <1>1, <1>2, <3>2
      <3> QED BY <3>1, <3>2
    <2>2. least \in bad /\ \A j \in bad : least <= j
      BY <2>1
    <2> HIDE DEF least
    <2>3. least = k + 1
      BY <1>1, <1>2, <2>1, <2>2
    <2>4. least - 1 = k
      BY <1>1, <2>3
    <2>5. Well(q) = SubSeq(q, 1, k)
      BY <1>3, <2>1, <2>4
    <2>6. Len(SubSeq(q, 1, k)) = k
      BY <1>1
    <2> QED BY <2>5, <2>6
  <1> QED BY <1>1, <1>4, <1>5

\* An item that is sent extends what can be decoded, or changes nothing.
LEMMA WellAppended ==
    ASSUME NEW q \in Seq(Wire), NEW x \in Wire
    PROVE  \/ Well(Append(q, x)) = Well(q)
           \/ /\ x \in Sendable /\ Len(Well(q)) = Len(q)
              /\ Well(Append(q, x)) = Append(Well(q), x)
  <1> DEFINE r == Append(q, x)
  <1>1. PICK k : WellUpTo(q, k)
    BY WellExists
  <1>2. /\ Len(q) \in Nat /\ k \in 0..Len(q)
        /\ \A i \in 1..k : q[i] \notin Foreign
        /\ k < Len(q) => q[k + 1] \in Foreign
    BY <1>1 DEF WellUpTo
  <1>3. r \in Seq(Wire) /\ Len(r) = Len(q) + 1 /\ r[Len(q) + 1] = x
        /\ \A i \in 1..Len(q) : r[i] = q[i]
    OBVIOUS
  <1>4. Well(q) = SubSeq(q, 1, k) /\ Len(Well(q)) = k
    BY <1>1, WellIs
  <1>5. SubSeq(r, 1, k) = SubSeq(q, 1, k)
    BY <1>2
  <1> HIDE DEF r
  <1>6. CASE k < Len(q) \/ x \in Foreign
    <2>1. WellUpTo(r, k)
      <3>1. k \in 0..Len(r) /\ \A i \in 1..k : i \in 1..Len(q)
        BY <1>2, <1>3
      <3>2. r[k + 1] \in Foreign
        <4>1. CASE k < Len(q)
          <5>1. k + 1 \in 1..Len(q)
            BY <1>2, <4>1
          <5> QED BY <1>2, <1>3, <4>1, <5>1
        <4>2. CASE ~(k < Len(q))
          <5>1. k = Len(q) /\ x \in Foreign
            BY <1>2, <1>6, <4>2
          <5> QED BY <1>3, <5>1
        <4> QED BY <4>1, <4>2
      <3>3. \A i \in 1..k : r[i] \notin Foreign
        BY <1>2, <1>3, <3>1
      <3> QED BY <3>1, <3>2, <3>3 DEF WellUpTo
    <2>2. Well(r) = Well(q)
      BY <1>3, <1>4, <1>5, <2>1, WellIs
    <2> QED BY <2>2 DEF r
  <1>7. CASE ~(k < Len(q)) /\ x \notin Foreign
    <2>1. k = Len(q) /\ x \in Sendable
      BY <1>2, <1>7 DEF Wire
    <2>2. WellUpTo(r, k + 1)
      <3>1. k + 1 \in 0..Len(r) /\ ~(k + 1 < Len(r))
            /\ \A i \in 1..(k + 1) : i \in 1..Len(q) \/ i = Len(q) + 1
        BY <1>2, <1>3, <2>1
      <3>2. \A i \in 1..(k + 1) : r[i] \notin Foreign
        BY <1>2, <1>3, <1>7, <2>1, <3>1
      <3> QED BY <3>1, <3>2 DEF WellUpTo
    <2>3. Well(r) = SubSeq(r, 1, k + 1)
      BY <1>3, <2>2, WellIs
    <2>4. SubSeq(r, 1, k + 1) = r /\ SubSeq(q, 1, k) = q
      BY <1>3, <2>1
    <2> QED BY <1>4, <2>1, <2>3, <2>4 DEF r
  <1> QED BY <1>6, <1>7

\* The next item is one of those that can be decoded, when it can be decoded itself
\* and all before it could.
LEMMA NextIsWell ==
    ASSUME NEW p \in Seq(Sendable), NEW q \in Seq(Item), q # <<>>,
           Head(q) \notin Foreign
    PROVE  Len(p) < Len(Well(p \o q)) /\ Well(p \o q)[Len(p) + 1] = Head(q)
  <1> DEFINE s == p \o q
             n == Len(p)
  <1>1. p \in Seq(Wire) /\ q \in Seq(Wire)
    BY Widened DEF Wire
  <1>2. n \in Nat /\ Len(q) \in Nat /\ Len(q) >= 1 /\ Head(q) = q[1]
    OBVIOUS
  <1>3. s \in Seq(Wire) /\ Len(s) = n + Len(q)
    BY <1>1, ConcatProperties
  <1>4. \A i \in 1..(Len(p) + Len(q)) : s[i] = IF i <= Len(p) THEN p[i] ELSE q[i - Len(p)]
    BY <1>1, ConcatProperties
  <1>5. \A i \in 1..n : p[i] \notin Foreign
    <2>1. \A i \in 1..n : p[i] \in Sendable
      OBVIOUS
    <2> QED BY <2>1, PeerAssumption
  <1> HIDE DEF s
  <1>6. \A i \in 1..n : s[i] \notin Foreign
    <2>1. \A i \in 1..n : i \in 1..(Len(p) + Len(q)) /\ i <= Len(p)
      BY <1>2
    <2> QED BY <1>4, <1>5, <2>1
  <1>7. s[n + 1] = Head(q)
    <2>1. n + 1 \in 1..(Len(p) + Len(q)) /\ ~(n + 1 <= Len(p)) /\ (n + 1) - Len(p) = 1
      BY <1>2
    <2> QED BY <1>2, <1>4, <2>1
  <1> HIDE DEF n
  <1>8. PICK k : WellUpTo(s, k)
    BY <1>3, WellExists
  <1>9. k \in 0..Len(s) /\ (k < Len(s) => s[k + 1] \in Foreign)
    BY <1>8 DEF WellUpTo
  <1>10. n < k
    <2> SUFFICES ASSUME ~(n < k) PROVE FALSE
      OBVIOUS
    <2>1. k < Len(s) /\ (k + 1 \in 1..n \/ k + 1 = n + 1)
      BY <1>2, <1>3, <1>9
    <2> QED BY <1>6, <1>7, <1>9, <2>1
  <1>11. Well(s) = SubSeq(s, 1, k) /\ Len(Well(s)) = k
    BY <1>3, <1>8, WellIs
  <1>12. SubSeq(s, 1, k)[n + 1] = s[n + 1]
    <2>1. n + 1 \in 1..k /\ k <= Len(s) /\ k \in Nat
      BY <1>2, <1>3, <1>9, <1>10
    <2> QED BY <1>3, <2>1
  <1> QED BY <1>7, <1>10, <1>11, <1>12 DEF n, s

\* The types of both ends.
THEOREM FrameTypes ==
    FrameSpec => []FrameTypeOK
  <1>1. FrameInit => FrameInv
    BY FrameBegins
  <1>2. FrameInv /\ [FrameNext]_frameVars => FrameInv'
    BY FrameStep
  <1>3. FrameInv => FrameTypeOK
    BY DEF FrameInv
  <1> QED BY <1>1, <1>2, <1>3, PTL DEF FrameSpec

\* However the bytes are cut into reads, every step of the stream and of the loop
\* that drains it is a step of a FIFO channel for the messages sent before the first
\* frame that cannot be decoded, or changes nothing there.
THEOREM Fifo ==
    FrameSpec => Channel!Init /\ [][Channel!Next]_(Channel!vars)
  <1>1. FrameInit => FrameInv
    BY FrameBegins
  <1>2. FrameInv /\ [FrameNext]_frameVars => FrameInv'
    BY FrameStep
  <1>3. FrameInit => Channel!Init
    <2> SUFFICES ASSUME FrameInit PROVE Channel!Init
      OBVIOUS
    <2>1. sent = <<>> /\ delivered = <<>>
      BY DEF FrameInit
    <2>2. DOMAIN sent = {}
      BY <2>1
    <2>3. SentWell = <<>>
      BY <2>1, <2>2 DEF SentWell
    <2> QED BY <2>1, <2>3 DEF Channel!Init
  <1>4. FrameInv /\ [FrameNext]_frameVars => [Channel!Next]_(Channel!vars)
    <2> SUFFICES ASSUME FrameInv, [FrameNext]_frameVars
                 PROVE  [Channel!Next]_(Channel!vars)
      OBVIOUS
    <2>1. SentWell = Well(sent) /\ SentWell' = Well(sent')
      BY DEF SentWell, Well
    <2>2. sent \in Seq(Wire) /\ delivered \in Seq(Sendable)
      BY DEF FrameInv, FrameTypeOK, Wire
    <2>3. ASSUME sent' = sent, delivered' = delivered PROVE UNCHANGED Channel!vars
      BY <2>1, <2>3 DEF Channel!vars
    <2>4. ASSUME NEW x \in Item, Putting(x) PROVE [Channel!Next]_(Channel!vars)
      <3>1. sent' = Append(sent, x) /\ delivered' = delivered /\ Len(sent) < MaxSent /\ x \in Wire
        BY <2>4 DEF Putting, Item, Wire
      <3>2. CASE Well(sent') = Well(sent)
        BY <2>1, <3>1, <3>2 DEF Channel!vars
      <3>3. CASE /\ x \in Sendable /\ Len(Well(sent)) = Len(sent)
                 /\ Well(sent') = Append(Well(sent), x)
        BY <2>1, <3>1, <3>3 DEF Channel!Next, Channel!Send
      <3> QED BY <2>2, <3>1, <3>2, <3>3, WellAppended
    <2>5. CASE DecodeMessage
      <3>1. PICK q \in Seq(Item) : /\ q # <<>> /\ sent = delivered \o q
                                   /\ Head(q) \notin Foreign
                                   /\ delivered' = Append(delivered, Head(q))
        BY <2>5, DecodeKeeps
      <3>2. Len(delivered) < Len(Well(sent)) /\ Well(sent)[Len(delivered) + 1] = Head(q)
        BY <2>2, <3>1, NextIsWell
      <3>3. sent' = sent
        BY <2>5 DEF DecodeMessage
      <3> QED BY <2>1, <3>1, <3>2, <3>3 DEF Channel!Next, Channel!Deliver
    <2>6. ASSUME NEW n \in 1..Len(stream), Read(n) PROVE UNCHANGED Channel!vars
      BY <2>3, <2>6 DEF Read
    <2>7. CASE Idling
      BY <2>3, <2>7 DEF Idling
    <2> QED BY <2>4, <2>5, <2>6, <2>7, StepCases
  <1> QED BY <1>1, <1>2, <1>3, <1>4, PTL DEF FrameSpec

=============================================================================
