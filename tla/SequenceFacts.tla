--------------------------- MODULE SequenceFacts ---------------------------
(***************************************************************************)
(* Facts about sequences that the proofs share: what a sequence holds, and *)
(* what appending, taking the tail or the front and replacing an element   *)
(* do to it.  And induction over the naturals in terms of sets, for        *)
(* iterations: what iterating a step yields, and that growth in a finite   *)
(* set stops.                                                              *)
(***************************************************************************)
EXTENDS Integers, Sequences, SequencesExt, SequenceTheorems, FiniteSetTheorems, TLAPS

Holds(s, x) == \E i \in DOMAIN s : s[i] = x

\* Appending adds one element and keeps the others where they are.
LEMMA AppendHolds ==
  ASSUME NEW S, NEW s \in Seq(S), NEW e \in S
  PROVE  /\ Append(s, e) \in Seq(S)
         /\ Len(Append(s, e)) = Len(s) + 1
         /\ DOMAIN Append(s, e) = 1 .. Len(s) + 1
         /\ \A i \in 1 .. Len(s) : Append(s, e)[i] = s[i]
         /\ Append(s, e)[Len(s) + 1] = e
         /\ \A x : Holds(Append(s, e), x) <=> Holds(s, x) \/ x = e
<1>1. /\ Append(s, e) \in Seq(S)
      /\ Len(Append(s, e)) = Len(s) + 1
      /\ \A i \in 1 .. Len(s) : Append(s, e)[i] = s[i]
      /\ Append(s, e)[Len(s) + 1] = e
  BY AppendProperties
<1>2. Len(s) \in Nat /\ DOMAIN s = 1 .. Len(s) /\ DOMAIN Append(s, e) = 1 .. Len(s) + 1
  BY <1>1, LenProperties
<1>3. 1 .. Len(s) + 1 = (1 .. Len(s)) \union {Len(s) + 1}
  BY <1>2
<1> QED BY <1>1, <1>2, <1>3 DEF Holds

\* A queue holds its head and what its tail holds.
LEMMA QueueHolds ==
  ASSUME NEW S, NEW q \in Seq(S), q # << >>
  PROVE  /\ Head(q) \in S /\ Tail(q) \in Seq(S)
         /\ Head(q) = q[1] /\ 1 \in DOMAIN q
         /\ \A x : Holds(q, x) <=> x = Head(q) \/ Holds(Tail(q), x)
<1>1. Len(q) \in Nat \ {0} /\ DOMAIN q = 1 .. Len(q)
  BY LenProperties, EmptySeq
<1>2. /\ Head(q) \in S /\ Tail(q) \in Seq(S)
      /\ Head(q) = q[1]
      /\ Len(Tail(q)) = Len(q) - 1
      /\ \A i \in 1 .. Len(Tail(q)) : Tail(q)[i] = q[i + 1]
  BY HeadTailProperties, <1>1
<1>3. DOMAIN Tail(q) = 1 .. Len(q) - 1
  BY <1>2, LenProperties
<1>4. ASSUME NEW x, Holds(q, x), x # Head(q)
      PROVE  Holds(Tail(q), x)
  <2>1. PICK i \in 1 .. Len(q) : q[i] = x
    BY <1>1, <1>4 DEF Holds
  <2>2. i - 1 \in 1 .. Len(q) - 1 /\ (i - 1) + 1 = i
    BY <1>1, <1>2, <1>4, <2>1
  <2> QED BY <1>2, <1>3, <2>1, <2>2 DEF Holds
<1>5. ASSUME NEW x, Holds(Tail(q), x)
      PROVE  Holds(q, x)
  <2>1. PICK i \in 1 .. Len(q) - 1 : Tail(q)[i] = x
    BY <1>3, <1>5 DEF Holds
  <2>2. i + 1 \in 1 .. Len(q) /\ q[i + 1] = x
    BY <1>1, <1>2, <2>1
  <2> QED BY <1>1, <2>2 DEF Holds
<1>6. Holds(q, Head(q))
  BY <1>1, <1>2 DEF Holds
<1> QED BY <1>1, <1>2, <1>4, <1>5, <1>6

\* Two sequences together hold what each holds.
LEMMA ConcatHolds ==
  ASSUME NEW S, NEW s \in Seq(S), NEW t \in Seq(S)
  PROVE  /\ s \o t \in Seq(S)
         /\ \A x : Holds(s \o t, x) <=> Holds(s, x) \/ Holds(t, x)
<1>1. /\ Len(s) \in Nat /\ DOMAIN s = 1 .. Len(s)
      /\ Len(t) \in Nat /\ DOMAIN t = 1 .. Len(t)
  BY LenProperties
<1>2. /\ s \o t \in Seq(S)
      /\ Len(s \o t) = Len(s) + Len(t)
      /\ \A i \in 1 .. Len(s) + Len(t) :
           (s \o t)[i] = IF i <= Len(s) THEN s[i] ELSE t[i - Len(s)]
  BY ConcatProperties
<1>3. DOMAIN (s \o t) = 1 .. Len(s) + Len(t)
  BY <1>2, LenProperties
<1>4. ASSUME NEW x, Holds(s \o t, x)
      PROVE  Holds(s, x) \/ Holds(t, x)
  <2>1. PICK i \in 1 .. Len(s) + Len(t) : (s \o t)[i] = x
    BY <1>3, <1>4 DEF Holds
  <2>2. CASE i <= Len(s)
    BY <1>1, <1>2, <2>1, <2>2 DEF Holds
  <2>3. CASE i > Len(s)
    <3>1. i - Len(s) \in 1 .. Len(t)
      BY <1>1, <2>1, <2>3
    <3> QED BY <1>1, <1>2, <2>1, <2>3, <3>1 DEF Holds
  <2> QED BY <1>1, <2>1, <2>2, <2>3
<1>5. ASSUME NEW x, Holds(s, x)
      PROVE  Holds(s \o t, x)
  <2>1. PICK i \in 1 .. Len(s) : s[i] = x
    BY <1>1, <1>5 DEF Holds
  <2>2. i \in 1 .. Len(s) + Len(t) /\ (s \o t)[i] = x
    BY <1>1, <1>2, <2>1
  <2> QED BY <1>3, <2>2 DEF Holds
<1>6. ASSUME NEW x, Holds(t, x)
      PROVE  Holds(s \o t, x)
  <2>1. PICK i \in 1 .. Len(t) : t[i] = x
    BY <1>1, <1>6 DEF Holds
  <2>2. i + Len(s) \in 1 .. Len(s) + Len(t) /\ ~(i + Len(s) <= Len(s)) /\ (i + Len(s)) - Len(s) = i
    BY <1>1, <2>1
  <2> QED BY <1>2, <1>3, <2>1, <2>2 DEF Holds
<1> QED BY <1>2, <1>4, <1>5, <1>6

\* The front of a sequence is the sequence without its last element.
LEMMA FrontIsPrefix ==
  ASSUME NEW S, NEW s \in Seq(S), s # << >>
  PROVE  /\ Len(s) \in Nat \ {0} /\ DOMAIN s = 1 .. Len(s)
         /\ Front(s) \in Seq(S)
         /\ Len(Front(s)) = Len(s) - 1
         /\ DOMAIN Front(s) = 1 .. Len(s) - 1
         /\ \A i \in 1 .. Len(s) - 1 : Front(s)[i] = s[i]
         /\ Last(s) = s[Len(s)] /\ Last(s) \in S
<1>1. /\ Len(s) \in Nat \ {0} /\ DOMAIN s = 1 .. Len(s)
      /\ \A i \in 1 .. Len(s) : s[i] \in S
  BY LenProperties, EmptySeq, ElementOfSeq
<1>2. /\ SubSeq(s, 1, Len(s) - 1) \in Seq(S)
      /\ Len(SubSeq(s, 1, Len(s) - 1)) = Len(s) - 1
      /\ \A i \in 1 .. Len(s) - 1 : SubSeq(s, 1, Len(s) - 1)[i] = s[i]
  <2>1. 1 \in Int /\ Len(s) - 1 \in Int /\ \A i \in 1 .. Len(s) - 1 : s[i] \in S
    BY <1>1
  <2>2. /\ SubSeq(s, 1, Len(s) - 1) \in Seq(S)
        /\ Len(SubSeq(s, 1, Len(s) - 1)) = IF 1 <= Len(s) - 1 THEN (Len(s) - 1) - 1 + 1 ELSE 0
        /\ \A i \in 1 .. (Len(s) - 1) - 1 + 1 : SubSeq(s, 1, Len(s) - 1)[i] = s[1 + i - 1]
    BY <2>1, SubSeqProperties
  <2> QED BY <1>1, <2>2
<1>3. DOMAIN SubSeq(s, 1, Len(s) - 1) = 1 .. Len(s) - 1
  BY <1>2, LenProperties
<1> QED BY <1>1, <1>2, <1>3 DEF Front, Last

\* Nothing is in an empty sequence.
LEMMA EmptyHolds == DOMAIN << >> = {} /\ \A x : ~Holds(<< >>, x)
<1>1. << >> \in Seq({}) /\ Len(<< >>) = 0
  BY EmptySeq
<1>2. DOMAIN << >> = 1 .. 0 /\ 1 .. 0 = {}
  BY <1>1, LenProperties
<1> QED BY <1>2 DEF Holds

-----------------------------------------------------------------------------
(* Induction over the naturals, by sets.                                   *)
\* A set of naturals has a least element.
LEMMA LeastNatural ==
  ASSUME NEW S, S \subseteq Nat, S # {}
  PROVE  \E m \in S : \A i \in S : m <= i
<1> DEFINE upTo == {0 .. i : i \in S}
<1>1. upTo \subseteq FiniteSubsetsOf(Nat)
  <2>1. \A i \in S : 0 .. i \subseteq Nat /\ IsFiniteSet(0 .. i)
    BY FS_Interval
  <2> QED BY <2>1 DEF FiniteSubsetsOf
<1>2. upTo # {}
  OBVIOUS
<1>3. PICK u \in upTo : \A v \in upTo : <<v, u>> \notin StrictSubsetOrdering(Nat)
  <2> HIDE DEF upTo
  <2> QED BY <1>1, <1>2, WFMin, FS_StrictSubsetOrderingWellFounded
<1>4. PICK m \in S : u = 0 .. m
  OBVIOUS
<1>5. ASSUME NEW i \in S, i < m
      PROVE  FALSE
  <2>1. 0 .. i \in upTo /\ 0 .. i \subseteq 0 .. m /\ m \notin 0 .. i /\ m \in 0 .. m
    BY <1>5
  <2>2. <<0 .. i, 0 .. m>> \in StrictSubsetOrdering(Nat)
    BY <2>1 DEF StrictSubsetOrdering
  <2> QED BY <1>3, <1>4, <2>1, <2>2
<1> QED BY <1>5

\* A bounded one has a greatest.
LEMMA GreatestNatural ==
  ASSUME NEW S, S \subseteq Nat, S # {}, NEW n \in Nat, \A i \in S : i <= n
  PROVE  \E m \in S : \A i \in S : i <= m
<1> DEFINE T == {n - i : i \in S}
<1>1. T \subseteq Nat /\ T # {}
  <2>1. \A i \in S : n - i \in Nat
    OBVIOUS
  <2> QED BY <2>1
<1>2. PICK u \in T : \A v \in T : u <= v
  <2> HIDE DEF T
  <2> QED BY <1>1, LeastNatural
<1>3. PICK m \in S : u = n - m
  OBVIOUS
<1>4. ASSUME NEW i \in S
      PROVE  i <= m
  <2>1. n - i \in T
    OBVIOUS
  <2>2. n - m <= n - i
    BY <1>2, <1>3, <2>1
  <2> QED BY <2>2
<1> QED BY <1>4

\* A set that holds 0 and each successor of what it holds holds every natural.
LEMMA SetInduction ==
  ASSUME NEW S, 0 \in S, \A n \in Nat : n \in S => n + 1 \in S
  PROVE  \A n \in Nat : n \in S
<1> SUFFICES ASSUME NEW n \in Nat, n \notin S
             PROVE  FALSE
  OBVIOUS
<1> DEFINE T == {i \in Nat : i \notin S}
<1>1. PICK m \in T : \A i \in T : m <= i
  <2>1. T \subseteq Nat /\ T # {}
    OBVIOUS
  <2> HIDE DEF T
  <2> QED BY <2>1, LeastNatural
<1>2. m \in Nat /\ m # 0 /\ m - 1 \in Nat /\ (m - 1) + 1 = m
  OBVIOUS
<1>3. m - 1 \notin T
  BY <1>1, <1>2
<1> QED BY <1>1, <1>2, <1>3

-----------------------------------------------------------------------------
(* Iteration of a function.                                                *)
Begins(s0, step, n, h) ==
  /\ h[0] = s0
  /\ \A i \in Nat : i < n => h[i + 1] = step[h[i]]

\* A function can be iterated from any value.
LEMMA IterationExists ==
  ASSUME NEW S, NEW s0 \in S, NEW step \in [S -> S]
  PROVE  \E g \in [Nat -> S] : g[0] = s0 /\ \A n \in Nat : g[n + 1] = step[g[n]]
<1> DEFINE T == {n \in Nat : \E h \in [0 .. n -> S] : Begins(s0, step, n, h)}
<1>1. \A n \in Nat : n \in T
  <2>1. 0 \in T
    <3> DEFINE h == [i \in 0 .. 0 |-> s0]
    <3>1. h \in [0 .. 0 -> S] /\ h[0] = s0 /\ \A i \in Nat : ~(i < 0)
      OBVIOUS
    <3> HIDE DEF h
    <3>2. Begins(s0, step, 0, h)
      BY <3>1 DEF Begins
    <3> QED BY <3>1, <3>2
  <2>2. ASSUME NEW n \in Nat, n \in T
        PROVE  n + 1 \in T
    <3>1. PICK h \in [0 .. n -> S] : Begins(s0, step, n, h)
      BY <2>2
    <3> DEFINE k == [i \in 0 .. n + 1 |-> IF i = n + 1 THEN step[h[n]] ELSE h[i]]
    <3>2. /\ \A i \in 0 .. n : k[i] = h[i]
          /\ k[n + 1] = step[h[n]]
      OBVIOUS
    <3>3. \A i \in 0 .. n + 1 : i \in 0 .. n \/ i = n + 1
      OBVIOUS
    <3>4. k \in [0 .. n + 1 -> S]
      OBVIOUS
    <3> HIDE DEF k
    <3>5. k[0] = s0
      BY <3>1, <3>2 DEF Begins
    <3>6. ASSUME NEW i \in Nat, i < n + 1
          PROVE  k[i + 1] = step[k[i]]
      <4>1. CASE i = n
        BY <3>2, <4>1
      <4>2. CASE i < n
        <5>1. i \in 0 .. n /\ i + 1 \in 0 .. n
          BY <4>2
        <5> QED BY <3>1, <3>2, <4>2, <5>1 DEF Begins
      <4> QED BY <3>6, <4>1, <4>2
    <3>7. Begins(s0, step, n + 1, k)
      BY <3>5, <3>6 DEF Begins
    <3> QED BY <3>4, <3>7
  <2> HIDE DEF T
  <2> QED BY <2>1, <2>2, SetInduction
<1>2. ASSUME NEW m \in Nat, NEW n \in Nat, m <= n, NEW h, NEW k,
             Begins(s0, step, m, h), Begins(s0, step, n, k)
      PROVE  h[m] = k[m]
  <2> DEFINE U == {i \in Nat : i <= m => h[i] = k[i]}
  <2>1. 0 \in U
    BY <1>2 DEF Begins
  <2>2. ASSUME NEW i \in Nat, i \in U
        PROVE  i + 1 \in U
    <3>1. CASE i + 1 <= m
      <4>1. i < m /\ i < n /\ i <= m
        BY <1>2, <3>1
      <4> QED BY <1>2, <2>2, <4>1 DEF Begins
    <3> QED BY <3>1
  <2>3. \A i \in Nat : i \in U
    <3> HIDE DEF U
    <3> QED BY <2>1, <2>2, SetInduction
  <2> QED BY <2>3
<1> DEFINE H(n) == CHOOSE h \in [0 .. n -> S] : Begins(s0, step, n, h)
           g == [n \in Nat |-> H(n)[n]]
<1>3. \A n \in Nat : H(n) \in [0 .. n -> S] /\ Begins(s0, step, n, H(n))
  BY <1>1
<1> HIDE DEF H
<1>4. \A n \in Nat : n \in 0 .. n
  OBVIOUS
<1>5. g \in [Nat -> S]
  BY <1>3, <1>4
<1>6. g[0] = s0
  BY <1>3 DEF Begins
<1>7. ASSUME NEW n \in Nat
      PROVE  g[n + 1] = step[g[n]]
  <2>1. H(n + 1)[n + 1] = step[H(n + 1)[n]]
    BY <1>3 DEF Begins
  <2>2. Begins(s0, step, n, H(n + 1))
    BY <1>3 DEF Begins
  <2>3. H(n)[n] = H(n + 1)[n]
    BY <1>2, <1>3, <2>2
  <2> QED BY <2>1, <2>3
<1> HIDE DEF g
<1> QED BY <1>5, <1>6, <1>7

\* Sets that grow inside a finite one, each determined by the one before, stop
\* growing before there are more of them than it has elements.
LEMMA GrowthStops ==
  ASSUME NEW S, IsFiniteSet(S), NEW g \in [Nat -> SUBSET S],
         \A n \in Nat : g[n] \subseteq g[n + 1],
         \A n \in Nat : g[n + 1] = g[n] => g[n + 2] = g[n + 1]
  PROVE  g[Cardinality(S) + 1] = g[Cardinality(S)]
<1> DEFINE N == Cardinality(S)
<1>1. N \in Nat
  BY FS_CardinalityType
<1> SUFFICES ASSUME g[N + 1] # g[N]
             PROVE  FALSE
  OBVIOUS
<1>2. \A n \in Nat : IsFiniteSet(g[n]) /\ Cardinality(g[n]) \in Nat /\ Cardinality(g[n]) <= N
  <2> TAKE n \in Nat
  <2>1. g[n] \subseteq S
    OBVIOUS
  <2> QED BY <2>1, FS_Subset, FS_CardinalityType
<1> HIDE DEF N
\* Before N no two in a row are equal.
<1>3. \A n \in Nat : n <= N => g[n + 1] # g[n]
  <2> DEFINE T == {i \in Nat : i <= N => g[(N - i) + 1] # g[N - i]}
  <2>1. 0 \in T
    <3>1. N - 0 = N
      BY <1>1
    <3> QED BY <3>1
  <2>2. ASSUME NEW i \in Nat, i \in T
        PROVE  i + 1 \in T
    <3>1. CASE i + 1 <= N
      <4> DEFINE j == N - (i + 1)
      <4>1. j \in Nat /\ N - i = j + 1 /\ i <= N /\ (N - i) + 1 = j + 2
        BY <1>1, <3>1
      <4>2. g[j + 2] # g[j + 1]
        BY <2>2, <4>1
      <4> HIDE DEF j
      <4>3. g[j + 1] # g[j]
        BY <4>1, <4>2
      <4> QED BY <4>3 DEF j
    <3> QED BY <3>1
  <2>3. \A i \in Nat : i \in T
    <3> HIDE DEF T
    <3> QED BY <2>1, <2>2, SetInduction
  <2> TAKE n \in Nat
  <2> HAVE n <= N
  <2>4. N - n \in Nat /\ N - n <= N /\ N - (N - n) = n
    BY <1>1
  <2>5. N - n \in T
    BY <2>3, <2>4
  <2> QED BY <2>4, <2>5
<1>4. \A n \in Nat : n <= N + 1 => Cardinality(g[n]) >= n
  <2> DEFINE T == {n \in Nat : n <= N + 1 => Cardinality(g[n]) >= n}
  <2>1. 0 \in T
    BY <1>2
  <2>2. ASSUME NEW n \in Nat, n \in T
        PROVE  n + 1 \in T
    <3>1. CASE n <= N
      <4>1. g[n] \subseteq g[n + 1] /\ g[n] # g[n + 1]
        BY <1>3, <3>1
      <4>2. PICK x \in g[n + 1] : x \notin g[n]
        BY <4>1
      <4>3. /\ IsFiniteSet(g[n] \union {x})
            /\ Cardinality(g[n] \union {x}) = Cardinality(g[n]) + 1
        BY <1>2, <4>2, FS_AddElement
      <4>4. g[n] \union {x} \subseteq g[n + 1]
        BY <4>1, <4>2
      <4>5. Cardinality(g[n] \union {x}) <= Cardinality(g[n + 1])
        BY <1>2, <4>4, FS_Subset
      <4>6. Cardinality(g[n]) >= n
        BY <1>1, <2>2, <3>1
      <4> QED BY <1>1, <1>2, <4>3, <4>5, <4>6
    <3> QED BY <1>1, <3>1
  <2>3. \A n \in Nat : n \in T
    <3> HIDE DEF T
    <3> QED BY <2>1, <2>2, SetInduction
  <2> QED BY <2>3
<1>5. N + 1 \in Nat /\ Cardinality(g[N + 1]) >= N + 1 /\ Cardinality(g[N + 1]) <= N
  BY <1>1, <1>2, <1>4
<1> QED BY <1>1, <1>2, <1>5
=============================================================================
