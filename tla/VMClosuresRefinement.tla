------------------------ MODULE VMClosuresRefinement ------------------------
(***************************************************************************)
(* The virtual machine implements ClosureCells: for any compiled functions *)
(* its slots and upvalues behave as one cell per variable of an activation.*)
(***************************************************************************)
EXTENDS VMClosuresProofs

-----------------------------------------------------------------------------
(* What the refinement needs beyond IInv: the steps of MAKE_CLOSURE and of *)
(* a return that have already run determine what the last one will do.     *)

\* The cell of the variable a capture of the running function names.
GivenCell(c) == IF c.isLocal THEN <<frame.act, c.index>> ELSE upvalues[Upvalue(c.index + 1)].cell

\* The upvalues collected so far are those of the captured variables.
Filling ==
  pc = "make" =>
    /\ making.proto # Main
    /\ Len(fns) < MaxClosures
    /\ \A k \in DOMAIN making.upvalues :
         upvalues[making.upvalues[k]].cell = GivenCell(Captures[making.proto][k])

\* The value to return is still on the stack when the frame goes.
Returning == pc = "return value" => Temps > 0

Prepared == Filling /\ Returning

-----------------------------------------------------------------------------
(* Segments of a sequence.                                                 *)

\* The elements after position m up to n.
LEMMA SegmentIs ==
  ASSUME NEW S, NEW s \in Seq(S), NEW m \in Nat, NEW n \in Nat, m <= n, n <= Len(s)
  PROVE  /\ SubSeq(s, m + 1, n) \in Seq(S)
         /\ Len(SubSeq(s, m + 1, n)) = n - m
         /\ \A i \in 1 .. n - m : SubSeq(s, m + 1, n)[i] = s[m + i]
<1> DEFINE r == SubSeq(s, m + 1, n)
<1>1. Len(s) \in Nat
  BY LenProperties
<1>2. \A i \in m + 1 .. n : s[i] \in S
  <2>1. ASSUME NEW i \in m + 1 .. n
        PROVE  i \in 1 .. Len(s)
    BY <1>1
  <2> QED BY <2>1, ElementOfSeq
<1>3. /\ r \in Seq(S)
      /\ Len(r) = IF m + 1 <= n THEN n - (m + 1) + 1 ELSE 0
      /\ \A i \in 1 .. n - (m + 1) + 1 : r[i] = s[(m + 1) + i - 1]
  <2>1. m + 1 \in Int /\ n \in Int
    OBVIOUS
  <2> QED BY <1>2, <2>1, SubSeqProperties
<1> HIDE DEF r
<1>4. Len(r) = n - m
  BY <1>3
<1>5. \A i \in 1 .. n - m : r[i] = s[m + i]
  <2> TAKE i \in 1 .. n - m
  <2>1. i \in 1 .. n - (m + 1) + 1 /\ (m + 1) + i - 1 = m + i
    OBVIOUS
  <2> QED BY <1>3, <2>1
<1> QED BY <1>3, <1>4, <1>5 DEF r

\* A segment changes only with its elements.
LEMMA SameSegment ==
  ASSUME NEW S, NEW s \in Seq(S), NEW T, NEW t \in Seq(T), NEW m \in Nat, NEW n \in Nat,
         m <= n, n <= Len(s), n <= Len(t), \A i \in m + 1 .. n : t[i] = s[i]
  PROVE  SubSeq(t, m + 1, n) = SubSeq(s, m + 1, n)
<1> DEFINE U == S \union T
           a == SubSeq(s, m + 1, n)
           b == SubSeq(t, m + 1, n)
<1>1. s \in Seq(U) /\ t \in Seq(U)
  BY SeqGrows
<1> HIDE DEF U
<1>2. /\ a \in Seq(U) /\ Len(a) = n - m /\ \A i \in 1 .. n - m : a[i] = s[m + i]
      /\ b \in Seq(U) /\ Len(b) = n - m /\ \A i \in 1 .. n - m : b[i] = t[m + i]
  BY <1>1, SegmentIs
<1> HIDE DEF a, b
<1>3. \A i \in 1 .. Len(b) : b[i] = a[i]
  <2> TAKE i \in 1 .. Len(b)
  <2>1. i \in 1 .. n - m /\ m + i \in m + 1 .. n
    BY <1>2
  <2> QED BY <1>2, <2>1
<1> QED BY <1>2, <1>3, SeqEqual DEF a, b

\* A sequence that agrees with s up to j and has one element more: its segment is that
\* of s and the new element.
LEMMA SegmentExtended ==
  ASSUME NEW S, NEW s \in Seq(S), NEW t \in Seq(S), NEW m \in Nat, NEW j \in Nat,
         m <= j, j <= Len(s), Len(t) = j + 1, \A i \in m + 1 .. j : t[i] = s[i]
  PROVE  SubSeq(t, m + 1, Len(t)) = Append(SubSeq(s, m + 1, j), t[Len(t)])
<1> DEFINE k == Len(t)
           e == t[k]
           a == SubSeq(s, m + 1, j)
           b == SubSeq(t, m + 1, k)
           c == Append(a, e)
<1>1. k \in Nat /\ k = j + 1 /\ m <= k /\ k <= Len(t)
  BY LenProperties
<1>2. e \in S
  <2>1. k \in 1 .. Len(t)
    BY <1>1
  <2> QED BY <2>1, ElementOfSeq
<1>3. a \in Seq(S) /\ Len(a) = j - m /\ \A i \in 1 .. j - m : a[i] = s[m + i]
  BY SegmentIs
<1>4. b \in Seq(S) /\ Len(b) = k - m /\ \A i \in 1 .. k - m : b[i] = t[m + i]
  <2> HIDE DEF k
  <2> QED BY <1>1, SegmentIs
<1> HIDE DEF a, b, e
<1>5. /\ c \in Seq(S) /\ Len(c) = Len(a) + 1 /\ c[Len(a) + 1] = e
      /\ \A i \in 1 .. Len(a) : c[i] = a[i]
  BY <1>2, <1>3, AppendHolds
<1> HIDE DEF c, k
<1>6. ASSUME NEW i \in 1 .. k - m
      PROVE  b[i] = c[i]
  <2>1. CASE i \in 1 .. j - m
    <3>1. m + i \in m + 1 .. j
      BY <2>1
    <3> QED BY <1>3, <1>4, <1>5, <2>1, <3>1
  <2>2. CASE i = k - m
    <3>1. m + i = k /\ i = Len(a) + 1
      BY <1>1, <1>3, <2>2
    <3> QED BY <1>4, <1>5, <3>1 DEF e
  <2>3. i \in 1 .. j - m \/ i = k - m
    BY <1>1
  <2> QED BY <2>1, <2>2, <2>3
<1>7. Len(b) = Len(c)
  BY <1>1, <1>3, <1>4, <1>5
<1>8. b = c
  BY <1>4, <1>5, <1>6, <1>7, SeqEqual
<1> QED BY <1>8 DEF a, b, c, e, k

\* The first elements of a segment are a shorter segment.
LEMMA PrefixOfSegment ==
  ASSUME NEW S, NEW s \in Seq(S), NEW m \in Nat, NEW j \in Nat, NEW n \in Nat,
         m <= j, j <= n, n <= Len(s)
  PROVE  SubSeq(SubSeq(s, m + 1, n), 1, j - m) = SubSeq(s, m + 1, j)
<1> DEFINE a == SubSeq(s, m + 1, n)
           b == SubSeq(s, m + 1, j)
           d == j - m
           c == SubSeq(a, 0 + 1, d)
<1>1. a \in Seq(S) /\ Len(a) = n - m /\ \A i \in 1 .. n - m : a[i] = s[m + i]
  BY SegmentIs
<1>2. b \in Seq(S) /\ Len(b) = d /\ \A i \in 1 .. d : b[i] = s[m + i]
  BY SegmentIs, LenProperties
<1>3. d \in Nat /\ d <= n - m /\ 0 + 1 = 1
  BY LenProperties
<1> HIDE DEF a, b, d
<1>4. c \in Seq(S) /\ Len(c) = d - 0 /\ \A i \in 1 .. d - 0 : c[i] = a[0 + i]
  BY <1>1, <1>3, SegmentIs
<1> HIDE DEF c
<1>5. ASSUME NEW i \in 1 .. d
      PROVE  c[i] = b[i]
  <2>1. i \in 1 .. n - m /\ i \in 1 .. d - 0 /\ 0 + i = i
    BY <1>3
  <2> QED BY <1>1, <1>2, <1>4, <2>1
<1>6. Len(c) = d
  BY <1>3, <1>4
<1>7. c = b
  BY <1>2, <1>4, <1>5, <1>6, SeqEqual
<1> QED BY <1>3, <1>7 DEF a, b, c, d

\* Replacing the last element.
LEMMA LastReplaced ==
  ASSUME NEW n \in Nat \ {0}, NEW s, s = [k \in 1 .. n |-> s[k]], NEW t, t = [k \in 1 .. n |-> t[k]],
         \A k \in 1 .. n - 1 : t[k] = s[k]
  PROVE  /\ t = Append(Front(s), t[n])
         /\ Last(s) = s[n] /\ s # << >> /\ Len(s) = n
<1> DEFINE S == {s[k] : k \in 1 .. n} \union {t[k] : k \in 1 .. n}
<1>1. s \in [1 .. n -> S] /\ t \in [1 .. n -> S]
  OBVIOUS
<1>2. t[n] \in S
  OBVIOUS
<1> HIDE DEF S
<1>3. s \in Seq(S) /\ t \in Seq(S) /\ DOMAIN s = 1 .. n /\ DOMAIN t = 1 .. n
  BY <1>1, SeqDef
<1>4. Len(s) = n /\ Len(t) = n
  BY <1>3, LenProperties
<1>5. s # << >>
  BY <1>4, EmptySeq
<1>6. /\ Front(s) \in Seq(S) /\ Len(Front(s)) = n - 1
      /\ \A i \in 1 .. n - 1 : Front(s)[i] = s[i]
      /\ Last(s) = s[n]
  BY <1>3, <1>4, <1>5, FrontIsPrefix
<1> DEFINE f == Front(s)
           u == Append(f, t[n])
<1>7. f \in Seq(S) /\ Len(f) = n - 1 /\ \A i \in 1 .. n - 1 : f[i] = s[i]
  BY <1>6
<1> HIDE DEF f
<1>8. /\ u \in Seq(S) /\ Len(u) = Len(f) + 1 /\ u[Len(f) + 1] = t[n]
      /\ \A i \in 1 .. Len(f) : u[i] = f[i]
  BY <1>2, <1>7, AppendHolds
<1> HIDE DEF u
<1>9. ASSUME NEW i \in 1 .. n
      PROVE  t[i] = u[i]
  <2>1. CASE i \in 1 .. n - 1
    BY <1>7, <1>8, <2>1
  <2>2. CASE i = n
    BY <1>7, <1>8, <2>2
  <2> QED BY <2>1, <2>2
<1>10. Len(u) = n
  BY <1>7, <1>8
<1>11. t = u
  BY <1>3, <1>4, <1>8, <1>9, <1>10, SeqEqual
<1> QED BY <1>4, <1>5, <1>6, <1>11 DEF f, u

\* Adding an element.
LEMMA OneMore ==
  ASSUME NEW n \in Nat, NEW s, s = [k \in 1 .. n |-> s[k]]
  PROVE  /\ Len(s) = n
         /\ \A t : /\ t = [k \in 1 .. n + 1 |-> t[k]]
                   /\ \A k \in 1 .. n : t[k] = s[k]
                   => t = Append(s, t[n + 1])
<1>1. Len(s) = n
  <2> DEFINE S == {s[k] : k \in 1 .. n}
  <2>1. s \in [1 .. n -> S]
    OBVIOUS
  <2> HIDE DEF S
  <2>2. s \in Seq(S) /\ DOMAIN s = 1 .. n
    BY <2>1, SeqDef
  <2> QED BY <2>2, LenProperties
<1>2. ASSUME NEW t, t = [k \in 1 .. n + 1 |-> t[k]], \A k \in 1 .. n : t[k] = s[k]
      PROVE  t = Append(s, t[n + 1])
  <2> DEFINE S == {s[k] : k \in 1 .. n} \union {t[k] : k \in 1 .. n + 1}
             e == t[n + 1]
             u == Append(s, e)
  <2>1. s \in [1 .. n -> S] /\ t \in [1 .. n + 1 -> S] /\ e \in S
    BY <1>2
  <2> HIDE DEF S, e
  <2>2. s \in Seq(S) /\ t \in Seq(S) /\ DOMAIN t = 1 .. n + 1 /\ n + 1 \in Nat
    BY <2>1, SeqDef
  <2>3. Len(t) = n + 1
    BY <2>2, LenProperties
  <2>4. /\ u \in Seq(S) /\ Len(u) = n + 1 /\ u[n + 1] = e
        /\ \A k \in 1 .. n : u[k] = s[k]
    BY <1>1, <2>1, <2>2, AppendHolds
  <2> HIDE DEF u
  <2>5. ASSUME NEW k \in 1 .. n + 1
        PROVE  t[k] = u[k]
    <3>1. k \in 1 .. n \/ k = n + 1
      OBVIOUS
    <3> QED BY <1>2, <2>4, <3>1 DEF e
  <2>6. t = u
    BY <2>2, <2>3, <2>4, <2>5, SeqEqual
  <2> QED BY <2>6 DEF u, e
<1> QED BY <1>1, <1>2

-----------------------------------------------------------------------------
(* The activations the stack stands for.                                   *)

\* The temporaries of the running frame.
TopTemps == SubSeq(stack, FirstTemp(frame), Len(stack))

LEMMA TopTempsAre ==
  ASSUME TypeOK, Stacked
  PROVE  /\ FirstTemp(frame) = End(Len(frames)) + 1
         /\ TopTemps = SubSeq(stack, End(Len(frames)) + 1, Len(stack))
         /\ TopTemps \in Seq(Values)
         /\ Temps \in Nat /\ Temps = Len(stack) - End(Len(frames)) /\ Len(TopTemps) = Temps
         /\ \A i \in 1 .. Temps : TopTemps[i] = stack[End(Len(frames)) + i]
<1> DEFINE e == End(Len(frames))
           l == Len(stack)
<1>1. /\ stack \in Seq(Values) /\ l \in Nat /\ e \in Nat /\ e <= l
      /\ frame = frames[Len(frames)] /\ frame.base \in Nat /\ FrameSize[frame.proto] \in Nat
  BY FramesAre DEF TypeOK, StackType, Stacked
<1>2. FirstTemp(frame) = e + 1 /\ Temps = l - e
  <2>1. e = frame.base + FrameSize[frame.proto]
    BY <1>1 DEF End
  <2>2. FirstTemp(frame) = e + 1
    BY <2>1 DEF FirstTemp
  <2>3. Temps = l - (e + 1) + 1
    BY <2>2 DEF Temps
  <2> HIDE DEF e, l
  <2> QED BY <1>1, <2>2, <2>3
<1>3. TopTemps = SubSeq(stack, e + 1, l)
  BY <1>2 DEF TopTemps
<1> HIDE DEF e
<1>4. /\ SubSeq(stack, e + 1, l) \in Seq(Values) /\ Len(SubSeq(stack, e + 1, l)) = l - e
      /\ \A i \in 1 .. l - e : SubSeq(stack, e + 1, l)[i] = stack[e + i]
  BY <1>1, SegmentIs
<1>5. l - e \in Nat
  BY <1>1
<1> QED BY <1>2, <1>3, <1>4, <1>5 DEF e

\* The running activation.
LEMMA TopIs ==
  ASSUME TypeOK
  PROVE  /\ Activations = [k \in 1 .. Len(frames) |-> Activations[k]]
         /\ CC!Top = Activations[Len(frames)]
         /\ Activations[Len(frames)] = [proto |-> frame.proto, act |-> frame.act,
                                        fn |-> frame.function, temps |-> TopTemps]
         /\ Activations # << >> /\ Len(Activations) = Len(frames)
<1>1. /\ Len(frames) \in Nat \ {0} /\ DOMAIN frames = 1 .. Len(frames)
      /\ Len(frames) \in DOMAIN frames /\ frame = frames[Len(frames)]
  BY FramesAre
<1>2. Activations = [k \in 1 .. Len(frames) |-> Activations[k]]
  BY <1>1 DEF Activations
<1>3. TempsOf(Len(frames)) = TopTemps
  BY <1>1 DEF TempsOf, TopTemps
<1>4. Activations[Len(frames)] = [proto |-> frame.proto, act |-> frame.act,
                                  fn |-> frame.function, temps |-> TopTemps]
  BY <1>1, <1>3 DEF Activations
<1> DEFINE A == Activations
           n == Len(frames)
<1> HIDE DEF A, n
<1>5. Last(A) = A[n] /\ A # << >> /\ Len(A) = n
  BY <1>1, <1>2, LastReplaced DEF A, n
<1> QED BY <1>2, <1>4, <1>5 DEF A, n, CC!Top, CC!Last, Last

\* The temporaries of a frame that called another end under the function object.
LEMMA LowerSegment ==
  ASSUME TypeOK, Stacked, NEW k \in 1 .. Len(frames) - 1
  PROVE  /\ TempsOf(k) = SubSeq(stack, End(k) + 1, frames[k + 1].base - 1)
         /\ End(k) \in Nat /\ frames[k + 1].base - 1 \in Nat
         /\ End(k) <= frames[k + 1].base - 1
         /\ frames[k + 1].base <= End(Len(frames))
         /\ frames[k + 1].base <= Len(stack)
<1> DEFINE n == Len(frames)
           b == frames[k + 1].base
           e == End(k)
           f == FrameSize[frames[k + 1].proto]
           bn == frames[n].base
           fn == FrameSize[frames[n].proto]
           l == Len(stack)
<1>1. n \in Nat \ {0} /\ DOMAIN frames = 1 .. n /\ n \in DOMAIN frames
  BY FramesAre
<1>2. k \in DOMAIN frames /\ k + 1 \in DOMAIN frames /\ k < k + 1 /\ k # n /\ (k + 1 < n \/ k + 1 = n)
  <2>1. k \in 1 .. n - 1
    OBVIOUS
  <2> HIDE DEF n
  <2> QED BY <1>1, <2>1
<1>3. e \in Nat /\ b \in Nat /\ f \in Nat /\ bn \in Nat /\ fn \in Nat /\ l \in Nat /\ End(k + 1) = b + f /\ End(n) = bn + fn
  BY <1>1, <1>2, FramesAre DEF End
<1>4. e < b /\ (k + 1 < n => b + f < bn) /\ bn + fn <= l /\ (k + 1 = n => b = bn)
  BY <1>1, <1>2, <1>3 DEF Stacked
<1>5. TempsOf(k) = SubSeq(stack, FirstTemp(frames[k]), b - 1)
  BY <1>2 DEF TempsOf
<1>6. FirstTemp(frames[k]) = e + 1
  BY DEF FirstTemp, End
<1> HIDE DEF b, e, f, bn, fn, l
<1>7. b - 1 \in Nat /\ e <= b - 1 /\ b <= bn + fn /\ b <= l
  BY <1>2, <1>3, <1>4
<1> QED BY <1>3, <1>5, <1>6, <1>7 DEF b, e, l

\* A step that changes no slot below the running frame's temporaries changes only the
\* temporaries of the running activation.
LEMMA OnlyTopTempsChange ==
  ASSUME TypeOK, Stacked, UNCHANGED frames, NEW T, stack' \in Seq(T),
         Len(stack') >= End(Len(frames)), \A s \in 1 .. End(Len(frames)) : stack'[s] = stack[s]
  PROVE  Activations' = CC!SetTemps(Activations, TopTemps')
<1> DEFINE n == Len(frames)
           A == Activations
           B == Activations'
<1>1. /\ n \in Nat \ {0} /\ DOMAIN frames = 1 .. n /\ n \in DOMAIN frames
      /\ stack \in Seq(Values) /\ Len(stack) \in Nat /\ End(n) \in Nat /\ End(n) <= Len(stack)
      /\ frame = frames[n] /\ frame' = frame
  BY FramesAre DEF TypeOK, StackType, Stacked, frame
<1>2. A = [k \in 1 .. n |-> A[k]] /\ B = [k \in 1 .. n |-> B[k]]
  BY <1>1 DEF Activations
<1>3. ASSUME NEW k \in 1 .. n - 1
      PROVE  B[k] = A[k]
  <2> DEFINE m == End(k)
             j == frames[k + 1].base - 1
  <2>1. /\ TempsOf(k) = SubSeq(stack, m + 1, j)
        /\ m \in Nat /\ j \in Nat /\ m <= j /\ frames[k + 1].base <= End(n)
        /\ frames[k + 1].base <= Len(stack)
    BY LowerSegment
  <2>2. k \in DOMAIN frames /\ k # n
    <3> HIDE DEF n
    <3> QED BY <1>1
  <2>3. TempsOf(k)' = SubSeq(stack', m + 1, j)
    BY <2>2 DEF TempsOf, FirstTemp, End
  <2>4. j = frames[k + 1].base - 1 /\ frames[k + 1].base \in Nat
    <3>1. k + 1 \in DOMAIN frames
      BY <1>1
    <3> QED BY <3>1, FramesAre
  <2>5. Len(stack') \in Nat
    BY LenProperties
  <2> DEFINE e == End(n)
             b == frames[k + 1].base
  <2> HIDE DEF m, j, e
  <2>6. j <= Len(stack) /\ j <= Len(stack')
    <3> HIDE DEF b
    <3>1. b \in Nat /\ j = b - 1 /\ b <= e /\ b <= Len(stack) /\ e <= Len(stack') /\ e \in Nat
      BY <1>1, <2>1, <2>4 DEF b, e
    <3> QED BY <1>1, <2>5, <3>1
  <2>7. ASSUME NEW i \in m + 1 .. j
        PROVE  stack'[i] = stack[i]
    <3> HIDE DEF b
    <3>1. b \in Nat /\ j = b - 1 /\ b <= e /\ e \in Nat
      BY <1>1, <2>1, <2>4 DEF b, e
    <3>2. i \in 1 .. e
      BY <2>1, <3>1
    <3> QED BY <3>2 DEF e
  <2>8. SubSeq(stack', m + 1, j) = SubSeq(stack, m + 1, j)
    BY <1>1, <2>1, <2>6, <2>7, SameSegment
  <2> QED BY <2>1, <2>2, <2>3, <2>8 DEF Activations
<1>4. TempsOf(n)' = TopTemps'
  BY <1>1 DEF TempsOf, TopTemps
<1>5. B[n] = [A[n] EXCEPT !.temps = TopTemps']
  BY <1>1, <1>4 DEF Activations
<1> HIDE DEF A, B, n
<1>6. B = Append(Front(A), B[n]) /\ Last(A) = A[n]
  <2>1. n \in Nat \ {0}
    BY <1>1
  <2>2. \A k \in 1 .. n - 1 : B[k] = A[k]
    BY <1>3
  <2>3. A = [k \in 1 .. n |-> A[k]]
    BY <1>2
  <2>4. B = [k \in 1 .. n |-> B[k]]
    BY <1>2
  <2> QED BY ONLY <2>1, <2>2, <2>3, <2>4, LastReplaced
<1> QED BY <1>5, <1>6 DEF CC!SetTemps, CC!Front, CC!Last, Front, Last, A, B

\* The variable behind a captured cell of the running closure.
LEMMA CapturedCellIs ==
  ASSUME TypeOK, Running, NEW k \in DOMAIN Captures[frame.proto]
  PROVE  CC!CapturedCell(k) = upvalues[Upvalue(k)].cell
<1> DEFINE f == frame.function
<1>1. \/ f = 0 /\ frame.proto = Main
      \/ f \in DOMAIN fns /\ fns[f].proto = frame.proto
  BY FramesAre DEF Running
<1>2. f \in DOMAIN fns /\ fns[f].proto = frame.proto
  <2>1. Captures[Main] = << >>
    BY ProtosAssumption
  <2> QED BY <1>1, <2>1, EmptyHolds
<1>3. /\ fns[f].upvalues \in Seq(DOMAIN upvalues)
      /\ Len(fns[f].upvalues) = Len(Captures[frame.proto])
  <2>1. fns \in Seq([proto : Protos, upvalues : Seq(DOMAIN upvalues)])
    BY DEF TypeOK, FnTypes
  <2>2. fns[f] \in [proto : Protos, upvalues : Seq(DOMAIN upvalues)]
    <3> HIDE DEF f
    <3>1. DOMAIN fns = 1 .. Len(fns)
      BY <2>1, LenProperties
    <3> QED BY <1>2, <2>1, <3>1, ElementOfSeq
  <2> QED BY <1>2, <2>2 DEF TypeOK, FnTypes
<1>4. k \in DOMAIN fns[f].upvalues
  <2>1. frame.proto \in Protos
    BY FramesAre
  <2>2. DOMAIN Captures[frame.proto] = 1 .. Len(Captures[frame.proto])
    BY <2>1, CapturesAre
  <2>3. DOMAIN fns[f].upvalues = 1 .. Len(fns[f].upvalues)
    BY <1>3, LenProperties
  <2> QED BY <1>3, <2>2, <2>3
<1>5. CC!Top.fn = f
  BY TopIs
<1>6. Closures[f].cells[k] = upvalues[fns[f].upvalues[k]].cell
  BY <1>2, <1>4 DEF Closures
<1> QED BY <1>5, <1>6 DEF CC!CapturedCell, Upvalue

\* Closures change only with the function objects and the variables of their upvalues.
LEMMA SameClosures ==
  ASSUME TypeOK, fns' = fns, \A u \in DOMAIN upvalues : upvalues'[u].cell = upvalues[u].cell
  PROVE  Closures' = Closures
<1>1. ASSUME NEW f \in DOMAIN fns, NEW k \in DOMAIN fns[f].upvalues
      PROVE  fns[f].upvalues[k] \in DOMAIN upvalues
  <2>1. fns \in Seq([proto : Protos, upvalues : Seq(DOMAIN upvalues)])
    BY DEF TypeOK, FnTypes
  <2>2. fns[f] \in [proto : Protos, upvalues : Seq(DOMAIN upvalues)]
    BY <2>1, LenProperties, ElementOfSeq
  <2> DEFINE ups == fns[f].upvalues
  <2>3. ups \in Seq(DOMAIN upvalues)
    BY <2>2
  <2> HIDE DEF ups
  <2>4. \A i \in DOMAIN ups : ups[i] \in DOMAIN upvalues
    BY <2>3, LenProperties, ElementOfSeq
  <2> QED BY <2>4 DEF ups
<1>2. ASSUME NEW f \in DOMAIN fns
      PROVE  [k \in DOMAIN fns[f].upvalues |-> upvalues'[fns[f].upvalues[k]].cell]
               = [k \in DOMAIN fns[f].upvalues |-> upvalues[fns[f].upvalues[k]].cell]
  BY <1>1
<1> QED BY <1>2 DEF Closures

\* A store to a local variable changes no temporary.
LEMMA SlotIsNoTemp ==
  ASSUME TypeOK, Stacked, UNCHANGED frames,
         NEW k \in DOMAIN frames, NEW i \in 0 .. FrameSize[frames[k].proto] - 1,
         stack' \in Seq(Values), Len(stack') = Len(stack),
         \A s \in 1 .. Len(stack) : s # frames[k].base + i + 1 => stack'[s] = stack[s]
  PROVE  Activations' = Activations
<1> DEFINE n == Len(frames)
           l == Len(stack)
           x == frames[k].base + i + 1
           top(j) == IF j = n THEN l ELSE frames[j + 1].base - 1
<1>1. /\ n \in Nat \ {0} /\ DOMAIN frames = 1 .. n /\ n \in DOMAIN frames
      /\ stack \in Seq(Values) /\ l \in Nat /\ frame = frames[n]
  BY FramesAre DEF TypeOK, StackType
<1>2. x \in Nat /\ frames[k].base < x /\ x <= End(k)
  <2> DEFINE b == frames[k].base
             f == FrameSize[frames[k].proto]
  <2>1. b \in Nat /\ f \in Nat /\ End(k) = b + f /\ i \in 0 .. f - 1
    BY FramesAre DEF End
  <2> HIDE DEF b, f
  <2>2. b + i + 1 \in Nat /\ b < b + i + 1 /\ b + i + 1 <= b + f
    BY <2>1
  <2> QED BY <2>1, <2>2 DEF b
<1>3. ASSUME NEW j \in DOMAIN frames
      PROVE  TempsOf(j)' = TempsOf(j)
  <2> DEFINE m == End(j)
             t == top(j)
  <2>1. TempsOf(j) = SubSeq(stack, m + 1, t) /\ TempsOf(j)' = SubSeq(stack', m + 1, t)
    BY DEF TempsOf, FirstTemp, End
  <2>2. m \in Nat /\ t \in Nat /\ m <= t /\ t <= l /\ \A s \in m + 1 .. t : s # x
    <3>1. CASE j = n
      <4>1. m \in Nat /\ m <= l /\ t = l
        BY <1>1, <3>1, FramesAre DEF Stacked
      <4>2. End(k) <= m
        <5>1. k = n \/ k < n
          <6>1. k \in 1 .. n
            BY <1>1
          <6> HIDE DEF n
          <6> QED BY <1>1, <6>1
        <5>2. k < n => End(k) < frames[n].base
          BY <1>1 DEF Stacked
        <5>3. End(k) \in Nat /\ frames[n].base \in Nat /\ FrameSize[frames[n].proto] \in Nat
          BY <1>1, FramesAre
        <5> DEFINE a == frames[n].base
                   b == FrameSize[frames[n].proto]
                   c == End(k)
        <5>4. m = a + b
          BY <3>1 DEF End
        <5>5. k = n => c = m
          BY <3>1
        <5> HIDE DEF a, b, c, m, n
        <5> QED BY <5>1, <5>2, <5>3, <5>4, <5>5 DEF a, b, c
      <4>3. End(k) \in Nat
        BY FramesAre
      <4> HIDE DEF m, t, x, l
      <4> QED BY <1>1, <1>2, <4>1, <4>2, <4>3
    <3>2. CASE j # n
      <4>1. j \in 1 .. n - 1
        <5> HIDE DEF n
        <5> QED BY <1>1, <3>2
      <4> DEFINE b == frames[j + 1].base
      <4>2. /\ m \in Nat /\ t \in Nat /\ m <= t /\ b <= l /\ t = b - 1
        BY <3>2, <4>1, LowerSegment
      <4>3. j + 1 \in DOMAIN frames /\ k \in 1 .. n
        <5> HIDE DEF n
        <5> QED BY <1>1, <4>1
      <4>4. b \in Nat /\ End(k) \in Nat /\ frames[k].base \in Nat /\ End(j + 1) \in Nat
        BY <4>3, FramesAre
      <4>5. End(k) <= m \/ b <= frames[k].base
        <5>1. k < j \/ k = j \/ k = j + 1 \/ j + 1 < k
          <6> HIDE DEF n
          <6> QED BY <1>1, <4>1, <4>3
        <5>2. CASE k < j
          <6>1. End(k) < frames[j].base
            BY <5>2 DEF Stacked
          <6> DEFINE bj == frames[j].base
                     fj == FrameSize[frames[j].proto]
                     c == End(k)
          <6>2. bj \in Nat /\ fj \in Nat /\ m = bj + fj /\ c \in Nat /\ c < bj
            BY <6>1, FramesAre DEF End
          <6> HIDE DEF bj, fj, m, c
          <6>3. c <= m
            BY <6>2
          <6> QED BY <6>3 DEF c
        <5>3. CASE k = j
          BY <4>2, <5>3
        <5>4. CASE k = j + 1
          BY <4>4, <5>4
        <5>5. CASE j + 1 < k
          <6>1. End(j + 1) < frames[k].base
            BY <4>3, <5>5 DEF Stacked
          <6> DEFINE f == FrameSize[frames[j + 1].proto]
                     c == frames[k].base
          <6>2. f \in Nat /\ b \in Nat /\ b + f < c /\ c \in Nat
            BY <4>3, <6>1, FramesAre DEF End
          <6> HIDE DEF f, b, c
          <6>3. b <= c
            BY <6>2
          <6> QED BY <6>3 DEF b, c
        <5> QED BY <5>1, <5>2, <5>3, <5>4, <5>5
      <4> DEFINE c == End(k)
                 d == frames[k].base
      <4> HIDE DEF m, t, x, l, b, c, d
      <4>6. /\ m \in Nat /\ t \in Nat /\ m <= t /\ b <= l /\ t = b - 1 /\ b \in Nat
            /\ c \in Nat /\ d \in Nat /\ (c <= m \/ b <= d)
            /\ x \in Nat /\ d < x /\ x <= c /\ l \in Nat
        BY <1>1, <1>2, <4>2, <4>4, <4>5 DEF b, c, d
      <4> QED BY <4>6
    <3> QED BY <3>1, <3>2
  <2>3. \A s \in m + 1 .. t : stack'[s] = stack[s]
    <3> HIDE DEF m, t, x
    <3> TAKE s \in m + 1 .. t
    <3>1. s \in 1 .. l /\ s # x
      <4> HIDE DEF l
      <4> QED BY <1>1, <2>2
    <3> QED BY <3>1 DEF x
  <2> HIDE DEF m, t
  <2>4. t <= Len(stack')
    BY <2>2
  <2>5. SubSeq(stack', m + 1, t) = SubSeq(stack, m + 1, t)
    BY SMTT(30), <1>1, <2>2, <2>3, <2>4, SameSegment
  <2> QED BY <2>1, <2>5
<1> QED BY <1>3 DEF Activations

-----------------------------------------------------------------------------
(* Every action is a step of ClosureCells or changes none of its variables.*)

\* Pushing a value.
LEMMA PushMaps ==
  ASSUME TypeOK, Stacked, NEW T, stack \in Seq(T), NEW v \in T, Push(v), UNCHANGED frames
  PROVE  CC!Push(v)
<1> DEFINE l == Len(stack)
           e == End(Len(frames))
           m == FirstTemp(frame)
<1>1. /\ stack' \in Seq(T) /\ Len(stack') = l + 1 /\ stack'[l + 1] = v
      /\ \A s \in 1 .. l : stack'[s] = stack[s]
  BY AppendHolds DEF Push
<1>2. l \in Nat /\ e \in Nat /\ e <= l
  BY FramesAre DEF Stacked
<1>3. /\ m = e + 1 /\ TopTemps = SubSeq(stack, e + 1, l)
      /\ Len(TopTemps) = Temps
  BY TopTempsAre
<1>4. TopTemps' = SubSeq(stack', e + 1, Len(stack'))
  <2>1. TopTemps' = SubSeq(stack', m, Len(stack'))
    BY DEF TopTemps, FirstTemp, frame
  <2> HIDE DEF m, e
  <2> QED BY <1>3, <2>1
<1>5. \A s \in 1 .. e : stack'[s] = stack[s]
  <2> HIDE DEF e, l
  <2> QED BY <1>1, <1>2
<1>6. Len(stack') >= e
  <2> HIDE DEF e, l
  <2> QED BY <1>1, <1>2
<1>7. Activations' = CC!SetTemps(Activations, TopTemps')
  BY <1>1, <1>5, <1>6, OnlyTopTempsChange
<1>8. TopTemps' = Append(TopTemps, v)
  <2> HIDE DEF e, l
  <2>1. \A s \in e + 1 .. l : stack'[s] = stack[s]
    BY <1>1, <1>2
  <2>2. l <= l
    BY <1>2
  <2>3. SubSeq(stack', e + 1, Len(stack')) = Append(SubSeq(stack, e + 1, l), stack'[Len(stack')])
    BY ZenonT(60), <1>1, <1>2, <2>1, <2>2, SegmentExtended DEF l
  <2> QED BY <1>1, <1>3, <1>4, <2>3
<1>9. CC!Top.temps = TopTemps
  BY TopIs
<1>10. Temps < MaxTemps
  BY DEF Push
<1> QED BY <1>3, <1>7, <1>8, <1>9, <1>10 DEF CC!Push

\* An instruction that changes only temporaries leaves variables and closures alone.
LEMMA CellsUnchanged ==
  ASSUME TypeOK, UNCHANGED heap, UNCHANGED history
  PROVE  UNCHANGED <<acts, mem, Closures>>
<1>1. fns' = fns /\ upvalues' = upvalues /\ acts' = acts /\ mem' = mem
  BY DEF heap, history
<1> QED BY <1>1, SameClosures

LEMMA PushConstMaps ==
  ASSUME IInv, NEW v \in Literals, PushConst(v)
  PROVE  CC!Literal(v)
<1>1. TypeOK /\ Stacked /\ stack \in Seq(Values) /\ v \in Values
  BY DEF IInv, TypeOK, StackType, Values
<1>2. Push(v) /\ UNCHANGED frames /\ UNCHANGED heap /\ UNCHANGED history
  BY DEF PushConst
<1> QED BY <1>1, <1>2, PushMaps, CellsUnchanged DEF CC!Literal

LEMMA LoadLocalMaps ==
  ASSUME IInv, NEW i \in 0 .. FrameSize[frame.proto] - 1, LoadLocal(i)
  PROVE  CC!Load(CC!LocalCell(i))
<1> DEFINE v == stack[frame.base + i + 1]
<1>1. TypeOK /\ Stacked /\ LocalsKept /\ stack \in Seq(Values)
  BY DEF IInv, TypeOK, StackType
<1>2. Len(frames) \in DOMAIN frames /\ frame = frames[Len(frames)]
  BY <1>1, FramesAre
<1>3. v \in Values
  BY <1>1, <1>2, LocalsAreApart, ElementOfSeq
<1>4. v = mem[<<frame.act, i>>]
  BY <1>1, <1>2 DEF LocalsKept
<1>5. CC!LocalCell(i) = <<frame.act, i>>
  BY <1>1, TopIs DEF CC!LocalCell
<1>6. Push(v) /\ UNCHANGED frames /\ UNCHANGED heap /\ UNCHANGED history
  BY DEF LoadLocal
<1> HIDE DEF v
<1>7. CC!Push(v) /\ UNCHANGED <<acts, mem, Closures>>
  BY <1>1, <1>3, <1>6, PushMaps, CellsUnchanged
<1> QED BY <1>4, <1>5, <1>7 DEF CC!Load

LEMMA LoadUpvalueMaps ==
  ASSUME IInv, VariablesKeepTheirValues, NEW k \in DOMAIN Captures[frame.proto], LoadUpvalue(k)
  PROVE  CC!Load(CC!CapturedCell(k))
<1> DEFINE up == upvalues[Upvalue(k)]
           v == IF up.isClosed THEN up.closed ELSE stack[up.stackSlot + 1]
<1>1. TypeOK /\ Stacked /\ Running /\ Owned /\ stack \in Seq(Values)
  BY DEF IInv, TypeOK, StackType
<1>2. Upvalue(k) \in DOMAIN upvalues
  BY <1>1, UpvalueExists
<1>3. v \in Values
  BY <1>1, <1>2, UpvaluesAre, OpenIsOnStack, ElementOfSeq
<1>4. v = mem[CC!CapturedCell(k)]
  BY <1>1, <1>2, CapturedCellIs DEF VariablesKeepTheirValues
<1>5. Push(v) /\ UNCHANGED frames /\ UNCHANGED heap /\ UNCHANGED history
  BY DEF LoadUpvalue
<1> HIDE DEF v
<1>6. CC!Push(v) /\ UNCHANGED <<acts, mem, Closures>>
  BY <1>1, <1>3, <1>5, PushMaps, CellsUnchanged
<1> QED BY <1>4, <1>6 DEF CC!Load

LEMMA PopTopMaps ==
  ASSUME IInv, PopTop
  PROVE  CC!Drop
<1> DEFINE l == Len(stack)
           e == End(Len(frames))
           m == FirstTemp(frame)
<1>1. TypeOK /\ Stacked /\ stack \in Seq(Values)
  BY DEF IInv, TypeOK, StackType
<1>2. /\ l \in Nat /\ e \in Nat /\ m = e + 1 /\ TopTemps = SubSeq(stack, e + 1, l)
      /\ TopTemps \in Seq(Values) /\ Temps = l - e /\ Len(TopTemps) = Temps
  BY <1>1, FramesAre, TopTempsAre
<1>3. /\ Temps > 0 /\ stack' = Front(stack)
      /\ UNCHANGED frames /\ UNCHANGED heap /\ UNCHANGED history
  BY DEF PopTop, Pop
<1>4. stack # << >>
  BY <1>1, <1>3, PeekIsValue
<1>5. /\ stack' \in Seq(Values) /\ Len(stack') = l - 1
      /\ \A s \in 1 .. l - 1 : stack'[s] = stack[s]
  BY <1>1, <1>3, <1>4, FrontIsPrefix
<1>6. TopTemps' = SubSeq(stack', e + 1, Len(stack'))
  <2>1. TopTemps' = SubSeq(stack', m, Len(stack'))
    BY <1>3 DEF TopTemps, FirstTemp, frame
  <2> HIDE DEF m, e
  <2> QED BY <1>2, <2>1
<1> HIDE DEF l, e, m
<1>7. l - 1 \in Nat /\ e <= l - 1 /\ l - 1 <= l /\ l - 1 - e = Temps - 1
  BY <1>2, <1>3
<1>8. Len(stack') >= e /\ \A s \in 1 .. e : stack'[s] = stack[s]
  BY <1>2, <1>5, <1>7
<1>9. Activations' = CC!SetTemps(Activations, TopTemps')
  BY <1>1, <1>3, <1>5, <1>8, OnlyTopTempsChange DEF e
<1>10. TopTemps' = Front(TopTemps)
  <2> DEFINE j == l - 1
  <2> HIDE DEF j
  <2>1. j \in Nat /\ e <= j /\ j <= l /\ j - e = Temps - 1 /\ Len(stack') = j
    BY <1>5, <1>7 DEF j
  <2>2. \A s \in e + 1 .. j : stack'[s] = stack[s]
    BY <1>2, <1>5, <2>1 DEF j
  <2>3. SubSeq(stack', e + 1, j) = SubSeq(stack, e + 1, j)
    BY <1>1, <1>2, <1>5, <2>1, <2>2, SameSegment DEF l
  <2>4. SubSeq(SubSeq(stack, e + 1, l), 1, j - e) = SubSeq(stack, e + 1, j)
    BY <1>1, <1>2, <2>1, PrefixOfSegment DEF l
  <2>5. SubSeq(TopTemps, 1, Len(TopTemps) - 1) = SubSeq(stack, e + 1, j)
    BY <1>2, <2>1, <2>4
  <2> QED BY <1>6, <2>1, <2>3, <2>5 DEF Front
<1>11. CC!Top.temps = TopTemps /\ TopTemps # << >>
  <2>1. CC!Top.temps = TopTemps
    BY <1>1, TopIs
  <2>2. Len(TopTemps) > 0
    BY <1>2, <1>3
  <2> QED BY <2>1, <2>2, EmptySeq
<1>12. UNCHANGED <<acts, mem, Closures>>
  BY <1>1, <1>3, CellsUnchanged
<1> QED BY <1>9, <1>10, <1>11, <1>12 DEF CC!Drop, CC!Front, Front

\* The value a store takes is the last temporary.
LEMMA PeekIsLastTemp ==
  ASSUME TypeOK, Stacked, Temps > 0
  PROVE  CC!Top.temps # << >> /\ CC!Last(CC!Top.temps) = Peek
<1> DEFINE l == Len(stack)
           e == End(Len(frames))
<1>1. /\ l \in Nat /\ e \in Nat /\ Temps \in Nat /\ Temps = l - e /\ Len(TopTemps) = Temps
      /\ \A i \in 1 .. Temps : TopTemps[i] = stack[e + i]
      /\ TopTemps \in Seq(Values)
  BY FramesAre, TopTempsAre
<1>2. Peek = stack[l]
  BY DEF Peek, Last
<1> HIDE DEF l, e
<1>3. Temps \in 1 .. Temps /\ e + Temps = l
  BY <1>1
<1>4. TopTemps[Len(TopTemps)] = Peek
  BY <1>1, <1>2, <1>3
<1>5. TopTemps # << >>
  BY <1>1, EmptySeq
<1>6. CC!Top.temps = TopTemps
  BY TopIs
<1> QED BY <1>4, <1>5, <1>6 DEF CC!Last

LEMMA StoreLocalMaps ==
  ASSUME IInv, NEW i \in 0 .. FrameSize[frame.proto] - 1, StoreLocal(i)
  PROVE  CC!Store(CC!LocalCell(i))
<1> DEFINE x == frame.base + i + 1
           n == Len(frames)
<1>1. TypeOK /\ Stacked /\ stack \in Seq(Values)
  BY DEF IInv, TypeOK, StackType
<1>2. n \in DOMAIN frames /\ frame = frames[n]
  BY <1>1, FramesAre
<1>3. /\ Temps > 0 /\ stack' = [stack EXCEPT ![x] = Peek]
      /\ mem' = [mem EXCEPT ![<<frame.act, i>>] = Peek]
      /\ UNCHANGED frames /\ UNCHANGED heap /\ UNCHANGED acts
  BY DEF StoreLocal
<1>4. x \in 1 .. Len(stack) /\ Peek \in Values
  BY <1>1, <1>2, <1>3, LocalsAreApart, PeekIsValue
<1>5. /\ stack' \in Seq(Values) /\ Len(stack') = Len(stack)
      /\ \A s \in 1 .. Len(stack) : s # x => stack'[s] = stack[s]
  <2> HIDE DEF x
  <2> QED BY <1>1, <1>3, <1>4, ExceptSeq
<1>6. Activations' = Activations
  BY <1>1, <1>2, <1>3, <1>5, SlotIsNoTemp
<1>7. Closures' = Closures
  <2>1. fns' = fns /\ upvalues' = upvalues
    BY <1>3 DEF heap
  <2> QED BY <1>1, <2>1, SameClosures
<1>8. CC!LocalCell(i) = <<frame.act, i>>
  BY <1>1, TopIs DEF CC!LocalCell
<1>9. CC!Top.temps # << >> /\ CC!Last(CC!Top.temps) = Peek
  BY <1>1, <1>3, PeekIsLastTemp
<1> QED BY <1>3, <1>6, <1>7, <1>8, <1>9 DEF CC!Store

LEMMA StoreUpvalueMaps ==
  ASSUME IInv, NEW k \in DOMAIN Captures[frame.proto], StoreUpvalue(k)
  PROVE  CC!Store(CC!CapturedCell(k))
<1> DEFINE u == Upvalue(k)
<1>1. TypeOK /\ Stacked /\ Running /\ Owned /\ stack \in Seq(Values)
  BY DEF IInv, TypeOK, StackType
<1>2. u \in DOMAIN upvalues
  BY <1>1, UpvalueExists
<1>3. /\ Temps > 0
      /\ mem' = [mem EXCEPT ![upvalues[u].cell] = Peek]
      /\ UNCHANGED <<frames, openUpvalues, fns, loops, acts>>
      /\ IF upvalues[u].isClosed
         THEN upvalues' = [upvalues EXCEPT ![u].closed = Peek] /\ stack' = stack
         ELSE stack' = [stack EXCEPT ![upvalues[u].stackSlot + 1] = Peek] /\ upvalues' = upvalues
  BY DEF StoreUpvalue
<1> HIDE DEF u
<1>4. Peek \in Values
  BY <1>1, <1>3, PeekIsValue
<1>5. Activations' = Activations
  <2>1. CASE upvalues[u].isClosed
    BY <1>3, <2>1 DEF Activations, TempsOf, FirstTemp
  <2>2. CASE ~upvalues[u].isClosed
    <3> DEFINE x == upvalues[u].stackSlot + 1
    <3>1. PICK j \in DOMAIN frames :
            /\ upvalues[u].cell[2] \in 0 .. FrameSize[frames[j].proto] - 1
            /\ x = frames[j].base + upvalues[u].cell[2] + 1
      BY <1>1, <1>2, <2>2, OpenIsOnStack
    <3>2. x \in 1 .. Len(stack) /\ stack' = [stack EXCEPT ![x] = Peek]
      BY <1>1, <1>2, <1>3, <2>2, OpenIsOnStack
    <3> HIDE DEF x
    <3>3. /\ stack' \in Seq(Values) /\ Len(stack') = Len(stack)
          /\ \A s \in 1 .. Len(stack) : s # x => stack'[s] = stack[s]
      BY <1>1, <1>4, <3>2, ExceptSeq
    <3> QED BY <1>1, <1>3, <3>1, <3>3, SlotIsNoTemp
  <2> QED BY <2>1, <2>2
<1>6. \A w \in DOMAIN upvalues : upvalues'[w].cell = upvalues[w].cell
  BY <1>1, <1>2, <1>3, UpvaluesAre
<1>7. Closures' = Closures
  BY <1>1, <1>3, <1>6, SameClosures
<1>8. CC!CapturedCell(k) = upvalues[u].cell
  BY <1>1, CapturedCellIs DEF u
<1>9. CC!Top.temps # << >> /\ CC!Last(CC!Top.temps) = Peek
  BY <1>1, <1>3, PeekIsLastTemp
<1> QED BY <1>3, <1>5, <1>7, <1>8, <1>9 DEF CC!Store

\* Steps inside an instruction: no variable of ClosureCells changes.
LEMMA Stutters ==
  ASSUME TypeOK, UNCHANGED <<stack, frames, fns, history>>,
         \A u \in DOMAIN upvalues : upvalues'[u].cell = upvalues[u].cell
  PROVE  UNCHANGED CC!vars
<1>1. Closures' = Closures
  BY SameClosures
<1>2. Activations' = Activations
  BY DEF Activations, TempsOf, FirstTemp
<1> QED BY <1>1, <1>2 DEF CC!vars, history

LEMMA CaptureLocalMaps ==
  ASSUME IInv, CaptureLocal
  PROVE  UNCHANGED CC!vars
<1> DEFINE new == [stackSlot |-> WantedSlot, isClosed |-> FALSE, closed |-> Garbage,
                   cell |-> <<frame.act, Capture.index>>]
           S == {upvalues[u] : u \in DOMAIN upvalues} \union {new}
<1>1. TypeOK /\ DOMAIN upvalues = 1 .. Len(upvalues) /\ Len(upvalues) \in Nat
  BY UpvaluesAre DEF IInv
<1>2. upvalues' = Append(upvalues, new) /\ UNCHANGED <<stack, frames, fns, history>>
  BY DEF CaptureLocal
<1>3. upvalues \in Seq(S) /\ new \in S
  <2>1. upvalues \in Seq([stackSlot : Nat, isClosed : BOOLEAN, closed : Values, cell : Cells])
    BY <1>1 DEF TypeOK, UpvalueTypes
  <2>2. upvalues \in [1 .. Len(upvalues) -> S]
    BY <1>1, <2>1, LenProperties
  <2> HIDE DEF S
  <2>3. upvalues \in Seq(S)
    BY <1>1, <2>2, SeqDef
  <2> QED BY <2>3 DEF S
<1> HIDE DEF S, new
<1>4. \A u \in DOMAIN upvalues : upvalues'[u] = upvalues[u]
  BY <1>1, <1>2, <1>3, AppendHolds
<1> QED BY <1>1, <1>2, <1>4, Stutters

LEMMA CloseUpvalueMaps ==
  ASSUME IInv, CloseUpvalue
  PROVE  UNCHANGED CC!vars
<1> DEFINE u == openUpvalues[at]
<1>1. TypeOK
  BY DEF IInv
<1>2. /\ upvalues' = [upvalues EXCEPT ![u].isClosed = TRUE,
                                      ![u].closed = stack[upvalues[u].stackSlot + 1]]
      /\ UNCHANGED <<stack, frames, fns, history>>
  BY DEF CloseUpvalue
<1>3. \A w \in DOMAIN upvalues :
        upvalues[w] \in [stackSlot : Nat, isClosed : BOOLEAN, closed : Values, cell : Cells]
  BY <1>1, UpvaluesAre
<1> HIDE DEF u
<1>4. \A w \in DOMAIN upvalues : upvalues'[w].cell = upvalues[w].cell
  BY <1>2, <1>3
<1> QED BY <1>1, <1>2, <1>4, Stutters

\* The last step of MAKE_CLOSURE makes the whole closure.
LEMMA PushClosureMaps ==
  ASSUME IInv, Prepared, PushClosure
  PROVE  \E p \in Protos \ {Main} : CC!MakeClosure(p)
<1> DEFINE F == Len(fns)
           Type == [proto : Protos, upvalues : Seq(DOMAIN upvalues)]
           p == making.proto
           ups == making.upvalues
           cells == [k \in DOMAIN Captures[p] |->
                       IF Captures[p][k].isLocal THEN CC!LocalCell(Captures[p][k].index)
                                                 ELSE CC!CapturedCell(Captures[p][k].index + 1)]
           new == [proto |-> p, cells |-> cells]
<1>1. TypeOK /\ Stacked /\ Running /\ InLoop /\ stack \in Seq(Values)
  BY DEF IInv, TypeOK, StackType
<1>2. /\ pc = "make" /\ Len(ups) = Len(Captures[p])
      /\ fns' = Append(fns, making) /\ Push(Fn(F + 1))
      /\ UNCHANGED <<frames, upvalues, openUpvalues, acts, mem>>
  BY DEF PushClosure, history
<1>3. /\ p # Main /\ F < MaxClosures
      /\ \A k \in DOMAIN ups : upvalues[ups[k]].cell = GivenCell(Captures[p][k])
  BY <1>2 DEF Prepared, Filling
<1>4. making \in Type /\ fns \in Seq(Type)
  BY <1>1 DEF TypeOK, LoopTypes, FnTypes
<1>5. p \in Protos /\ ups \in Seq(DOMAIN upvalues)
  BY <1>4
<1>6. ParentOf[p] = frame.proto /\ CC!Top.proto = frame.proto
  BY <1>1, <1>2, FramesAre, TopIs DEF InLoop
<1>7. DOMAIN ups = DOMAIN Captures[p]
  BY <1>2, <1>5, CapturesAre, LenProperties
<1>8. ASSUME NEW k \in DOMAIN ups
      PROVE  upvalues[ups[k]].cell = cells[k]
  <2>1. upvalues[ups[k]].cell = GivenCell(Captures[p][k])
    BY SMTT(30), <1>3
  <2>2. CASE Captures[p][k].isLocal
    BY <1>1, <1>7, <2>1, <2>2, TopIs DEF GivenCell, CC!LocalCell
  <2>3. CASE ~Captures[p][k].isLocal
    <3>1. Captures[p][k].index + 1 \in DOMAIN Captures[frame.proto]
      BY <1>5, <1>6, <1>7, <2>3, CapturesAre
    <3> DEFINE i == Captures[p][k].index + 1
    <3> HIDE DEF i
    <3>2. CC!CapturedCell(i) = upvalues[Upvalue(i)].cell
      BY <1>1, <3>1, CapturedCellIs DEF i
    <3> QED BY <1>7, <2>1, <2>3, <3>2 DEF GivenCell, i
  <2> QED BY <2>2, <2>3
<1>9. [k \in DOMAIN ups |-> upvalues[ups[k]].cell] = cells
  BY <1>7, <1>8
<1> HIDE DEF Type, F, cells, p, ups
<1>10. /\ F \in Nat /\ DOMAIN fns = 1 .. F /\ DOMAIN fns' = 1 .. F + 1
       /\ \A f \in 1 .. F : fns'[f] = fns[f]
       /\ fns'[F + 1] = making
  BY <1>2, <1>4, AppendHolds, LenProperties DEF F
<1>11. Closures' = Append(Closures, new)
  <2> DEFINE C == Closures
             D == Closures'
  <2>1. C = [f \in 1 .. F |-> C[f]] /\ D = [f \in 1 .. F + 1 |-> D[f]]
    BY <1>10 DEF Closures
  <2>2. \A f \in 1 .. F : D[f] = C[f]
    BY <1>2, <1>10 DEF Closures
  <2>3. D[F + 1] = new
    <3>1. F + 1 \in DOMAIN fns' /\ upvalues' = upvalues
      BY <1>2, <1>10
    <3>2. D[F + 1] = [proto |-> fns'[F + 1].proto,
                      cells |-> [k \in DOMAIN fns'[F + 1].upvalues |->
                                   upvalues[fns'[F + 1].upvalues[k]].cell]]
      BY <3>1 DEF Closures
    <3>3. fns'[F + 1].proto = p /\ fns'[F + 1].upvalues = ups
      BY <1>10 DEF p, ups
    <3> QED BY <1>9, <3>2, <3>3
  <2> HIDE DEF C, D, new
  <2>4. \A t : /\ t = [k \in 1 .. F + 1 |-> t[k]]
               /\ \A k \in 1 .. F : t[k] = C[k]
               => t = Append(C, t[F + 1])
    BY ONLY ZenonT(60), <1>10, <2>1, OneMore
  <2>5. D = Append(C, D[F + 1])
    BY <2>1, <2>2, <2>4
  <2> QED BY <2>3, <2>5 DEF C, D
<1>12. Len(Closures) = F
  <2> DEFINE C == Closures
  <2>1. C = [f \in 1 .. F |-> C[f]]
    BY <1>10 DEF Closures
  <2> HIDE DEF C
  <2>2. Len(C) = F
    BY ONLY <1>10, <2>1, OneMore
  <2> QED BY <2>2 DEF C
<1>13. CC!Push(Fn(F + 1))
  <2> DEFINE v == Fn(F + 1)
             T == Values \union {v}
  <2>1. stack \in Seq(T) /\ v \in T
    BY <1>1, SeqGrows
  <2>2. UNCHANGED frames
    BY <1>2
  <2> HIDE DEF v, T
  <2>3. Push(v)
    BY <1>2 DEF v
  <2> QED BY <1>1, <2>1, <2>2, <2>3, PushMaps DEF v
<1>14. CC!MakeClosure(p)
  BY <1>2, <1>3, <1>6, <1>11, <1>12, <1>13 DEF CC!MakeClosure, CC!Fn, Fn, cells, F
<1> QED BY <1>3, <1>5, <1>14 DEF p

\* The callee and its arguments are the last temporaries.
LEMMA CalleeIs ==
  ASSUME TypeOK, Stacked, NEW n \in Nat, Temps > n
  PROVE  /\ Len(stack) - n - 1 \in Nat /\ End(Len(frames)) <= Len(stack) - n - 1
         /\ Len(CC!Top.temps) > n
         /\ CC!Callee(n) = Callee(n)
         /\ CC!Below(n) = SubSeq(stack, End(Len(frames)) + 1, Len(stack) - n - 1)
         /\ Len(CC!Args(n)) = n
         /\ \A i \in 1 .. n : CC!Args(n)[i] = stack[Len(stack) - n + i]
<1> DEFINE l == Len(stack)
           e == End(Len(frames))
           j == l - n - 1
           d == Temps - n
<1>1. /\ l \in Nat /\ e \in Nat /\ Temps \in Nat /\ Temps = l - e
      /\ TopTemps = SubSeq(stack, e + 1, l) /\ TopTemps \in Seq(Values) /\ Len(TopTemps) = Temps
      /\ \A i \in 1 .. Temps : TopTemps[i] = stack[e + i]
      /\ CC!Top.temps = TopTemps /\ stack \in Seq(Values)
  BY FramesAre, TopTempsAre, TopIs DEF TypeOK, StackType
<1> HIDE DEF l, e
<1>2. /\ j \in Nat /\ e <= j /\ j <= l /\ j - e = Temps - n - 1
      /\ d \in Nat /\ d \in 1 .. Temps /\ d <= Temps /\ e + d = l - n
      /\ Temps - d = n
  BY <1>1
<1>3. CC!Callee(n) = Callee(n)
  <2>1. CC!Callee(n) = TopTemps[d]
    BY <1>1 DEF CC!Callee
  <2>2. Callee(n) = stack[e + d]
    BY <1>2 DEF Callee, l
  <2> HIDE DEF d
  <2> QED BY <1>1, <1>2, <2>1, <2>2
<1>4. CC!Below(n) = SubSeq(stack, e + 1, j)
  <2>1. CC!Below(n) = SubSeq(TopTemps, 1, Temps - n - 1)
    BY <1>1 DEF CC!Below
  <2> HIDE DEF j
  <2>2. SubSeq(SubSeq(stack, e + 1, l), 1, j - e) = SubSeq(stack, e + 1, j)
    <3>1. l <= Len(stack)
      BY <1>1 DEF l
    <3> QED BY <1>1, <1>2, <3>1, PrefixOfSegment
  <2> QED BY <1>1, <1>2, <2>1, <2>2
<1> DEFINE a == SubSeq(TopTemps, d + 1, Temps)
<1>5. CC!Args(n) = a
  BY <1>1 DEF CC!Args
<1> HIDE DEF d
<1>6. Len(a) = Temps - d /\ \A i \in 1 .. Temps - d : a[i] = TopTemps[d + i]
  <2>1. Temps <= Len(TopTemps)
    BY <1>1
  <2> QED BY <1>1, <1>2, <2>1, SegmentIs
<1> HIDE DEF a
<1>7. ASSUME NEW i \in 1 .. n
      PROVE  a[i] = stack[l - n + i]
  <2>1. i \in 1 .. Temps - d /\ d + i \in 1 .. Temps /\ e + (d + i) = l - n + i
    BY <1>1, <1>2
  <2> QED BY <1>1, <1>6, <2>1
<1> QED BY <1>1, <1>2, <1>3, <1>4, <1>5, <1>6, <1>7 DEF l, e

LEMMA CallNativeMaps ==
  ASSUME IInv, NEW n \in 0 .. MaxTemps - 1, NEW c \in Consts, CallNative(n, c)
  PROVE  CC!CallNative(n, c)
<1> DEFINE l == Len(stack)
           e == End(Len(frames))
           j == l - n - 1
           m == FirstTemp(frame)
           v == Const(c)
           T == Values \union {v}
           below == SubSeq(stack, 1, j)
<1>1. TypeOK /\ Stacked /\ n \in Nat
  BY BoundsAssumption DEF IInv
<1>2. stack \in Seq(Values) /\ stack \in Seq(T) /\ v \in T
  BY <1>1, SeqGrows DEF TypeOK, StackType
<1>3. /\ Temps > n /\ IsNative(Callee(n))
      /\ stack' = Append(below, v)
      /\ UNCHANGED frames /\ UNCHANGED heap /\ UNCHANGED history
  BY DEF CallNative
<1>4. /\ l \in Nat /\ e \in Nat /\ j \in Nat /\ e <= j /\ m = e + 1
      /\ Len(CC!Top.temps) > n /\ CC!Callee(n) = Callee(n)
      /\ CC!Below(n) = SubSeq(stack, e + 1, j)
  BY <1>1, <1>3, FramesAre, TopTempsAre, CalleeIs
<1>5. j <= l
  <2> HIDE DEF l
  <2> QED BY <1>1, <1>4
<1> HIDE DEF T, v
<1>6. below \in Seq(T) /\ Len(below) = j /\ \A s \in 1 .. j : below[s] = stack[s]
  <2> DEFINE z == 0
             r == SubSeq(stack, z + 1, j)
  <2> HIDE DEF j, z
  <2>1. z \in Nat /\ z <= j /\ z + 1 = 1 /\ j - z = j /\ \A s \in 1 .. j : z + s = s
    BY <1>4 DEF z
  <2>2. r \in Seq(T) /\ Len(r) = j - z /\ \A s \in 1 .. j - z : r[s] = stack[z + s]
    <3>1. j <= Len(stack) /\ stack \in Seq(T) /\ j \in Nat
      BY <1>2, <1>4, <1>5
    <3> QED BY ONLY <2>1, <3>1, SegmentIs
  <2>3. r = below
    BY <2>1
  <2> HIDE DEF r, below
  <2> QED BY <2>1, <2>2, <2>3
<1> HIDE DEF below
<1>7. /\ stack' \in Seq(T) /\ Len(stack') = j + 1 /\ stack'[j + 1] = v
      /\ \A s \in 1 .. j : stack'[s] = stack[s]
  BY <1>2, <1>3, <1>6, AppendHolds
<1>8. TopTemps' = SubSeq(stack', e + 1, Len(stack'))
  <2>1. TopTemps' = SubSeq(stack', m, Len(stack'))
    BY <1>3 DEF TopTemps, FirstTemp, frame
  <2> HIDE DEF m, e
  <2> QED BY <1>4, <2>1
<1> HIDE DEF e, j, m
<1>9. Len(stack') >= e /\ \A s \in 1 .. e : stack'[s] = stack[s]
  BY <1>4, <1>7
<1>10. Activations' = CC!SetTemps(Activations, TopTemps')
  BY <1>1, <1>3, <1>7, <1>9, OnlyTopTempsChange DEF e
<1>11. TopTemps' = Append(CC!Below(n), v)
  <2>1. \A s \in e + 1 .. j : stack'[s] = stack[s]
    BY <1>4, <1>7
  <2>2. SubSeq(stack', e + 1, Len(stack')) = Append(SubSeq(stack, e + 1, j), stack'[Len(stack')])
    <3> DEFINE t == stack'
    <3>1. /\ stack \in Seq(T) /\ e \in Nat /\ j \in Nat /\ e <= j /\ j <= Len(stack)
          /\ \A s \in e + 1 .. j : t[s] = stack[s]
      BY <1>2, <1>4, <1>5, <2>1 DEF l
    <3>2. t \in Seq(T) /\ Len(t) = j + 1
      BY <1>7
    <3> HIDE DEF t
    <3>3. SubSeq(t, e + 1, Len(t)) = Append(SubSeq(stack, e + 1, j), t[Len(t)])
      BY ONLY SMTT(30), <3>1, <3>2, SegmentExtended
    <3> QED BY <3>3 DEF t
  <2> QED BY <1>4, <1>7, <1>8, <2>2
<1>12. UNCHANGED <<acts, mem, Closures>>
  BY <1>1, <1>3, CellsUnchanged
<1> QED BY <1>3, <1>4, <1>10, <1>11, <1>12 DEF CC!CallNative, CC!IsNative, IsNative, CC!Const, Const, v

\* The temporaries of a frame that does not run, nor runs after the step, are kept with the
\* stack under the frame above it.
LEMMA LowerTempsKept ==
  ASSUME TypeOK, Stacked, NEW k \in 1 .. Len(frames) - 1, k # Len(frames'),
         frames'[k] = frames[k], frames'[k + 1].base = frames[k + 1].base,
         NEW T, stack' \in Seq(T), frames[k + 1].base - 1 <= Len(stack'),
         \A s \in 1 .. frames[k + 1].base - 1 : stack'[s] = stack[s]
  PROVE  TempsOf(k)' = TempsOf(k)
<1> DEFINE m == End(k)
           j == frames[k + 1].base - 1
<1>1. /\ TempsOf(k) = SubSeq(stack, m + 1, j)
      /\ m \in Nat /\ j \in Nat /\ m <= j
  BY LowerSegment
<1>2. j <= Len(stack)
  <2> DEFINE b == frames[k + 1].base
             l == Len(stack)
  <2>1. b <= l /\ l \in Nat
    BY FramesAre, LowerSegment
  <2>2. b \in Nat
    <3> DEFINE n == Len(frames)
    <3>1. k \in 1 .. n - 1
      OBVIOUS
    <3>2. n \in Nat /\ DOMAIN frames = 1 .. n
      BY FramesAre
    <3> HIDE DEF n
    <3>3. k + 1 \in DOMAIN frames
      BY <3>1, <3>2
    <3> QED BY <3>3, FramesAre
  <2>3. j = b - 1
    OBVIOUS
  <2> HIDE DEF b, l, j
  <2>4. j <= l
    BY <2>1, <2>2, <2>3
  <2> QED BY <2>4 DEF l
<1>3. TempsOf(k)' = SubSeq(stack', m + 1, j)
  BY DEF TempsOf, FirstTemp, End
<1>4. stack \in Seq(Values) /\ j <= Len(stack')
  BY DEF TypeOK, StackType
<1>5. \A s \in 1 .. j : stack'[s] = stack[s]
  OBVIOUS
<1> HIDE DEF m, j
<1>6. \A s \in m + 1 .. j : stack'[s] = stack[s]
  <2> TAKE s \in m + 1 .. j
  <2>1. s \in 1 .. j
    BY <1>1
  <2> QED BY <1>5, <2>1
<1>7. SubSeq(stack', m + 1, j) = SubSeq(stack, m + 1, j)
  BY <1>1, <1>2, <1>4, <1>6, SameSegment
<1> QED BY <1>1, <1>3, <1>7

\* The front of a sequence as a function.
LEMMA FrontIs ==
  ASSUME NEW n \in Nat \ {0}, NEW s, s = [k \in 1 .. n |-> s[k]]
  PROVE  Front(s) = [k \in 1 .. n - 1 |-> s[k]]
<1> DEFINE S == {s[k] : k \in 1 .. n}
           f == Front(s)
           t == [k \in 1 .. n - 1 |-> s[k]]
<1>1. s \in [1 .. n -> S]
  OBVIOUS
<1> HIDE DEF S
<1>2. s \in Seq(S) /\ DOMAIN s = 1 .. n
  BY <1>1, SeqDef
<1>3. Len(s) = n
  BY <1>2, LenProperties
<1>4. s # << >>
  BY <1>3, EmptySeq
<1>5. f \in Seq(S) /\ DOMAIN f = 1 .. n - 1 /\ \A i \in 1 .. n - 1 : f[i] = s[i]
  BY <1>2, <1>3, <1>4, FrontIsPrefix
<1> HIDE DEF f
<1>6. f = [k \in 1 .. n - 1 |-> f[k]]
  BY <1>5, LenProperties
<1>7. f = t
  BY <1>5, <1>6
<1> QED BY <1>7 DEF f

\* A value of the stack that is a function object is one that was made.
LEMMA CalleeExists ==
  ASSUME TypeOK, Stacked, NEW n \in Nat, Temps > n, IsFn(Callee(n))
  PROVE  Callee(n)[2] \in DOMAIN fns
<1> DEFINE l == Len(stack)
           e == End(Len(frames))
<1>1. l \in Nat /\ e \in Nat /\ l - n - 1 \in Nat
  BY FramesAre, CalleeIs
<1>2. l - n \in 1 .. l
  <2> HIDE DEF l
  <2> QED BY <1>1
<1>3. Callee(n) \in Values
  BY <1>2, FramesAre DEF Callee
<1>4. PICK g \in DOMAIN fns : Callee(n) = Fn(g)
  BY <1>3 DEF Values, Literals, Garbage, Const, Native, Fn, IsFn
<1> QED BY <1>4 DEF Fn

\* A call starts an activation whose cells are its arguments and garbage.
LEMMA CallMaps ==
  ASSUME IInv, NEW n \in 0 .. MaxTemps - 1, Call(n)
  PROVE  CC!Call(n)
<1> DEFINE F == Len(frames)
           l == Len(stack)
           e == End(F)
           f == Callee(n)[2]
           p == fns[f].proto
           size == FrameSize[p]
           base == l - n
           new == [proto |-> p, base |-> base, function |-> f, act |-> acts]
           act == [proto |-> p, act |-> acts, fn |-> f, temps |-> << >>]
           A == Activations
           B == Activations'
           C == [k \in 1 .. F |-> B[k]]
<1>1. TypeOK /\ Stacked /\ stack \in Seq(Values) /\ n \in Nat
  BY BoundsAssumption DEF IInv, TypeOK, StackType
<1>2. /\ Temps > n /\ IsFn(Callee(n)) /\ acts <= MaxCalls /\ Params[p] = n
      /\ stack' = Resize(stack, base + size)
      /\ frames' = Append(frames, new)
      /\ mem' = WithNew(NewCells(acts, base, size, stack'), mem)
      /\ acts' = acts + 1
      /\ fns' = fns /\ upvalues' = upvalues
  BY DEF Call, heap
<1>3. /\ base - 1 \in Nat /\ e <= base - 1 /\ l \in Nat /\ e \in Nat
      /\ Len(CC!Top.temps) > n /\ CC!Callee(n) = Callee(n)
      /\ CC!Below(n) = SubSeq(stack, e + 1, base - 1)
      /\ Len(CC!Args(n)) = n
      /\ \A i \in 1 .. n : CC!Args(n)[i] = stack[base + i]
  <2>1. l - n - 1 = base - 1
    OBVIOUS
  <2> QED BY <1>1, <1>2, <2>1, CalleeIs, FramesAre
<1>4. f \in DOMAIN fns
  BY <1>1, <1>2, CalleeExists
<1>5. p \in Protos /\ size \in Nat /\ n <= size
  <2>1. fns \in Seq([proto : Protos, upvalues : Seq(DOMAIN upvalues)])
    BY <1>1 DEF TypeOK, FnTypes
  <2> HIDE DEF f
  <2>2. DOMAIN fns = 1 .. Len(fns)
    BY <2>1, LenProperties
  <2>3. fns[f] \in [proto : Protos, upvalues : Seq(DOMAIN upvalues)]
    BY <1>4, <2>1, <2>2, ElementOfSeq
  <2> QED BY <1>2, <2>3, ProtosAssumption
<1>6. /\ F \in Nat \ {0} /\ DOMAIN frames = 1 .. F
      /\ DOMAIN frames' = 1 .. F + 1 /\ Len(frames') = F + 1
      /\ frames'[F + 1] = new /\ \A k \in 1 .. F : frames'[k] = frames[k]
  <2> DEFINE S == {frames[k] : k \in DOMAIN frames} \union {new}
             N == [proto : Protos, base : Nat, function : 0 .. Len(fns), act : 0 .. acts - 1]
  <2>1. frames \in Seq(N)
    BY <1>1 DEF TypeOK, FrameTypes
  <2>2. F \in Nat \ {0} /\ DOMAIN frames = 1 .. F
    BY <1>1, FramesAre
  <2> HIDE DEF N
  <2>3. frames \in [1 .. F -> S]
    BY <2>1, <2>2, LenProperties
  <2>4. new \in S
    OBVIOUS
  <2> HIDE DEF S, new, F
  <2>5. frames \in Seq(S)
    BY <2>2, <2>3, SeqDef
  <2> QED BY <1>2, <2>2, <2>4, <2>5, AppendHolds DEF F
<1>7. /\ base \in Nat /\ base + size \in Nat /\ base - 1 <= base + size /\ e <= base + size
      /\ base + n = l /\ base - 1 <= l
  <2> HIDE DEF e, size
  <2>1. n \in Nat /\ l \in Nat /\ l - n - 1 \in Nat /\ e \in Nat /\ e <= l - n - 1 /\ size \in Nat
    BY <1>1, <1>3, <1>5
  <2> HIDE DEF l
  <2> QED BY <2>1
<1>8. /\ stack' \in Seq(Values) /\ Len(stack') = base + size
      /\ \A s \in 1 .. base + size : stack'[s] = IF s <= l THEN stack[s] ELSE Garbage
  <2> HIDE DEF base, size
  <2>1. Garbage \in Values
    BY DEF Values
  <2> QED BY <1>1, <1>2, <1>7, <2>1, ResizeIs
<1>9. \A s \in 1 .. base - 1 : stack'[s] = stack[s]
  <2> HIDE DEF base, size, l
  <2>1. l \in Nat
    BY <1>3
  <2> QED BY <1>7, <1>8, <2>1
<1>10. A = [k \in 1 .. F |-> A[k]] /\ B = [k \in 1 .. F + 1 |-> B[k]]
  BY <1>6 DEF Activations
<1>11. ASSUME NEW k \in 1 .. F - 1
       PROVE  B[k] = A[k]
  <2> DEFINE b == frames[k + 1].base
  <2>1. /\ k \in 1 .. F /\ k + 1 \in 1 .. F /\ k # F + 1 /\ k \in 1 .. F + 1
    <3> HIDE DEF F
    <3> QED BY <1>6
  <2>2. b <= e /\ b \in Nat
    <3>1. k + 1 \in DOMAIN frames
      BY <1>6, <2>1
    <3> QED BY <1>1, <3>1, LowerSegment, FramesAre
  <2>3. b - 1 <= Len(stack') /\ \A s \in 1 .. b - 1 : s \in 1 .. base - 1
    <3> HIDE DEF b, e, base, size
    <3> QED BY SMTT(30), <1>3, <1>7, <1>8, <2>2
  <2>4. \A s \in 1 .. b - 1 : stack'[s] = stack[s]
    BY <1>9, <2>3
  <2>5. frames'[k] = frames[k] /\ frames'[k + 1].base = b
    BY <1>6, <2>1
  <2>6. k # Len(frames')
    BY <1>6, <2>1
  <2>7. TempsOf(k)' = TempsOf(k)
    BY <1>1, <1>8, <2>3, <2>4, <2>5, <2>6, LowerTempsKept
  <2> QED BY <1>6, <2>1, <2>5, <2>7 DEF Activations
<1>12. F \in 1 .. F /\ F + 1 \in 1 .. F + 1 /\ F \in 1 .. F + 1 /\ F # F + 1
  <2> HIDE DEF F
  <2> QED BY <1>6
<1>13. B[F] = [A[F] EXCEPT !.temps = CC!Below(n)]
  <2>1. PICK k \in Nat : k = F
    BY <1>6
  <2>2. TempsOf(k)' = SubSeq(stack', e + 1, base - 1)
    <3>1. frames'[k] = frames[k] /\ frames'[k + 1].base = base /\ k # Len(frames')
      <4>1. new.base = base
        OBVIOUS
      <4> HIDE DEF F, new, base
      <4>2. k + 1 = F + 1 /\ frames'[F + 1] = new /\ Len(frames') = F + 1 /\ frames'[F] = frames[F] /\ F # F + 1
        BY <1>6, <1>12, <2>1
      <4> QED BY <2>1, <4>1, <4>2
    <3>2. FirstTemp(frames[k]) = e + 1
      BY <2>1 DEF FirstTemp, End
    <3>3. TempsOf(k)' = SubSeq(stack', FirstTemp(frames'[k]), frames'[k + 1].base - 1)
      BY <3>1 DEF TempsOf, FirstTemp
    <3> QED BY <3>1, <3>2, <3>3
  <2>3. \A s \in e + 1 .. base - 1 : stack'[s] = stack[s]
    <3> TAKE s \in e + 1 .. base - 1
    <3>1. s \in 1 .. base - 1
      <4> HIDE DEF e, base
      <4> QED BY <1>3
    <3> QED BY <1>9, <3>1
  <2>4. SubSeq(stack', e + 1, base - 1) = SubSeq(stack, e + 1, base - 1)
    <3> DEFINE j == base - 1
    <3>1. j \in Nat /\ e \in Nat /\ e <= j /\ j <= Len(stack) /\ j <= Len(stack')
      BY <1>3, <1>7, <1>8
    <3>2. \A s \in e + 1 .. j : stack'[s] = stack[s]
      BY <2>3
    <3> HIDE DEF j, e
    <3>3. SubSeq(stack', e + 1, j) = SubSeq(stack, e + 1, j)
      BY <1>1, <1>8, <3>1, <3>2, SameSegment
    <3> QED BY <3>3 DEF j
  <2>5. TempsOf(k)' = CC!Below(n)
    BY <1>3, <2>2, <2>4
  <2>6. k \in DOMAIN frames /\ k \in DOMAIN frames' /\ frames'[k] = frames[k]
    BY <1>6, <1>12, <2>1
  <2>7. B[k] = [A[k] EXCEPT !.temps = CC!Below(n)]
    BY <2>5, <2>6 DEF Activations
  <2> QED BY <2>1, <2>7
<1>14. B[F + 1] = act
  <2>0. PICK k \in Nat : k = F + 1
    BY <1>6
  <2>1. TempsOf(k)' = SubSeq(stack', FirstTemp(new), base + size)
    <3>1. frames'[k] = new /\ k = Len(frames')
      BY <1>6, <2>0
    <3> QED BY <1>8, <3>1 DEF TempsOf, FirstTemp
  <2>2. FirstTemp(new) = base + size + 1
    BY DEF FirstTemp
  <2>3. SubSeq(stack', base + size + 1, base + size) = << >>
    <3> DEFINE j == base + size
    <3>1. j \in Nat /\ j + 1 \in Int /\ j \in Int /\ j < j + 1
      BY SMTT(30), <1>7
    <3> HIDE DEF j
    <3>2. SubSeq(stack', j + 1, j) = << >>
      BY <3>1, SubSeqEmpty
    <3> QED BY <3>2 DEF j
  <2>4. TempsOf(k)' = << >>
    BY SMTT(30), <2>1, <2>2, <2>3
  <2>5. k \in DOMAIN frames' /\ frames'[k] = new
    BY <1>6, <1>12, <2>0
  <2>6. B[k] = act
    BY <2>4, <2>5 DEF Activations
  <2> QED BY <2>0, <2>6
<1>15. B = Append(CC!SetTemps(A, CC!Below(n)), act)
  <2> HIDE DEF A, B, F
  <2>1. C = [k \in 1 .. F |-> C[k]] /\ C[F] = B[F] /\ \A k \in 1 .. F - 1 : C[k] = A[k]
    <3>1. \A k \in 1 .. F - 1 : k \in 1 .. F
      BY <1>6
    <3> QED BY <1>11, <1>12, <3>1
  <2>2. \A k \in 1 .. F : B[k] = C[k]
    OBVIOUS
  <2> HIDE DEF C
  <2>3. C = Append(Front(A), C[F]) /\ Last(A) = A[F]
    <3>1. A = [k \in 1 .. F |-> A[k]]
      BY <1>10
    <3>2. F \in Nat \ {0}
      BY <1>6
    <3> QED BY ONLY ZenonT(60), <2>1, <3>1, <3>2, LastReplaced
  <2>4. B = Append(C, B[F + 1])
    <3>1. \A t : /\ t = [k \in 1 .. F + 1 |-> t[k]]
                 /\ \A k \in 1 .. F : t[k] = C[k]
                 => t = Append(C, t[F + 1])
      <4>1. F \in Nat /\ C = [k \in 1 .. F |-> C[k]]
        BY <1>6, <2>1
      <4> QED BY ONLY SMTT(30), <4>1, OneMore
    <3> QED BY <1>10, <2>2, <3>1
  <2>5. C = CC!SetTemps(A, CC!Below(n))
    BY <1>13, <2>1, <2>3 DEF CC!SetTemps, CC!Front, CC!Last, Front, Last
  <2> QED BY <1>14, <2>4, <2>5
<1>16. mem' = CC!WithNew(CC!CellsOf(p, CC!Args(n), acts), mem)
  <2> DEFINE cells == {acts} \X (0 .. size - 1)
             args == CC!Args(n)
  <2>1. ASSUME NEW c \in cells
        PROVE  stack'[base + c[2] + 1] = IF c[2] < Len(args) THEN args[c[2] + 1] ELSE Garbage
    <3> DEFINE i == c[2]
    <3>1. i \in 0 .. size - 1
      OBVIOUS
    <3> HIDE DEF i, size, base, l, args
    <3>2. i \in Nat /\ base + i + 1 \in 1 .. base + size
      BY <1>5, <1>7, <3>1
    <3>3. Len(args) = n
      BY <1>3 DEF args
    <3>4. l \in Nat
      BY <1>3
    <3>5. base + i + 1 <= l <=> i < n
      BY <1>1, <1>7, <3>2, <3>4
    <3>6. i < n => i + 1 \in 1 .. n /\ base + (i + 1) = base + i + 1
      BY <1>1, <1>7, <3>2
    <3>7. i < n => args[i + 1] = stack[base + i + 1]
      <4>1. \A x \in 1 .. n : args[x] = stack[base + x]
        BY <1>3 DEF args
      <4> QED BY <3>6, <4>1
    <3>8. stack'[base + i + 1] = IF i < Len(args) THEN args[i + 1] ELSE Garbage
      BY <1>8, <3>2, <3>3, <3>5, <3>7
    <3> QED BY <3>8 DEF i
  <2>2. NewCells(acts, base, size, stack') = CC!CellsOf(p, args, acts)
    <3> HIDE DEF args, size, base
    <3>1. NewCells(acts, base, size, stack') = [c \in cells |-> stack'[base + c[2] + 1]]
      BY DEF NewCells
    <3>2. CC!CellsOf(p, args, acts) =
            [c \in cells |-> IF c[2] < Len(args) THEN args[c[2] + 1] ELSE Garbage]
      BY DEF CC!CellsOf, CC!Garbage, Garbage, size
    <3> HIDE DEF cells
    <3> QED BY <2>1, <3>1, <3>2
  <2> QED BY <1>2, <2>2 DEF WithNew, CC!WithNew
<1>17. Closures' = Closures /\ Closures[f].proto = p
  <2>1. Closures' = Closures
    BY <1>1, <1>2, SameClosures
  <2> QED BY <1>4, <2>1 DEF Closures
<1> QED BY <1>2, <1>3, <1>15, <1>16, <1>17 DEF CC!Call, CC!IsFn, IsFn

\* A return leaves its value, or garbage, with the caller.
LEMMA PopFrameMaps ==
  ASSUME IInv, Prepared, PopFrame
  PROVE  CC!ReturnValue \/ CC!ReturnVoid
<1> DEFINE F == Len(frames)
           l == Len(stack)
           b == frame.base
           v == IF pc = "return value" THEN Peek ELSE Garbage
           rest == Resize(stack, b - 1)
           A == Activations
           B == Activations'
           G == [k \in 1 .. F - 1 |-> A[k]]
<1>1. TypeOK /\ Stacked /\ InLoop /\ stack \in Seq(Values)
  BY DEF IInv, TypeOK, StackType
<1>2. /\ Closing /\ stack' = Append(rest, v) /\ frames' = Front(frames)
      /\ UNCHANGED heap /\ UNCHANGED history
  BY DEF PopFrame
<1>3. F \in Nat \ {0} /\ F > 1 /\ DOMAIN frames = 1 .. F /\ frame = frames[F] /\ l \in Nat
  BY <1>1, <1>2, FramesAre DEF InLoop
<1>4. v \in Values
  <2>1. pc = "return value" => Temps > 0
    BY DEF Prepared, Returning
  <2>2. Garbage \in Values
    BY DEF Values
  <2> QED BY <1>1, <2>1, <2>2, PeekIsValue
<1>5. PICK c \in Nat : c = F - 1
  <2> HIDE DEF F
  <2> QED BY <1>3
<1>6. c \in Nat \ {0} /\ c \in 1 .. F - 1 /\ c + 1 = F /\ c \in 1 .. F /\ c # F /\ c \in 1 .. c
  <2> HIDE DEF F
  <2> QED BY <1>3, <1>5
<1>7. /\ TempsOf(c) = SubSeq(stack, End(c) + 1, b - 1)
      /\ End(c) \in Nat /\ b - 1 \in Nat /\ End(c) <= b - 1 /\ b <= l
  <2>1. frames[c + 1] = frame
    BY <1>3, <1>6
  <2> QED BY SMTT(30), <1>1, <1>6, <2>1, LowerSegment
<1>8. b \in Nat /\ b - 1 <= l
  <2>1. b \in Nat
    BY <1>1, FramesAre
  <2> HIDE DEF b, l
  <2> QED BY <1>3, <1>7, <2>1
<1>9. /\ DOMAIN frames' = 1 .. c /\ Len(frames') = c
      /\ \A k \in 1 .. c : frames'[k] = frames[k]
  <2> DEFINE N == [proto : Protos, base : Nat, function : 0 .. Len(fns), act : 0 .. acts - 1]
  <2>1. frames \in Seq(N) /\ frames # << >>
    BY <1>1 DEF TypeOK, FrameTypes
  <2> HIDE DEF N
  <2> QED BY <1>2, <1>5, <2>1, FrontIsPrefix
<1> HIDE DEF v, rest
<1>10. /\ stack' \in Seq(Values) /\ Len(stack') = b /\ stack'[b] = v
       /\ \A s \in 1 .. b - 1 : stack'[s] = stack[s]
  <2> DEFINE r == b - 1
  <2>1. Garbage \in Values
    BY DEF Values
  <2>2. r \in Nat /\ r + 1 = b /\ r <= l
    <3> HIDE DEF b, l
    <3> QED BY <1>7, <1>8
  <2>3. rest = Resize(stack, r)
    BY DEF rest
  <2> HIDE DEF r
  <2>4. /\ rest \in Seq(Values) /\ Len(rest) = r
        /\ \A k \in 1 .. r : rest[k] = IF k <= l THEN stack[k] ELSE Garbage
    BY <1>1, <2>1, <2>2, <2>3, ResizeIs
  <2>5. /\ stack' \in Seq(Values) /\ Len(stack') = r + 1 /\ stack'[r + 1] = v
        /\ \A k \in 1 .. r : stack'[k] = rest[k]
    BY <1>2, <1>4, <2>4, AppendHolds
  <2> HIDE DEF l
  <2>6. \A k \in 1 .. r : stack'[k] = stack[k]
    BY <1>3, <2>2, <2>4, <2>5
  <2> HIDE DEF b
  <2> QED BY <2>2, <2>5, <2>6 DEF r
<1>11. A = [k \in 1 .. F |-> A[k]] /\ B = [k \in 1 .. c |-> B[k]]
  BY <1>3, <1>9 DEF Activations
<1>12. ASSUME NEW k \in 1 .. c - 1
       PROVE  B[k] = A[k]
  <2> DEFINE x == frames[k + 1].base
  <2>1. /\ k \in 1 .. F - 1 /\ k \in 1 .. c /\ k + 1 \in 1 .. c /\ k + 1 \in 1 .. F
        /\ k \in 1 .. F /\ k # c /\ k + 1 < F
    <3> HIDE DEF F
    <3> QED BY <1>3, <1>5, <1>6
  <2>2. x \in Nat /\ x <= b
    <3>1. /\ k + 1 \in DOMAIN frames /\ F \in DOMAIN frames
      <4>1. F \in 1 .. F
        <5> HIDE DEF F
        <5> QED BY <1>3
      <4> QED BY <1>3, <2>1, <4>1
    <3>2. End(k + 1) < b
      BY <1>1, <1>3, <2>1, <3>1 DEF Stacked
    <3> DEFINE f == FrameSize[frames[k + 1].proto]
    <3>3. x \in Nat /\ f \in Nat /\ End(k + 1) = x + f
      BY <1>1, <3>1, FramesAre DEF End
    <3> HIDE DEF x, f, b
    <3> QED BY <1>8, <3>2, <3>3
  <2>3. x - 1 <= Len(stack') /\ \A s \in 1 .. x - 1 : s \in 1 .. b - 1
    <3> HIDE DEF x, b
    <3> QED BY <1>8, <1>10, <2>2
  <2>4. \A s \in 1 .. x - 1 : stack'[s] = stack[s]
    BY <1>10, <2>3
  <2>5. frames'[k] = frames[k] /\ frames'[k + 1].base = x /\ k # Len(frames')
    BY <1>9, <2>1
  <2>6. TempsOf(k)' = TempsOf(k)
    BY <1>1, <1>10, <2>1, <2>3, <2>4, <2>5, LowerTempsKept
  <2> QED BY <1>3, <1>9, <2>1, <2>5, <2>6 DEF Activations
<1>13. B[c] = [A[c] EXCEPT !.temps = Append(TempsOf(c), v)]
  <2>1. frames'[c] = frames[c] /\ c = Len(frames')
    BY <1>6, <1>9
  <2> DEFINE e == End(c)
             j == b - 1
  <2>2. FirstTemp(frames'[c]) = e + 1
    BY <2>1 DEF FirstTemp, End
  <2>3. TempsOf(c)' = SubSeq(stack', e + 1, Len(stack'))
    BY <2>1, <2>2 DEF TempsOf
  <2>4. j \in Nat /\ e \in Nat /\ e <= j /\ j <= l /\ Len(stack') = j + 1 /\ stack'[Len(stack')] = v
    <3>1. j \in Nat /\ e \in Nat /\ e <= j /\ j <= l /\ stack'[Len(stack')] = v
      BY <1>7, <1>8, <1>10
    <3>2. j + 1 = b
      <4> HIDE DEF b
      <4> QED BY <1>8
    <3> QED BY <1>10, <3>1, <3>2
  <2>5. \A s \in e + 1 .. j : stack'[s] = stack[s]
    <3> TAKE s \in e + 1 .. j
    <3>1. s \in 1 .. b - 1
      <4> HIDE DEF e, b
      <4> QED BY <2>4
    <3> QED BY <1>10, <3>1
  <2>6. TempsOf(c) = SubSeq(stack, e + 1, j)
    BY <1>7
  <2> HIDE DEF e, j
  <2>7. SubSeq(stack', e + 1, Len(stack')) = Append(SubSeq(stack, e + 1, j), stack'[Len(stack')])
    BY <1>1, <1>10, <2>4, <2>5, SegmentExtended DEF l
  <2>8. TempsOf(c)' = Append(TempsOf(c), v)
    BY <2>3, <2>4, <2>6, <2>7
  <2>9. c \in DOMAIN frames /\ c \in DOMAIN frames'
    BY <1>3, <1>6, <1>9
  <2> QED BY <2>1, <2>8, <2>9 DEF Activations
<1>14. A[c].temps = TempsOf(c) /\ Len(A) = F
  <2>1. A[c].temps = TempsOf(c)
    BY <1>3, <1>6 DEF Activations
  <2>2. Len(A) = F
    BY <1>1, TopIs
  <2> QED BY SMTT(30), <2>1, <2>2
<1> HIDE DEF A, B
<1>15. Front(A) = G
  <2>1. F \in Nat \ {0} /\ A = [k \in 1 .. F |-> A[k]]
    BY <1>3, <1>11
  <2> HIDE DEF F
  <2> QED BY ONLY <2>1, FrontIs DEF G
<1>16. B = Append(Front(G), [Last(G) EXCEPT !.temps = Append(A[c].temps, v)])
  <2>1. G = [k \in 1 .. c |-> G[k]] /\ G[c] = A[c] /\ \A k \in 1 .. c - 1 : G[k] = A[k]
    <3> HIDE DEF F
    <3>1. G = [k \in 1 .. c |-> A[k]]
      BY <1>5
    <3> HIDE DEF G
    <3>2. \A k \in 1 .. c - 1 : k \in 1 .. c
      BY <1>6
    <3> QED BY <1>6, <3>1, <3>2
  <2> HIDE DEF G
  <2>2. \A k \in 1 .. c - 1 : B[k] = G[k]
    BY <1>12, <2>1
  <2>3. B = [k \in 1 .. c |-> B[k]] /\ G = [k \in 1 .. c |-> G[k]] /\ c \in Nat \ {0}
    BY <1>6, <1>11, <2>1
  <2>4. B = Append(Front(G), B[c]) /\ Last(G) = G[c]
    BY ONLY <2>2, <2>3, LastReplaced
  <2> QED BY <1>13, <1>14, <2>1, <2>4
<1>17. CC!Return(v)
  <2>1. Len(A) > 1 /\ A[Len(A) - 1] = A[c]
    BY <1>3, <1>5, <1>14
  <2>2. B = CC!SetTemps(CC!Front(A), Append(A[c].temps, v))
    <3> HIDE DEF G
    <3> QED BY <1>15, <1>16 DEF CC!SetTemps, CC!Front, CC!Last, Front, Last
  <2>3. UNCHANGED <<acts, mem, Closures>>
    BY <1>1, <1>2, CellsUnchanged
  <2> QED BY <2>1, <2>2, <2>3 DEF CC!Return, A, B
<1>18. CASE pc = "return value"
  <2>1. Temps > 0
    BY <1>18 DEF Prepared, Returning
  <2>2. CC!Top.temps # << >> /\ CC!Last(CC!Top.temps) = v
    BY <1>1, <1>18, <2>1, PeekIsLastTemp DEF v
  <2> QED BY <1>17, <2>2 DEF CC!ReturnValue
<1>19. CASE pc # "return value"
  <2>1. v = CC!Garbage
    BY <1>19 DEF v, Garbage, CC!Garbage
  <2> QED BY <1>17, <2>1 DEF CC!ReturnVoid
<1> QED BY <1>18, <1>19

-----------------------------------------------------------------------------
(* Prepared holds in every run.                                            *)

\* Between instructions there is nothing to prepare.
LEMMA FetchIsPrepared ==
  ASSUME pc' = "fetch"
  PROVE  Prepared'
  BY DEF Prepared, Filling, Returning

LEMMA MakeClosurePrepares ==
  ASSUME NEW p \in Protos \ {Main}, MakeClosure(p)
  PROVE  Prepared'
<1>1. /\ pc' = "make" /\ making' = [proto |-> p, upvalues |-> << >>]
      /\ fns' = fns /\ Len(fns) < MaxClosures
  BY DEF MakeClosure, heap
<1>2. DOMAIN making'.upvalues = {}
  BY <1>1, EmptyHolds
<1> QED BY <1>1, <1>2 DEF Prepared, Filling, Returning

\* An upvalue of the captured variable is collected.
LEMMA CapturedFills ==
  ASSUME IInv, Prepared, Capturing, NEW S, DOMAIN upvalues \subseteq S, NEW u \in S, Captured(u),
         UNCHANGED <<frames, fns, pc>>,
         \A w \in DOMAIN upvalues : upvalues'[w].cell = upvalues[w].cell,
         upvalues'[u].cell = GivenCell(Capture)
  PROVE  Prepared'
<1> DEFINE p == making.proto
           ups == making.upvalues
           l == Len(ups)
<1>1. TypeOK /\ Running /\ InLoop /\ pc = "make" /\ pc' = "make"
  BY DEF IInv, Capturing
<1>2. making \in [proto : Protos, upvalues : Seq(DOMAIN upvalues)]
  BY <1>1 DEF TypeOK, LoopTypes
<1>3. p \in Protos /\ ups \in Seq(S)
  BY <1>2, SeqGrows
<1>4. /\ making'.proto = p /\ making'.upvalues = Append(ups, u)
      /\ l < Len(Captures[p]) /\ ParentOf[p] = frame.proto
  BY <1>1, <1>2, FramesAre DEF Captured, Capturing, InLoop
<1>5. /\ p # Main /\ Len(fns) < MaxClosures
      /\ \A k \in DOMAIN ups : upvalues[ups[k]].cell = GivenCell(Captures[p][k])
  BY <1>1 DEF Prepared, Filling
<1>6. /\ DOMAIN ups = 1 .. l /\ l \in Nat
      /\ DOMAIN making'.upvalues = 1 .. l + 1
      /\ \A k \in 1 .. l : making'.upvalues[k] = ups[k]
      /\ making'.upvalues[l + 1] = u
      /\ \A k \in 1 .. l : ups[k] \in DOMAIN upvalues
  <2>1. DOMAIN ups = 1 .. l /\ l \in Nat /\ \A k \in 1 .. l : ups[k] \in DOMAIN upvalues
    BY <1>2, LenProperties, ElementOfSeq
  <2>2. /\ making'.upvalues \in Seq(S) /\ Len(making'.upvalues) = l + 1
        /\ making'.upvalues[l + 1] = u /\ \A k \in 1 .. l : making'.upvalues[k] = ups[k]
    BY <1>3, <1>4, AppendHolds
  <2> QED BY <2>1, <2>2, LenProperties
<1>7. Captures[p][l + 1] = Capture
  BY DEF Capture
<1> HIDE DEF l, ups, p
<1>8. Len(Captures[p]) \in Nat /\ DOMAIN Captures[p] = 1 .. Len(Captures[p])
  BY <1>3, CapturesAre
<1>9. ASSUME NEW k \in 1 .. l + 1
      PROVE  upvalues'[making'.upvalues[k]].cell = GivenCell(Captures[p][k])
  <2>1. CASE k = l + 1
    BY <1>6, <1>7, <2>1
  <2>2. CASE k # l + 1
    <3>1. k \in 1 .. l
      BY <1>6, <2>2
    <3> QED BY <1>5, <1>6, <3>1
  <2> QED BY <2>1, <2>2
<1>10. ASSUME NEW k \in 1 .. l + 1
       PROVE  GivenCell(Captures[p][k])' = GivenCell(Captures[p][k])
  <2> DEFINE c == Captures[p][k]
             i == c.index + 1
  <2>1. k \in DOMAIN Captures[p]
    BY <1>4, <1>6, <1>8
  <2>2. frame' = frame /\ p' = p
    BY <1>4 DEF frame, p
  <2>3. c' = c
    BY <2>2
  <2>4. CASE c.isLocal
    BY <2>2, <2>3, <2>4 DEF GivenCell
  <2>5. CASE ~c.isLocal
    <3>1. i \in DOMAIN Captures[frame.proto]
      BY <1>3, <1>4, <2>1, <2>5, CapturesAre
    <3>2. Upvalue(i) \in DOMAIN upvalues
      <4> HIDE DEF i
      <4> QED BY <1>1, <3>1, UpvalueExists
    <3>3. Upvalue(i)' = Upvalue(i)
      BY <2>2, <2>3 DEF Upvalue
    <3> QED BY <2>3, <2>5, <3>2, <3>3 DEF GivenCell
  <2> QED BY <2>4, <2>5
<1>11. /\ making'.proto = p' /\ p' = p /\ Len(fns') < MaxClosures /\ making'.proto # Main
  BY <1>4, <1>5 DEF p
<1>12. Filling'
  BY <1>6, <1>9, <1>10, <1>11 DEF Filling, p
<1>13. Returning'
  BY <1>1 DEF Returning
<1> QED BY <1>12, <1>13 DEF Prepared

\* The upvalue that is reused is one of the captured variable.
LEMMA CaptureOpenPrepares ==
  ASSUME IInv, Prepared, NEW j \in DOMAIN openUpvalues, CaptureOpen(j)
  PROVE  Prepared'
<1> DEFINE u == openUpvalues[j]
           n == Len(frames)
           i == Capture.index
<1>1. TypeOK /\ Stacked /\ Owned /\ InLoop
  BY DEF IInv
<1>2. /\ Capturing /\ Capture.isLocal /\ ReusableUpvalue(u) /\ Captured(u)
      /\ UNCHANGED <<stack, frames, heap, pc, at, history>>
  BY DEF CaptureOpen
<1>3. u \in DOMAIN upvalues
  BY <1>1, UpvaluesAre
<1>4. ~upvalues[u].isClosed /\ upvalues[u].stackSlot = frame.base + i
  BY <1>2 DEF ReusableUpvalue, WantedSlot
<1>5. /\ n \in DOMAIN frames /\ frame = frames[n]
      /\ frame.base \in Nat /\ FrameSize[frame.proto] \in Nat
  BY <1>1, FramesAre
<1> HIDE DEF u
<1>6. PICK k \in DOMAIN frames :
        /\ upvalues[u].cell[2] \in 0 .. FrameSize[frames[k].proto] - 1
        /\ upvalues[u].stackSlot + 1 = frames[k].base + upvalues[u].cell[2] + 1
        /\ upvalues[u].cell = <<frames[k].act, upvalues[u].cell[2]>>
  BY <1>1, <1>3, <1>4, OpenIsOnStack
<1> DEFINE c == upvalues[u].cell[2]
<1>7. i \in 0 .. FrameSize[frames[n].proto] - 1
  <2>1. i \in Nat /\ i < FrameSize[frame.proto]
    BY <1>1, <1>2, CaptureIs
  <2> HIDE DEF i
  <2> QED BY <1>5, <2>1
<1>8. frames[n].base + i = frames[k].base + c
  <2>1. frames[k].base \in Nat /\ c \in Nat
    BY <1>1, <1>3, FramesAre, UpvaluesAre
  <2>2. upvalues[u].stackSlot \in Nat
    BY <1>1, <1>3, UpvaluesAre
  <2> HIDE DEF i, c
  <2> QED BY SMTT(30), <1>4, <1>5, <1>6, <2>1, <2>2 DEF c
<1>9. n = k /\ i = c
  <2> HIDE DEF i, c, n
  <2> QED BY SMTT(30), <1>1, <1>5, <1>6, <1>7, <1>8, LocalsAreApart DEF c
<1>10. upvalues[u].cell = GivenCell(Capture)
  BY <1>2, <1>5, <1>6, <1>9 DEF GivenCell
<1>11. upvalues' = upvalues /\ fns' = fns
  BY <1>2 DEF heap
<1> QED BY <1>2, <1>3, <1>10, <1>11, CapturedFills

LEMMA CaptureLocalPrepares ==
  ASSUME IInv, Prepared, CaptureLocal
  PROVE  Prepared'
<1> DEFINE N == Len(upvalues)
           new == [stackSlot |-> WantedSlot, isClosed |-> FALSE, closed |-> Garbage,
                   cell |-> <<frame.act, Capture.index>>]
           Ups == {upvalues[u] : u \in DOMAIN upvalues} \union {new}
           S == DOMAIN upvalues \union {N + 1}
<1>1. TypeOK /\ DOMAIN upvalues = 1 .. N /\ N \in Nat
  BY UpvaluesAre DEF IInv
<1>2. /\ Capturing /\ Capture.isLocal /\ Captured(N + 1)
      /\ upvalues' = Append(upvalues, new) /\ UNCHANGED <<frames, fns, pc>>
  BY DEF CaptureLocal
<1>3. upvalues \in Seq(Ups) /\ new \in Ups
  <2>1. upvalues \in Seq([stackSlot : Nat, isClosed : BOOLEAN, closed : Values, cell : Cells])
    BY <1>1 DEF TypeOK, UpvalueTypes
  <2>2. upvalues \in [1 .. N -> Ups]
    BY <1>1, <2>1, LenProperties
  <2> HIDE DEF Ups
  <2> QED BY <1>1, <2>2, SeqDef DEF Ups
<1>4. new.cell = GivenCell(Capture)
  BY <1>2 DEF GivenCell
<1> HIDE DEF Ups, new, N
<1>5. upvalues'[N + 1] = new /\ \A u \in DOMAIN upvalues : upvalues'[u] = upvalues[u]
  BY <1>1, <1>2, <1>3, AppendHolds DEF N
<1>6. DOMAIN upvalues \subseteq S /\ N + 1 \in S
  OBVIOUS
<1> HIDE DEF S
<1> QED BY <1>2, <1>4, <1>5, <1>6, CapturedFills

LEMMA CaptureUpvaluePrepares ==
  ASSUME IInv, Prepared, CaptureUpvalue
  PROVE  Prepared'
<1> DEFINE i == Capture.index + 1
<1>1. TypeOK /\ InLoop /\ Running
  BY DEF IInv
<1>2. /\ Capturing /\ ~Capture.isLocal /\ Captured(Upvalue(i))
      /\ UNCHANGED <<frames, heap, pc>>
  BY DEF CaptureUpvalue
<1>3. Upvalue(i) \in DOMAIN upvalues
  BY <1>1, <1>2, CaptureIs, UpvalueExists
<1>4. upvalues[Upvalue(i)].cell = GivenCell(Capture)
  BY <1>2 DEF GivenCell
<1>5. upvalues' = upvalues /\ fns' = fns
  BY <1>2 DEF heap
<1> HIDE DEF i
<1> QED BY <1>2, <1>3, <1>4, <1>5, CapturedFills

\* A return starts, or closes one more upvalue: the value to return stays where it is.
LEMMA ReturnPrepares ==
  ASSUME IInv, Prepared,
         \/ \E instr \in {"return void", "return value"} : StartReturn(instr)
         \/ CloseUpvalue
         \/ SkipUpvalue
  PROVE  Prepared'
<1>1. /\ stack' = stack /\ frames' = frames
      /\ pc' \in {"return void", "return value"}
      /\ pc' = "return value" => Temps > 0
  BY DEF StartReturn, CloseUpvalue, SkipUpvalue, Closing, loops, Prepared, Returning
<1>2. Temps' = Temps
  BY <1>1 DEF Temps, FirstTemp, frame
<1> QED BY <1>1, <1>2 DEF Prepared, Filling, Returning

-----------------------------------------------------------------------------
(* The refinement.                                                         *)

LEMMA InitMaps ==
  ASSUME Init
  PROVE  CC!Init
<1> DEFINE size == FrameSize[Main]
           first == [proto |-> Main, base |-> 0, function |-> 0, act |-> 0]
<1>1. /\ stack = Garbages(size) /\ frames = <<first>> /\ fns = << >> /\ acts = 1
      /\ mem = NewCells(0, 0, size, stack)
  BY DEF Init
<1>2. TypeOK /\ Stacked /\ size \in Nat
  BY InitEstablishes, ProtosAssumption DEF IInv
<1>3. Len(stack) = size /\ \A s \in 1 .. size : stack[s] = Garbage
  <2>1. stack \in [1 .. size -> {Garbage}]
    BY <1>1 DEF Garbages
  <2> HIDE DEF size
  <2> QED BY <1>1, <1>2, <2>1, SeqDef, LenProperties DEF Garbages
<1>4. Len(frames) = 1 /\ DOMAIN frames = {1} /\ frame = first
  <2>1. Len(frames) = 1 /\ DOMAIN frames = {1} /\ frames[1] = first
    BY <1>1
  <2> HIDE DEF first
  <2> QED BY <1>2, <2>1, FramesAre
<1>5. TopTemps = << >>
  <2>1. End(Len(frames)) = size
    <3>1. frames[1] = first
      BY <1>1
    <3> HIDE DEF size
    <3> QED BY <1>2, <1>4, <3>1 DEF End, size
  <2>2. TopTemps \in Seq(Values) /\ Temps = Len(stack) - End(Len(frames)) /\ Len(TopTemps) = Temps
    BY <1>2, TopTempsAre
  <2>3. Len(TopTemps) = 0
    <3> HIDE DEF size
    <3> QED BY <1>2, <1>3, <2>1, <2>2
  <2> QED BY <2>2, <2>3, EmptySeq
<1>6. Activations = <<[proto |-> Main, act |-> 0, fn |-> 0, temps |-> << >>]>>
  <2> DEFINE r == [proto |-> Main, act |-> 0, fn |-> 0, temps |-> << >>]
  <2>1. Activations[1] = r
    BY <1>2, <1>4, <1>5, TopIs
  <2>2. Activations = [k \in 1 .. 1 |-> Activations[k]]
    BY <1>2, <1>4, TopIs
  <2> DEFINE A == Activations
  <2> HIDE DEF r, A
  <2>3. A = <<r>>
    <3>1. A = [k \in 1 .. 1 |-> A[k]] /\ A[1] = r
      BY <2>1, <2>2 DEF A
    <3> QED BY ONLY <3>1
  <2> QED BY <2>3 DEF A, r
<1>7. Closures = << >>
  <2>1. DOMAIN fns = {}
    BY <1>1, EmptyHolds
  <2> DEFINE C == Closures
  <2>2. C = [f \in {} |-> C[f]]
    BY <2>1 DEF Closures
  <2> HIDE DEF C
  <2>3. C = << >>
    BY ONLY <2>2
  <2> QED BY <2>3 DEF C
<1>8. mem = CC!CellsOf(Main, << >>, 0)
  <2>1. mem = [c \in {0} \X (0 .. size - 1) |-> stack[0 + c[2] + 1]]
    BY <1>1 DEF NewCells
  <2>2. CC!CellsOf(Main, << >>, 0) =
          [c \in {0} \X (0 .. size - 1) |-> IF c[2] < Len(<< >>) THEN << >>[c[2] + 1] ELSE Garbage]
    BY DEF CC!CellsOf, CC!Garbage, Garbage
  <2> HIDE DEF size
  <2>3. ASSUME NEW c \in {0} \X (0 .. size - 1)
        PROVE  stack[0 + c[2] + 1] = Garbage /\ ~(c[2] < Len(<< >>))
    <3>1. c[2] \in 0 .. size - 1
      BY <2>3
    <3> DEFINE i == c[2]
    <3> HIDE DEF i
    <3>2. i \in Nat /\ 0 + i + 1 \in 1 .. size /\ ~(i < 0)
      BY <1>2, <3>1 DEF i
    <3>3. Len(<< >>) = 0
      BY EmptySeq
    <3> QED BY <1>3, <3>2, <3>3 DEF i
  <2> QED BY <2>1, <2>2, <2>3
<1> QED BY <1>1, <1>6, <1>7, <1>8 DEF CC!Init

\* Every step of the machine is a step on cells, or none.
LEMMA StepMaps ==
  ASSUME IInv, VariablesKeepTheirValues, Prepared, [Next]_vars
  PROVE  [CC!Next]_(CC!vars)
<1>1. TypeOK /\ CC!Top.proto = frame.proto
  BY TopIs DEF IInv
<1>2. CC!Literals = Literals
  BY DEF CC!Literals, Literals, CC!Const, Const, CC!Native, Native
<1>3. CASE \E v \in Literals : PushConst(v)
  BY <1>2, <1>3, PushConstMaps DEF CC!Next
<1>4. CASE PopTop
  BY <1>4, PopTopMaps DEF CC!Next
<1>5. CASE \E i \in 0 .. FrameSize[frame.proto] - 1 : LoadLocal(i) \/ StoreLocal(i)
  BY <1>1, <1>5, LoadLocalMaps, StoreLocalMaps DEF CC!Next
<1>6. CASE \E k \in DOMAIN Captures[frame.proto] : LoadUpvalue(k) \/ StoreUpvalue(k)
  BY <1>1, <1>6, LoadUpvalueMaps, StoreUpvalueMaps DEF CC!Next
<1>7. CASE PushClosure
  BY <1>7, PushClosureMaps DEF CC!Next
<1>8. CASE \E n \in 0 .. MaxTemps - 1 : Call(n) \/ \E c \in Consts : CallNative(n, c)
  BY <1>8, CallMaps, CallNativeMaps DEF CC!Next
<1>9. CASE PopFrame
  BY <1>9, PopFrameMaps DEF CC!Next
<1>10. CASE CaptureLocal
  BY <1>10, CaptureLocalMaps
<1>11. CASE CloseUpvalue
  BY <1>11, CloseUpvalueMaps
<1>12. CASE \/ \E p \in Protos \ {Main} : MakeClosure(p)
            \/ \E j \in DOMAIN openUpvalues : CaptureOpen(j)
            \/ CaptureUpvalue
            \/ \E instr \in {"return void", "return value"} : StartReturn(instr)
            \/ SkipUpvalue
            \/ UNCHANGED vars
  <2>1. UNCHANGED <<stack, frames, fns, history>> /\ upvalues' = upvalues
    BY <1>12 DEF MakeClosure, CaptureOpen, CaptureUpvalue, StartReturn, SkipUpvalue, vars, heap, history
  <2> QED BY <1>1, <2>1, Stutters
<1> QED
  BY <1>3, <1>4, <1>5, <1>6, <1>7, <1>8, <1>9, <1>10, <1>11, <1>12 DEF Next

\* Half-made closures and half-done returns always hold what their last step needs.
THEOREM PreparedHolds == Spec => []Prepared
<1>1. Init => Prepared
  BY DEF Init, Prepared, Filling, Returning
<1>2. ASSUME IInv, Prepared, [Next]_vars
      PROVE  Prepared'
  <2>1. CASE \E v \in Literals : PushConst(v)
    BY <2>1, FetchIsPrepared DEF PushConst, loops
  <2>2. CASE PopTop
    BY <2>2, FetchIsPrepared DEF PopTop, loops
  <2>3. CASE \E i \in 0 .. FrameSize[frame.proto] - 1 : LoadLocal(i) \/ StoreLocal(i)
    BY <2>3, FetchIsPrepared DEF LoadLocal, StoreLocal, loops
  <2>4. CASE \E k \in DOMAIN Captures[frame.proto] : LoadUpvalue(k) \/ StoreUpvalue(k)
    BY <2>4, FetchIsPrepared DEF LoadUpvalue, StoreUpvalue, loops
  <2>5. CASE \E p \in Protos \ {Main} : MakeClosure(p)
    BY <2>5, MakeClosurePrepares
  <2>6. CASE \E j \in DOMAIN openUpvalues : CaptureOpen(j)
    BY <1>2, <2>6, CaptureOpenPrepares
  <2>7. CASE CaptureLocal
    BY <1>2, <2>7, CaptureLocalPrepares
  <2>8. CASE CaptureUpvalue
    BY <1>2, <2>8, CaptureUpvaluePrepares
  <2>9. CASE PushClosure
    BY <2>9, FetchIsPrepared DEF PushClosure
  <2>10. CASE \E n \in 0 .. MaxTemps - 1 : Call(n) \/ \E c \in Consts : CallNative(n, c)
    BY <2>10, FetchIsPrepared DEF Call, CallNative, loops
  <2>11. CASE \/ \E instr \in {"return void", "return value"} : StartReturn(instr)
              \/ CloseUpvalue
              \/ SkipUpvalue
    BY <1>2, <2>11, ReturnPrepares
  <2>12. CASE PopFrame
    BY <2>12, FetchIsPrepared DEF PopFrame
  <2>13. CASE UNCHANGED vars
    <3>1. UNCHANGED <<stack, frames, upvalues, fns, pc, making>>
      BY SMTT(30), <2>13 DEF vars
    <3>2. Filling'
      BY <1>2, <3>1 DEF Prepared, Filling, GivenCell, Upvalue, frame
    <3>3. Returning'
      BY <1>2, <3>1 DEF Prepared, Returning, Temps, FirstTemp, frame
    <3> QED BY <3>2, <3>3 DEF Prepared
  <2> QED
    BY <1>2, <2>1, <2>2, <2>3, <2>4, <2>5, <2>6, <2>7, <2>8, <2>9, <2>10, <2>11, <2>12, <2>13 DEF Next
<1> QED BY <1>1, <1>2, InvariantHolds, PTL DEF Spec

\* Slots and upvalues are variables, for every program: a step of the machine is the step
\* of ClosureCells it should be on cells, calls, returns and temporaries, or is hidden.
THEOREM VariablesAreCells == Spec => ImplementsCells
<1>1. Init => CC!Init
  BY InitMaps
<1>2. IInv /\ VariablesKeepTheirValues /\ Prepared /\ [Next]_vars => [CC!Next]_(CC!vars)
  BY StepMaps
<1> QED BY <1>1, <1>2, InvariantHolds, ValuesAreKept, PreparedHolds, PTL
        DEF Spec, ImplementsCells, CC!Spec
=============================================================================
