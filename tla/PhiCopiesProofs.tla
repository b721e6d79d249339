-------------------------- MODULE PhiCopiesProofs --------------------------
(***************************************************************************)
(* Phi elimination is correct for every set of blocks, every number of     *)
(* values and every list of copies with distinct destinations.             *)
(***************************************************************************)
EXTENDS PhiCopies, SequenceFacts, SequenceTheorems, FiniteSetTheorems, TLAPS

-----------------------------------------------------------------------------
\* Sequences.

\* Erasing entry i shifts the entries after it down by one.
LEMMA RemoveAtProperties ==
  ASSUME NEW S, NEW s \in Seq(S), NEW i \in 1 .. Len(s)
  PROVE  /\ RemoveAt(s, i) \in Seq(S)
         /\ Len(RemoveAt(s, i)) = Len(s) - 1
         /\ \A k \in 1 .. Len(s) - 1 :
              RemoveAt(s, i)[k] = IF k < i THEN s[k] ELSE s[k+1]
<1> DEFINE front == SubSeq(s, 1, i-1)
           back  == SubSeq(s, i+1, Len(s))
<1>0. Len(s) \in Nat /\ \A k \in 1 .. Len(s) : s[k] \in S
  BY LenProperties, ElementOfSeq
<1>1. /\ front \in Seq(S)
      /\ Len(front) = i - 1
      /\ \A k \in 1 .. i-1 : front[k] = s[k]
  BY <1>0, SubSeqProperties
<1>2. /\ back \in Seq(S)
      /\ Len(back) = Len(s) - i
      /\ \A k \in 1 .. Len(s) - i : back[k] = s[k+i]
  BY <1>0, SubSeqProperties
<1>3. /\ front \o back \in Seq(S)
      /\ Len(front \o back) = Len(s) - 1
      /\ \A k \in 1 .. Len(s) - 1 :
           (front \o back)[k] = IF k <= i-1 THEN front[k] ELSE back[k-(i-1)]
  <2> HIDE DEF front, back
  <2>1. Len(front) + Len(back) = Len(s) - 1
    BY <1>0, <1>1, <1>2
  <2>2. /\ front \o back \in Seq(S)
        /\ Len(front \o back) = Len(front) + Len(back)
        /\ \A k \in 1 .. Len(front) + Len(back) :
             (front \o back)[k] = IF k <= Len(front) THEN front[k]
                                                     ELSE back[k - Len(front)]
    BY <1>1, <1>2, ConcatProperties
  <2> QED BY <1>1, <2>1, <2>2
<1>4. RemoveAt(s, i) = front \o back
  BY DEF RemoveAt
<1> HIDE DEF front, back
<1>5. \A k \in 1 .. Len(s) - 1 :
        RemoveAt(s, i)[k] = IF k < i THEN s[k] ELSE s[k+1]
  <2> SUFFICES ASSUME NEW k \in 1 .. Len(s) - 1
               PROVE  RemoveAt(s, i)[k] = IF k < i THEN s[k] ELSE s[k+1]
    OBVIOUS
  <2>1. CASE k < i
    BY <1>0, <1>1, <1>3, <1>4, <2>1
  <2>2. CASE k >= i
    <3>1. k - (i-1) \in 1 .. Len(s) - i /\ (k - (i-1)) + i = k + 1
      BY <1>0, <2>2
    <3> QED BY <1>0, <1>2, <1>3, <1>4, <2>2, <3>1
  <2> QED BY <1>0, <2>1, <2>2
<1> QED BY <1>3, <1>4, <1>5

\* What survives an erasure is an entry of the old list at another index.
LEMMA RemoveAtEntries ==
  ASSUME NEW S, NEW s \in Seq(S), NEW i \in DOMAIN s,
         NEW r, r = RemoveAt(s, i)
  PROVE  /\ r \in Seq(S)
         /\ \A k \in DOMAIN r : \E j \in DOMAIN s \ {i} : r[k] = s[j]
         /\ \A j \in DOMAIN s \ {i} : \E k \in DOMAIN r : r[k] = s[j]
         /\ \A k, l \in DOMAIN r : \E j, m \in DOMAIN s \ {i} :
              r[k] = s[j] /\ r[l] = s[m] /\ (k # l => j # m)
<1> DEFINE at(k) == IF k < i THEN k ELSE k + 1
<1>0. Len(s) \in Nat /\ DOMAIN s = 1 .. Len(s)
  BY LenProperties
<1>1. /\ r \in Seq(S)
      /\ Len(r) = Len(s) - 1
      /\ \A k \in 1 .. Len(s) - 1 : r[k] = s[at(k)]
  BY <1>0, RemoveAtProperties
<1>2. DOMAIN r = 1 .. Len(s) - 1
  BY <1>1, LenProperties
<1>3. \A k \in DOMAIN r : at(k) \in DOMAIN s \ {i} /\ r[k] = s[at(k)]
  BY <1>0, <1>1, <1>2
<1>4. \A j \in DOMAIN s \ {i} : \E k \in DOMAIN r : at(k) = j
  <2> SUFFICES ASSUME NEW j \in DOMAIN s \ {i}
               PROVE  \E k \in DOMAIN r : at(k) = j
    OBVIOUS
  <2>1. CASE j < i
    BY <1>0, <1>2, <2>1
  <2>2. CASE j > i
    <3>1. j - 1 \in DOMAIN r /\ at(j - 1) = j
      BY <1>0, <1>2, <2>2
    <3> QED BY <3>1
  <2> QED BY <1>0, <2>1, <2>2
<1>5. \A k, l \in DOMAIN r : k # l => at(k) # at(l)
  BY <1>0, <1>2
<1> HIDE DEF at
<1>6. \A k, l \in DOMAIN r : \E j, m \in DOMAIN s \ {i} :
        r[k] = s[j] /\ r[l] = s[m] /\ (k # l => j # m)
  <2> TAKE k, l \in DOMAIN r
  <2>1. k # l => at(k) # at(l)
    BY <1>5
  <2>2. /\ at(k) \in DOMAIN s \ {i} /\ r[k] = s[at(k)]
        /\ at(l) \in DOMAIN s \ {i} /\ r[l] = s[at(l)]
    BY <1>3
  <2> QED BY <2>1, <2>2
<1> QED BY <1>1, <1>3, <1>4, <1>6

-----------------------------------------------------------------------------
\* The parallel assignment.

\* With distinct destinations every copy determines its own target.
LEMMA TargetOfCopy ==
  ASSUME NEW c, Distinct(c), NEW i \in DOMAIN c
  PROVE  PA!Target(c, c[i].d) = c[i].s
BY DEF Distinct, PA!Target

\* A value no copy writes keeps itself as its target.
LEMMA TargetOfOther ==
  ASSUME NEW c, NEW v, \A i \in DOMAIN c : c[i].d # v
  PROVE  PA!Target(c, v) = v
BY DEF PA!Target

-----------------------------------------------------------------------------
\* The inductive invariant.

\* A value that no pending copy will write has its final content; a block the
\* loop has not reached has executed nothing.
Settled ==
  /\ cur # NoBlock =>
       /\ Distinct(copies)
       /\ \A v \in Ids : (\A i \in DOMAIN copies : copies[i].d # v)
                           => reg[cur][v] = PA!Target(original[cur], v)
  /\ \A b \in left : \A v \in Ids : reg[b][v] = v

\* The frame size is taken when nothing is left to emit.
FrameIsFinal ==
  mirLastValueId # INVALID_SLOT =>
    left = {} /\ cur = NoBlock /\ mirLastValueId = lastValueId

IInv == TypeOK /\ NoLostValue /\ PhiSemantics /\ Settled /\ FrameIsFinal

Copy(n) == [d : Ids, s : 0 .. n - 1]

\* A list of phi copies is a sequence of pairs of SSA values.
LEMMA CopyListsAreLists ==
  ASSUME NEW c \in CopyLists
  PROVE  c \in Seq([d : Ids, s : Ids]) /\ Distinct(c) /\ DOMAIN c = 1 .. Len(c)
<1>1. PICK n \in 0 .. MaxCopies : c \in [1..n -> [d : Ids, s : Ids]]
  BY DEF CopyLists
<1>2. n \in Nat
  BY PhiCopiesAssumption, <1>1
<1>3. c \in Seq([d : Ids, s : Ids])
  <2>1. c \in UNION {[1..m -> [d : Ids, s : Ids]] : m \in Nat}
    BY <1>1, <1>2
  <2> QED BY <2>1, SeqDef
<1> QED BY <1>3, LenProperties DEF CopyLists

\* The invariant holds before the first list is taken.
LEMMA InitIInv == Init => IInv
<1> SUFFICES ASSUME Init PROVE IInv
  OBVIOUS
<1> USE PhiCopiesAssumption
<1>1. TypeOK
  BY EmptySeq DEF Init, TypeOK, Ids, INVALID_SLOT
<1>2. NoLostValue /\ Settled /\ FrameIsFinal
  BY DEF Init, NoLostValue, Settled, FrameIsFinal
<1>3. PhiSemantics
  BY DEF Init, PhiSemantics
<1> QED BY <1>1, <1>2, <1>3 DEF IInv

\* A list typed for fewer values is typed for more.
LEMMA WiderSeq ==
  ASSUME NEW m \in Nat, NEW n \in Nat, m <= n
  PROVE  /\ \A c \in Seq(Copy(m)) : c \in Seq(Copy(n))
         /\ \A c \in Seq([dst : 0 .. m - 1, src : 0 .. m - 1]) :
              c \in Seq([dst : 0 .. n - 1, src : 0 .. n - 1])
<1>1. Copy(m) \subseteq Copy(n)
  BY DEF Copy
<1>2. [dst : 0 .. m - 1, src : 0 .. m - 1] \subseteq [dst : 0 .. n - 1, src : 0 .. n - 1]
  OBVIOUS
<1> QED BY <1>1, <1>2, SeqMonotonic

\* The facts about one appended MOVE: the types it keeps for any bound n on
\* the value ids, and what it leaves in the values of each block.
LEMMA MoveStep ==
  ASSUME TypeOK, cur \in Blocks, NEW n \in Nat, lastValueId <= n,
         NEW dst \in 0 .. n - 1, NEW src \in DOMAIN reg[cur], Move(dst, src)
  PROVE  /\ code' \in [Blocks -> Seq([dst : 0 .. n - 1, src : 0 .. n - 1])]
         /\ DOMAIN reg' = Blocks
         /\ \A b \in Blocks :
              /\ reg'[b] \in [DOMAIN reg'[b] -> Ids]
              /\ Ids \subseteq DOMAIN reg'[b]
              /\ DOMAIN reg'[b] \subseteq 0 .. n - 1
         /\ \A b \in Blocks \ {cur} : reg'[b] = reg[b]
         /\ reg'[cur][dst] = reg[cur][src]
         /\ DOMAIN reg'[cur] = DOMAIN reg[cur] \cup {dst}
         /\ \A v \in DOMAIN reg[cur] : v # dst => reg'[cur][v] = reg[cur][v]
<1> DEFINE T == [dst : 0 .. n - 1, src : 0 .. n - 1]
           R == [v \in DOMAIN reg[cur] \cup {dst} |->
                   IF v = dst THEN reg[cur][src] ELSE reg[cur][v]]
<1>1. /\ lastValueId \in Nat
      /\ DOMAIN reg = Blocks
      /\ \A b \in Blocks :
           /\ reg[b] \in [DOMAIN reg[b] -> Ids]
           /\ Ids \subseteq DOMAIN reg[b]
           /\ DOMAIN reg[b] \subseteq 0 .. lastValueId - 1
  BY DEF TypeOK
<1>2. code \in [Blocks -> Seq(T)]
  BY <1>1, WiderSeq DEF TypeOK
<1>3. code' = [code EXCEPT ![cur] = Append(@, [dst |-> dst, src |-> src])]
  BY DEF Move
<1>4. [dst |-> dst, src |-> src] \in T
  BY <1>1
<1> HIDE DEF T
<1>5. Append(code[cur], [dst |-> dst, src |-> src]) \in Seq(T)
  BY <1>2, <1>4, AppendProperties
<1>6. code' \in [Blocks -> Seq(T)]
  BY <1>2, <1>3, <1>5
<1>7. reg' = [reg EXCEPT ![cur] = R]
  BY DEF Move
<1>8. /\ R \in [DOMAIN R -> Ids]
      /\ DOMAIN R = DOMAIN reg[cur] \cup {dst}
      /\ R[dst] = reg[cur][src]
      /\ \A v \in DOMAIN reg[cur] : v # dst => R[v] = reg[cur][v]
  BY <1>1
<1> HIDE DEF R
<1>9. DOMAIN reg' = Blocks /\ reg'[cur] = R /\ \A b \in Blocks \ {cur} : reg'[b] = reg[b]
  BY <1>1, <1>7
<1>10. DOMAIN R \subseteq 0 .. n - 1 /\ Ids \subseteq DOMAIN R
  BY <1>1, <1>8
<1>11. \A b \in Blocks \ {cur} : DOMAIN reg[b] \subseteq 0 .. n - 1
  BY <1>1
<1> QED BY <1>1, <1>6, <1>8, <1>9, <1>10, <1>11 DEF T

\* Taking the next list preserves it: nothing has been moved for that block yet.
LEMMA TakeBlockIInv ==
  ASSUME IInv, NEW b \in Blocks, TakeBlock(b)
  PROVE  IInv'
<1> USE PhiCopiesAssumption
<1>1. /\ original[b] \in Seq([d : Ids, s : Ids])
      /\ Distinct(original[b])
      /\ DOMAIN original[b] = 1 .. Len(original[b])
  BY CopyListsAreLists DEF IInv, TypeOK
<1>2. \A i \in DOMAIN original[b] : original[b][i].d \in Ids /\ original[b][i].s \in Ids
  <2>1. \A i \in 1 .. Len(original[b]) : original[b][i] \in [d : Ids, s : Ids]
    BY <1>1, ElementOfSeq
  <2> QED BY <1>1, <2>1
<1>3. copies' = original[b] /\ cur' = b /\ left' = left \ {b} /\ cur = NoBlock /\ b \in left
  BY DEF TakeBlock
<1>4. /\ original' = original /\ lastValueId' = lastValueId /\ code' = code
      /\ mirLastValueId' = mirLastValueId /\ reg' = reg
  BY DEF TakeBlock
<1>5. \A v \in Ids : reg[b][v] = v
  BY <1>3 DEF IInv, Settled
<1>6. original[b] \in Seq(Copy(lastValueId))
  <2>1. original[b] \in Seq(Copy(HirValues))
    BY <1>1 DEF Copy, Ids
  <2> QED BY <2>1, WiderSeq DEF IInv, TypeOK
<1>7. TypeOK'
  BY <1>3, <1>4, <1>6 DEF IInv, TypeOK, Copy
<1>8. NoLostValue'
  <2>1. Ids \subseteq DOMAIN reg[b]
    BY DEF IInv, TypeOK
  <2> SUFFICES ASSUME NEW i \in DOMAIN original[b]
               PROVE  /\ original[b][i].s \in DOMAIN reg[b]
                      /\ reg[b][original[b][i].s]
                           = PA!Target(original[b], original[b][i].d)
    BY <1>3, <1>4 DEF NoLostValue
  <2>2. PA!Target(original[b], original[b][i].d) = original[b][i].s
    BY <1>1, TargetOfCopy
  <2> QED BY <1>2, <1>5, <2>1, <2>2
<1>9. PhiSemantics'
  BY <1>3, <1>4 DEF IInv, PhiSemantics
<1>10. Settled'
  BY <1>1, <1>3, <1>4, <1>5, TargetOfOther DEF IInv, Settled
<1>11. FrameIsFinal'
  BY <1>3, <1>4 DEF IInv, FrameIsFinal
<1> QED BY <1>7, <1>8, <1>9, <1>10, <1>11 DEF IInv

\* What the invariant says of the list being drained, entry by entry.
LEMMA PendingEntries ==
  ASSUME IInv, cur # NoBlock
  PROVE  /\ cur \in Blocks
         /\ copies \in Seq(Copy(lastValueId))
         /\ DOMAIN copies = 1 .. Len(copies)
         /\ lastValueId \in Nat
         /\ \A v \in Ids : v \in DOMAIN reg[cur] /\ v \in 0 .. lastValueId - 1
         /\ \A j \in DOMAIN copies :
              /\ copies[j].d \in Ids
              /\ copies[j].s \in DOMAIN reg[cur]
              /\ copies[j].s \in 0 .. lastValueId - 1
              /\ reg[cur][copies[j].s] = PA!Target(original[cur], copies[j].d)
<1>1. cur \in Blocks /\ lastValueId \in Nat /\ HirValues <= lastValueId
  BY DEF IInv, TypeOK
<1>2. copies \in Seq(Copy(lastValueId)) /\ DOMAIN copies = 1 .. Len(copies)
  BY LenProperties DEF IInv, TypeOK, Copy
<1>3. \A j \in 1 .. Len(copies) : copies[j] \in Copy(lastValueId)
  BY <1>2, ElementOfSeq
<1>4. \A j \in DOMAIN copies : copies[j].d \in Ids /\ copies[j].s \in 0 .. lastValueId - 1
  BY <1>2, <1>3 DEF Copy
<1>5. \A j \in DOMAIN copies :
        /\ copies[j].s \in DOMAIN reg[cur]
        /\ reg[cur][copies[j].s] = PA!Target(original[cur], copies[j].d)
  BY DEF IInv, NoLostValue
<1>6. \A v \in Ids : v \in DOMAIN reg[cur] /\ v \in 0 .. lastValueId - 1
  BY <1>1, PhiCopiesAssumption DEF IInv, TypeOK, Ids
<1> QED BY <1>1, <1>2, <1>4, <1>5, <1>6

\* Emitting a safe copy preserves it: no other pending copy reads what it overwrites.
LEMMA EmitSafeIInv ==
  ASSUME IInv, EmitSafe
  PROVE  IInv'
<1>1. /\ cur # NoBlock
      /\ original' = original /\ left' = left /\ cur' = cur
      /\ lastValueId' = lastValueId /\ mirLastValueId' = mirLastValueId
  BY DEF EmitSafe
<1>2. PICK i \in DOMAIN copies : /\ Safe(i)
                                 /\ Move(copies[i].d, copies[i].s)
                                 /\ copies' = RemoveAt(copies, i)
  BY DEF EmitSafe
<1> DEFINE d   == copies[i].d
           src == copies[i].s
<1>3. /\ d \in Ids /\ d \in 0 .. lastValueId - 1
      /\ src \in DOMAIN reg[cur]
      /\ reg[cur][src] = PA!Target(original[cur], d)
      /\ cur \in Blocks /\ lastValueId \in Nat
  BY <1>1, PendingEntries
<1>4. TypeOK /\ lastValueId <= lastValueId /\ Move(d, src)
  BY <1>2, <1>3 DEF IInv
<1>5. \A j \in DOMAIN copies \ {i} : copies[j].s # d
  BY <1>2 DEF Safe
<1>6. \A v : (\A j \in DOMAIN copies \ {i} : copies[j].d # v) /\ v # d
              => \A j \in DOMAIN copies : copies[j].d # v
  OBVIOUS
<1> HIDE DEF d, src
<1>7. /\ code' \in [Blocks -> Seq([dst : 0 .. lastValueId - 1, src : 0 .. lastValueId - 1])]
      /\ DOMAIN reg' = Blocks
      /\ \A b \in Blocks : /\ reg'[b] \in [DOMAIN reg'[b] -> Ids]
                           /\ Ids \subseteq DOMAIN reg'[b]
                           /\ DOMAIN reg'[b] \subseteq 0 .. lastValueId - 1
      /\ \A b \in Blocks \ {cur} : reg'[b] = reg[b]
      /\ reg'[cur][d] = reg[cur][src]
      /\ DOMAIN reg'[cur] = DOMAIN reg[cur] \cup {d}
      /\ \A v \in DOMAIN reg[cur] : v # d => reg'[cur][v] = reg[cur][v]
  BY ONLY <1>3, <1>4, MoveStep
<1>8. \A b \in Blocks \ {cur} : reg'[b] = reg[b]
  BY <1>7
<1>9. /\ copies' \in Seq(Copy(lastValueId))
      /\ \A k \in DOMAIN copies' : \E j \in DOMAIN copies \ {i} : copies'[k] = copies[j]
      /\ \A j \in DOMAIN copies \ {i} : \E k \in DOMAIN copies' : copies'[k] = copies[j]
      /\ \A k, l \in DOMAIN copies' : \E j, m \in DOMAIN copies \ {i} :
           copies'[k] = copies[j] /\ copies'[l] = copies[m] /\ (k # l => j # m)
  <2>1. copies \in Seq(Copy(lastValueId)) /\ i \in DOMAIN copies
    BY <1>1, PendingEntries
  <2>2. copies' = RemoveAt(copies, i)
    BY <1>2
  <2> QED BY ONLY <2>1, <2>2, RemoveAtEntries
<1>10. TypeOK'
  BY <1>1, <1>3, <1>7, <1>9 DEF IInv, TypeOK, Copy
<1>11. NoLostValue'
  <2> SUFFICES ASSUME NEW k \in DOMAIN copies'
               PROVE  /\ copies'[k].s \in DOMAIN reg'[cur]
                      /\ reg'[cur][copies'[k].s] = PA!Target(original[cur], copies'[k].d)
    BY <1>1 DEF NoLostValue
  <2>1. PICK j \in DOMAIN copies \ {i} : copies'[k] = copies[j]
    BY <1>9
  <2>2. /\ copies[j].s \in DOMAIN reg[cur]
        /\ reg[cur][copies[j].s] = PA!Target(original[cur], copies[j].d)
    BY <1>1, PendingEntries
  <2>3. reg'[cur][copies[j].s] = reg[cur][copies[j].s]
    BY <1>5, <1>7, <2>2
  <2> QED BY <1>7, <2>1, <2>2, <2>3
<1>12. PhiSemantics'
  <2> SUFFICES ASSUME NEW b \in Blocks, b \notin left, b # cur, NEW v \in Ids
               PROVE  reg'[b][v] = PA!Target(original[b], v)
    BY <1>1 DEF PhiSemantics
  <2> QED BY <1>8 DEF IInv, PhiSemantics
<1>13. Settled'
  <2>1. Distinct(copies')
    <3>1. \A j, m \in DOMAIN copies : copies[j].d = copies[m].d => j = m
      BY <1>1 DEF IInv, Settled, Distinct
    <3>2. \A k, l \in DOMAIN copies' : copies'[k].d = copies'[l].d => k = l
      <4> SUFFICES ASSUME NEW k \in DOMAIN copies', NEW l \in DOMAIN copies',
                          k # l
                   PROVE  copies'[k].d # copies'[l].d
        OBVIOUS
      <4>1. PICK j \in DOMAIN copies \ {i}, m \in DOMAIN copies \ {i} :
              copies'[k] = copies[j] /\ copies'[l] = copies[m] /\ j # m
        BY <1>9
      <4> QED BY <3>1, <4>1
    <3> QED BY <3>2 DEF Distinct
  <2>2. ASSUME NEW v \in Ids, \A k \in DOMAIN copies' : copies'[k].d # v
        PROVE  reg'[cur][v] = PA!Target(original[cur], v)
    <3>1. CASE v = d
      BY <1>3, <1>7, <3>1
    <3>2. CASE v # d
      <4>1. \A j \in DOMAIN copies \ {i} : copies[j].d # v
        BY <1>9, <2>2
      <4>4. \A j \in DOMAIN copies : copies[j].d # v
        BY <1>6, <4>1, <3>2
      <4>2. reg[cur][v] = PA!Target(original[cur], v)
        BY <1>1, <4>4 DEF IInv, Settled
      <4>3. v \in DOMAIN reg[cur]
        BY <1>1, PendingEntries
      <4> QED BY <1>7, <3>2, <4>2, <4>3
    <3> QED BY <3>1, <3>2
  <2>3. \A b \in left : b \in Blocks \ {cur}
    BY DEF IInv, TypeOK
  <2>4. \A b \in left : \A v \in Ids : reg'[b][v] = v
    BY <1>8, <2>3 DEF IInv, Settled
  <2> QED BY <1>1, <2>1, <2>2, <2>4 DEF Settled
<1>14. FrameIsFinal'
  BY <1>1 DEF IInv, FrameIsFinal
<1> QED BY <1>10, <1>11, <1>12, <1>13, <1>14 DEF IInv

\* Saving a source in a fresh temporary preserves it: no register is overwritten.
LEMMA BreakCycleIInv ==
  ASSUME IInv, BreakCycle
  PROVE  IInv'
<1> DEFINE n   == lastValueId + 1
           tmp == lastValueId
           src == copies[1].s
<1>1. /\ cur # NoBlock /\ copies # << >>
      /\ original' = original /\ left' = left /\ cur' = cur
      /\ lastValueId' = n /\ mirLastValueId' = mirLastValueId
      /\ copies' = [copies EXCEPT ![1].s = tmp]
      /\ Move(tmp, src)
  BY DEF BreakCycle
<1>2. /\ cur \in Blocks /\ lastValueId \in Nat
      /\ copies \in Seq(Copy(lastValueId)) /\ DOMAIN copies = 1 .. Len(copies)
  BY <1>1, PendingEntries
<1>3. 1 \in DOMAIN copies
  BY <1>1, <1>2, EmptySeq
<1>4. /\ src \in DOMAIN reg[cur]
      /\ reg[cur][src] = PA!Target(original[cur], copies[1].d)
  BY <1>1, <1>3, PendingEntries
<1>5. tmp \notin DOMAIN reg[cur]
  BY <1>2 DEF IInv, TypeOK
<1>6. TypeOK /\ n \in Nat /\ lastValueId <= n /\ tmp \in 0 .. n - 1 /\ Move(tmp, src)
  BY <1>1, <1>2 DEF IInv
<1>7. /\ copies' \in Seq(Copy(n))
      /\ DOMAIN copies' = DOMAIN copies
      /\ copies'[1].s = tmp
      /\ \A j \in DOMAIN copies : copies'[j].d = copies[j].d
      /\ \A j \in DOMAIN copies : j # 1 => copies'[j].s = copies[j].s
  <2>1. copies \in Seq(Copy(n))
    <3> HIDE DEF n
    <3> QED BY <1>2, <1>6, WiderSeq
  <2>2. copies[1] \in Copy(n)
    BY <1>2, <1>3, <2>1, ElementOfSeq
  <2>3. [copies[1] EXCEPT !.s = tmp] \in Copy(n)
    BY <1>2, <2>2 DEF Copy
  <2>4. copies' = [copies EXCEPT ![1] = [copies[1] EXCEPT !.s = tmp]]
    BY <1>1
  <2>5. copies' \in Seq(Copy(n))
    BY <1>2, <1>3, <2>1, <2>3, <2>4, ExceptSeq
  <2>6. [copies[1] EXCEPT !.s = tmp].s = tmp /\ [copies[1] EXCEPT !.s = tmp].d = copies[1].d
    BY <2>2 DEF Copy
  <2>7. /\ DOMAIN copies' = DOMAIN copies
        /\ copies'[1] = [copies[1] EXCEPT !.s = tmp]
        /\ \A j \in DOMAIN copies : j # 1 => copies'[j] = copies[j]
    BY <1>3, <2>4
  <2> QED BY <2>5, <2>6, <2>7
<1> HIDE DEF tmp, src, n
<1>8. /\ code' \in [Blocks -> Seq([dst : 0 .. n - 1, src : 0 .. n - 1])]
      /\ DOMAIN reg' = Blocks
      /\ \A b \in Blocks : /\ reg'[b] \in [DOMAIN reg'[b] -> Ids]
                           /\ Ids \subseteq DOMAIN reg'[b]
                           /\ DOMAIN reg'[b] \subseteq 0 .. n - 1
      /\ \A b \in Blocks \ {cur} : reg'[b] = reg[b]
      /\ reg'[cur][tmp] = reg[cur][src]
      /\ DOMAIN reg'[cur] = DOMAIN reg[cur] \cup {tmp}
      /\ \A v \in DOMAIN reg[cur] : v # tmp => reg'[cur][v] = reg[cur][v]
  BY ONLY <1>2, <1>4, <1>6, MoveStep
<1>9. /\ \A b \in Blocks \ {cur} : reg'[b] = reg[b]
      /\ \A v \in DOMAIN reg[cur] : v \in DOMAIN reg'[cur] /\ reg'[cur][v] = reg[cur][v]
  BY <1>5, <1>8
<1>10. TypeOK'
  <2>1. HirValues <= n
    BY <1>2, PhiCopiesAssumption DEF n, IInv, TypeOK
  <2> QED BY <1>1, <1>2, <1>6, <1>7, <1>8, <2>1 DEF IInv, TypeOK, Copy
<1>11. NoLostValue'
  <2> SUFFICES ASSUME NEW j \in DOMAIN copies
               PROVE  /\ copies'[j].s \in DOMAIN reg'[cur]
                      /\ reg'[cur][copies'[j].s] = PA!Target(original[cur], copies'[j].d)
    BY <1>1, <1>7 DEF NoLostValue
  <2>1. CASE j = 1
    BY <1>4, <1>7, <1>8, <2>1
  <2>2. CASE j # 1
    <3>1. /\ copies[j].s \in DOMAIN reg[cur]
          /\ reg[cur][copies[j].s] = PA!Target(original[cur], copies[j].d)
      BY <1>1, PendingEntries
    <3> QED BY <1>7, <1>9, <2>2, <3>1
  <2> QED BY <2>1, <2>2
<1>12. PhiSemantics'
  <2> SUFFICES ASSUME NEW b \in Blocks, b \notin left, b # cur, NEW v \in Ids
               PROVE  reg'[b][v] = PA!Target(original[b], v)
    BY <1>1 DEF PhiSemantics
  <2> QED BY <1>9 DEF IInv, PhiSemantics
<1>13. Settled'
  <2>1. Distinct(copies')
    BY <1>1, <1>7 DEF IInv, Settled, Distinct
  <2>2. ASSUME NEW v \in Ids, \A j \in DOMAIN copies : copies[j].d # v
        PROVE  reg'[cur][v] = PA!Target(original[cur], v)
    <3>1. reg[cur][v] = PA!Target(original[cur], v) /\ v \in DOMAIN reg[cur]
      BY <1>1, <2>2, PendingEntries DEF IInv, Settled
    <3> QED BY <1>9, <3>1
  <2>3. \A b \in left : b \in Blocks \ {cur}
    BY DEF IInv, TypeOK
  <2>4. \A b \in left : \A v \in Ids : reg'[b][v] = v
    BY <1>9, <2>3 DEF IInv, Settled
  <2> QED BY <1>1, <1>7, <2>1, <2>2, <2>4 DEF Settled
<1>14. FrameIsFinal'
  BY <1>1 DEF IInv, FrameIsFinal
<1> QED BY <1>10, <1>11, <1>12, <1>13, <1>14 DEF IInv

\* Leaving a drained list preserves it: by then every copy has been delivered.
LEMMA FinishBlockIInv ==
  ASSUME IInv, FinishBlock
  PROVE  IInv'
<1>1. /\ cur # NoBlock /\ copies = << >> /\ cur' = NoBlock /\ copies' = copies
      /\ original' = original /\ left' = left /\ lastValueId' = lastValueId
      /\ code' = code /\ mirLastValueId' = mirLastValueId /\ reg' = reg
  BY DEF FinishBlock
<1>2. \A v \in Ids : reg[cur][v] = PA!Target(original[cur], v)
  BY <1>1 DEF IInv, Settled
<1>3. TypeOK'
  BY <1>1, PhiCopiesAssumption DEF IInv, TypeOK
<1>4. NoLostValue'
  BY <1>1 DEF NoLostValue
<1>5. PhiSemantics'
  BY <1>1, <1>2 DEF IInv, PhiSemantics
<1>6. Settled'
  BY <1>1 DEF IInv, Settled
<1>7. FrameIsFinal'
  BY <1>1 DEF IInv, FrameIsFinal
<1> QED BY <1>3, <1>4, <1>5, <1>6, <1>7 DEF IInv

\* Setting the frame size preserves it: lastValueId bounds every value the code names.
LEMMA SetFrameIInv ==
  ASSUME IInv, SetFrame
  PROVE  IInv'
<1>1. /\ cur = NoBlock /\ left = {} /\ mirLastValueId' = lastValueId
      /\ original' = original /\ left' = left /\ cur' = cur /\ copies' = copies
      /\ lastValueId' = lastValueId /\ code' = code /\ reg' = reg
  BY DEF SetFrame
<1>2. TypeOK'
  BY <1>1 DEF IInv, TypeOK
<1>3. NoLostValue' /\ FrameIsFinal'
  BY <1>1 DEF NoLostValue, FrameIsFinal
<1>4. PhiSemantics'
  BY <1>1 DEF IInv, PhiSemantics
<1>5. Settled'
  BY <1>1 DEF IInv, Settled
<1> QED BY <1>2, <1>3, <1>4, <1>5 DEF IInv

\* Every step of lowerHIRFunc preserves the invariant.
LEMMA StepIInv == IInv /\ [Next]_vars => IInv'
<1> SUFFICES ASSUME IInv, [Next]_vars PROVE IInv'
  OBVIOUS
<1>1. CASE \E b \in Blocks : TakeBlock(b)
  BY <1>1, TakeBlockIInv
<1>2. CASE EmitSafe
  BY <1>2, EmitSafeIInv
<1>3. CASE BreakCycle
  BY <1>3, BreakCycleIInv
<1>4. CASE FinishBlock
  BY <1>4, FinishBlockIInv
<1>5. CASE SetFrame
  BY <1>5, SetFrameIInv
<1>6. CASE UNCHANGED vars
  <2>1. /\ original' = original /\ left' = left /\ cur' = cur /\ copies' = copies
        /\ lastValueId' = lastValueId /\ code' = code
        /\ mirLastValueId' = mirLastValueId /\ reg' = reg
    BY <1>6 DEF vars
  <2> QED BY <2>1 DEF IInv, TypeOK, NoLostValue, PhiSemantics, Settled, FrameIsFinal
<1> QED BY <1>1, <1>2, <1>3, <1>4, <1>5, <1>6 DEF Next

\* The invariant the safety theorems below follow from holds in every state.
THEOREM InductiveInvariant == Spec => []IInv
<1> QED BY InitIInv, StepIInv, PTL DEF Spec

-----------------------------------------------------------------------------
\* What the invariant gives.

\* Type correctness of the phi-elimination loop (MIRBuilder::lowerHIRFunc).
THEOREM TypeCorrectness == Spec => []TypeOK
<1>1. IInv => TypeOK
  BY DEF IInv
<1> QED BY <1>1, InductiveInvariant, PTL

\* No MOVE the loop emits overwrites a value a pending copy has yet to read.
THEOREM NoValueIsLost == Spec => []NoLostValue
<1>1. IInv => NoLostValue
  BY DEF IInv
<1> QED BY <1>1, InductiveInvariant, PTL

\* The MOVEs of a finished block do what its phis require.
THEOREM MovesComputePhis == Spec => []PhiSemantics
<1>1. IInv => PhiSemantics
  BY DEF IInv
<1> QED BY <1>1, InductiveInvariant, PTL

\* The frame size covers every value the emitted code names.
THEOREM FrameIsLargeEnough == Spec => []FrameHoldsEveryValue
<1>1. IInv => FrameHoldsEveryValue
  <2> SUFFICES ASSUME IInv, mirLastValueId # INVALID_SLOT,
                      NEW b \in Blocks, NEW i \in DOMAIN code[b]
               PROVE  code[b][i].dst < mirLastValueId /\ code[b][i].src < mirLastValueId
    BY DEF FrameHoldsEveryValue
  <2>1. mirLastValueId = lastValueId /\ lastValueId \in Nat
    BY DEF IInv, FrameIsFinal, TypeOK
  <2>2. code[b] \in Seq([dst : 0 .. lastValueId - 1, src : 0 .. lastValueId - 1])
    BY DEF IInv, TypeOK
  <2>3. code[b][i] \in [dst : 0 .. lastValueId - 1, src : 0 .. lastValueId - 1]
    BY <2>2, LenProperties, ElementOfSeq
  <2> QED BY <2>1, <2>3
<1> QED BY <1>1, InductiveInvariant, PTL

-----------------------------------------------------------------------------
\* The MOVEs implement the parallel assignment.

AbsVal == [b \in Blocks |-> IF b \in left \/ b = cur THEN [v \in Ids |-> v]
                                                     ELSE [v \in Ids |-> reg[b][v]]]
AbsLeft == left \cup ({cur} \ {NoBlock})

\* Every step performs a block's whole parallel assignment or changes nothing of it.
LEMMA RefinementStep ==
  ASSUME IInv, [Next]_vars
  PROVE  [PA!Next]_(PA!vars)
<1> USE PhiCopiesAssumption
<1>1. /\ cur \in Blocks \cup {NoBlock} /\ cur \notin left /\ left \subseteq Blocks
      /\ DOMAIN reg = Blocks
  BY DEF IInv, TypeOK
<1>2. ASSUME original' = original, AbsVal' = AbsVal, AbsLeft' = AbsLeft
      PROVE  [PA!Next]_(PA!vars)
  BY <1>2 DEF PA!vars, AbsVal, AbsLeft
<1>3. ASSUME NEW b \in Blocks, TakeBlock(b)
      PROVE  [PA!Next]_(PA!vars)
  <2>1. /\ cur = NoBlock /\ b \in left /\ cur' = b /\ left' = left \ {b}
        /\ original' = original /\ reg' = reg
    BY <1>3 DEF TakeBlock
  <2>2. AbsLeft' = AbsLeft
    BY <1>1, <2>1 DEF AbsLeft
  <2>3. AbsVal' = AbsVal
    BY <1>1, <2>1 DEF AbsVal
  <2> QED BY <1>2, <2>1, <2>2, <2>3
<1>4. ASSUME NEW dst, NEW src, Move(dst, src), cur' = cur, left' = left,
             original' = original, cur # NoBlock
      PROVE  [PA!Next]_(PA!vars)
  <2>1. \A b \in Blocks : b # cur => reg'[b] = reg[b]
    BY <1>1, <1>4 DEF Move
  <2>2. AbsVal' = AbsVal
    BY <1>4, <2>1 DEF AbsVal
  <2>3. AbsLeft' = AbsLeft
    BY <1>4 DEF AbsLeft
  <2> QED BY <1>2, <1>4, <2>2, <2>3
<1>5. CASE EmitSafe
  <2>1. PICK i \in DOMAIN copies : Move(copies[i].d, copies[i].s)
    BY <1>5 DEF EmitSafe
  <2>2. cur' = cur /\ left' = left /\ original' = original /\ cur # NoBlock
    BY <1>5 DEF EmitSafe
  <2> QED BY <1>4, <2>1, <2>2
<1>6. CASE BreakCycle
  <2>1. /\ Move(lastValueId, copies[1].s)
        /\ cur' = cur /\ left' = left /\ original' = original /\ cur # NoBlock
    BY <1>6 DEF BreakCycle
  <2> QED BY <1>4, <2>1
<1>7. CASE FinishBlock
  <2>1. /\ cur # NoBlock /\ cur' = NoBlock /\ copies = << >>
        /\ left' = left /\ original' = original /\ reg' = reg
    BY <1>7 DEF FinishBlock
  <2>2. cur \in Blocks /\ \A v \in Ids : reg[cur][v] = PA!Target(original[cur], v)
    BY <1>1, <2>1 DEF IInv, Settled
  <2>3. cur \in AbsLeft /\ AbsLeft' = AbsLeft \ {cur}
    BY <1>1, <2>1 DEF AbsLeft
  <2>4. [v \in Ids |-> reg[cur][v]] = [v \in Ids |-> PA!Target(original[cur], v)]
    BY <2>2
  <2>5. AbsVal' = [AbsVal EXCEPT ![cur] = [v \in Ids |-> PA!Target(original[cur], v)]]
    <3>1. AbsVal' = [b \in Blocks |-> IF b \in left THEN [v \in Ids |-> v]
                                                    ELSE [v \in Ids |-> reg[b][v]]]
      BY <1>1, <2>1 DEF AbsVal
    <3>2. AbsVal = [b \in Blocks |-> IF b \in left \/ b = cur
                                      THEN [v \in Ids |-> v]
                                      ELSE [v \in Ids |-> reg[b][v]]]
      BY DEF AbsVal
    <3>3. \A b \in Blocks : b # cur => AbsVal'[b] = AbsVal[b]
      BY <3>1, <3>2
    <3>4. AbsVal'[cur] = [v \in Ids |-> PA!Target(original[cur], v)]
      BY <1>1, <2>2, <2>4, <3>1
    <3> HIDE DEF AbsVal
    <3> QED BY <3>1, <3>2, <3>3, <3>4
  <2>6. PA!Assign(cur)
    BY <2>1, <2>3, <2>5 DEF PA!Assign, AbsVal, AbsLeft
  <2>7. PA!Next
    BY <2>2, <2>6 DEF PA!Next, PA!Assign
  <2> QED BY <2>7
<1>8. CASE SetFrame
  BY <1>2, <1>8 DEF SetFrame, AbsVal, AbsLeft
<1>9. CASE UNCHANGED vars
  BY <1>2, <1>9 DEF vars, AbsVal, AbsLeft
<1> QED BY <1>3, <1>5, <1>6, <1>7, <1>8, <1>9 DEF Next

\* Lowering the phis of a function implements performing, for every
\* predecessor block, all the copies of that block at once.
THEOREM RefinesParallelAssign == Spec => ImplementsParallelAssign
<1>1. Init => PA!Init
  BY DEF Init, PA!Init
<1>2. IInv /\ [Next]_vars => [PA!Next]_(PA!vars)
  BY RefinementStep
<1> QED BY <1>1, <1>2, InductiveInvariant, PTL
           DEF Spec, PA!Spec, ImplementsParallelAssign

-----------------------------------------------------------------------------
\* When no copy is safe.

\* n distinct destinations, each read by some entry of the n-entry list: the
\* sources are the destinations, each read once.
LEMMA StuckIsPermutation ==
  ASSUME NEW c, NEW n \in Nat, DOMAIN c = 1 .. n, Distinct(c),
         \A i \in DOMAIN c : \E j \in DOMAIN c : c[j].s = c[i].d
  PROVE  /\ {c[i].s : i \in DOMAIN c} = {c[i].d : i \in DOMAIN c}
         /\ \A i, j \in DOMAIN c : c[i].s = c[j].s => i = j
<1> DEFINE D == {c[i].d : i \in DOMAIN c}
           S == {c[i].s : i \in DOMAIN c}
           dst == [i \in 1 .. n |-> c[i].d]
           src == [i \in 1 .. n |-> c[i].s]
<1>1. IsFiniteSet(1 .. n) /\ Cardinality(1 .. n) = n
  BY FS_Interval
<1>2. dst \in Surjection(1 .. n, D) /\ dst \in Injection(1 .. n, D)
  BY DEF Surjection, Injection, IsInjective, Distinct
<1>3. src \in Surjection(1 .. n, S)
  BY DEF Surjection
<1>4. D \subseteq S
  OBVIOUS
<1> HIDE DEF D, S, dst, src
<1>5. IsFiniteSet(D) /\ Cardinality(D) = n
  BY <1>1, <1>2, FS_Surjection
<1>6. IsFiniteSet(S) /\ Cardinality(S) <= n
  BY <1>1, <1>3, FS_Surjection
<1>7. D = S
  <2>1. Cardinality(D) <= Cardinality(S) /\ (Cardinality(S) = Cardinality(D) => S = D)
    BY <1>4, <1>6, FS_Subset
  <2> QED BY <1>5, <1>6, <2>1, FS_CardinalityType
<1>8. src \in Injection(1 .. n, S)
  BY <1>1, <1>3, <1>5, <1>6, <1>7, FS_Surjection
<1>9. \A i, j \in 1 .. n : src[i] = src[j] => i = j
  BY <1>8 DEF Injection, IsInjective, src
<1> QED BY <1>7, <1>9 DEF D, S, src

\* A temporary is taken only when the pending copies permute their values and
\* the saved source has one reader, so replacing that reader's source alone is
\* enough; this holds although the loop meant to replace every reader.
THEOREM TempsOnlyBreakCycles == Spec => TempOnlyForPermutation
<1> DEFINE P == lastValueId' # lastValueId =>
                  /\ {copies[i].s : i \in DOMAIN copies} = {copies[i].d : i \in DOMAIN copies}
                  /\ \A i \in DOMAIN copies : copies[i].s = copies[1].s => i = 1
<1>1. ASSUME IInv, [Next]_vars PROVE [P]_vars
  <2>1. SUFFICES ASSUME BreakCycle PROVE P
    BY <1>1 DEF Next, TakeBlock, EmitSafe, FinishBlock, SetFrame, vars
  <2>2. cur # NoBlock /\ copies # << >> /\ \A i \in DOMAIN copies : ~ Safe(i)
    BY <2>1 DEF BreakCycle
  <2>3. /\ DOMAIN copies = 1 .. Len(copies) /\ Len(copies) \in Nat
        /\ 1 \in DOMAIN copies
    BY <1>1, <2>2, PendingEntries, LenProperties, EmptySeq
  <2>4. Distinct(copies)
    BY <1>1, <2>2 DEF IInv, Settled
  <2>5. \A i \in DOMAIN copies : \E j \in DOMAIN copies : copies[j].s = copies[i].d
    BY <2>2 DEF Safe
  <2>6. /\ {copies[i].s : i \in DOMAIN copies} = {copies[i].d : i \in DOMAIN copies}
        /\ \A i, j \in DOMAIN copies : copies[i].s = copies[j].s => i = j
    BY <2>3, <2>4, <2>5, StuckIsPermutation
  <2> QED BY <2>3, <2>6
<1> QED BY <1>1, InductiveInvariant, PTL DEF Spec, TempOnlyForPermutation

-----------------------------------------------------------------------------
\* Temporaries are not shared.

\* A temporary a pending copy will read has been written for the same block.
SavedBefore ==
  cur # NoBlock =>
    \A i \in DOMAIN copies : copies[i].s \notin Ids =>
      \E j \in DOMAIN code[cur] : code[cur][j].dst = copies[i].s

\* With TypeOK alone TempsPrivate is not inductive: the MOVE emitted for a pending
\* copy reads whatever temporary the copy was given.
TempInv == TempsPrivate /\ SavedBefore

\* A MOVE appended to the current block: what the blocks' code is afterwards.
LEMMA MoveAppends ==
  ASSUME TypeOK, cur \in Blocks, NEW dst, NEW src, Move(dst, src)
  PROVE  /\ \A b \in Blocks \ {cur} : code'[b] = code[b]
         /\ Len(code[cur]) \in Nat /\ DOMAIN code[cur] = 1 .. Len(code[cur])
         /\ DOMAIN code'[cur] = 1 .. Len(code[cur]) + 1
         /\ \A j \in DOMAIN code[cur] : code'[cur][j] = code[cur][j]
         /\ code'[cur][Len(code[cur]) + 1] = [dst |-> dst, src |-> src]
<1> DEFINE T == [dst : 0 .. lastValueId - 1, src : 0 .. lastValueId - 1]
           m == [dst |-> dst, src |-> src]
           s == code[cur]
<1>1. code \in [Blocks -> Seq(T)]
  BY DEF TypeOK
<1>2. code' = [code EXCEPT ![cur] = Append(s, m)]
  BY DEF Move
<1> HIDE DEF T, m
<1>3. s \in Seq(T) /\ code'[cur] = Append(s, m) /\ \A b \in Blocks \ {cur} : code'[b] = code[b]
  BY <1>1, <1>2
<1> HIDE DEF s
<1>4. s \in Seq(T \cup {m}) /\ m \in T \cup {m}
  BY <1>3, SeqMonotonic
<1>5. /\ Append(s, m) \in Seq(T \cup {m}) /\ Len(Append(s, m)) = Len(s) + 1
      /\ \A j \in 1 .. Len(s) : Append(s, m)[j] = s[j]
      /\ Append(s, m)[Len(s) + 1] = m
  BY <1>4, AppendProperties
<1>6. Len(s) \in Nat /\ DOMAIN s = 1 .. Len(s)
  BY <1>3, LenProperties
<1>7. DOMAIN Append(s, m) = 1 .. Len(s) + 1
  BY <1>5, LenProperties
<1> QED BY <1>3, <1>5, <1>6, <1>7 DEF s, m

\* A MOVE keeps temporaries private when it writes an SSA value or a temporary nothing
\* names yet, and reads an SSA value or a temporary of its own block.
LEMMA MoveKeepsTempsPrivate ==
  ASSUME TypeOK, TempsPrivate, cur \in Blocks, NEW dst, NEW src, Move(dst, src),
         dst \in Ids \/ dst = lastValueId,
         src \notin Ids => \E j \in DOMAIN code[cur] : code[cur][j].dst = src
  PROVE  TempsPrivate'
<1> DEFINE n == Len(code[cur])
<1>1. /\ \A b \in Blocks \ {cur} : code'[b] = code[b]
      /\ n \in Nat /\ DOMAIN code[cur] = 1 .. n
      /\ DOMAIN code'[cur] = 1 .. n + 1
      /\ \A j \in DOMAIN code[cur] : code'[cur][j] = code[cur][j]
      /\ code'[cur][n + 1] = [dst |-> dst, src |-> src]
  BY MoveAppends
<1> HIDE DEF n
<1>2. ASSUME NEW b \in Blocks, NEW i \in DOMAIN code[b]
      PROVE  code[b][i].dst # lastValueId
  <2>1. code[b] \in Seq([dst : 0 .. lastValueId - 1, src : 0 .. lastValueId - 1])
    BY DEF TypeOK
  <2>2. code[b][i] \in [dst : 0 .. lastValueId - 1, src : 0 .. lastValueId - 1]
    BY <2>1, LenProperties, ElementOfSeq
  <2>3. lastValueId \in Nat /\ code[b][i].dst \in 0 .. lastValueId - 1
    BY <2>2 DEF TypeOK
  <2> QED BY <2>3
\* Entry i of block b's code is an old one or the new last one of cur.
<1> DEFINE Old(b, i) == i \in DOMAIN code[b] /\ code'[b][i] = code[b][i]
           New(b, i) == b = cur /\ i = n + 1 /\ code'[b][i].dst = dst /\ code'[b][i].src = src
<1>3. \A b \in Blocks : \A i \in DOMAIN code'[b] : Old(b, i) \/ New(b, i)
  <2> TAKE b \in Blocks
  <2> TAKE i \in DOMAIN code'[b]
  <2>1. CASE b # cur
    BY <1>1, <2>1
  <2>2. CASE b = cur /\ i = n + 1
    BY <1>1, <2>2
  <2>3. CASE b = cur /\ i # n + 1
    <3>1. i \in 1 .. n
      BY <1>1, <2>3
    <3> QED BY <1>1, <2>3, <3>1
  <2> QED BY <2>1, <2>2, <2>3
<1>4. ASSUME NEW b \in Blocks, NEW i \in DOMAIN code'[b], code'[b][i].dst \notin Ids,
             NEW c \in Blocks, NEW j \in DOMAIN code'[c], code'[c][j].dst = code'[b][i].dst
      PROVE  <<c, j>> = <<b, i>>
  <2>1. CASE Old(b, i) /\ Old(c, j)
    BY <1>4, <2>1 DEF TempsPrivate
  <2>2. CASE New(b, i) /\ New(c, j)
    BY <2>2
  <2>3. CASE Old(b, i) /\ New(c, j)
    BY <1>2, <1>4, <2>3
  <2>4. CASE New(b, i) /\ Old(c, j)
    BY <1>2, <1>4, <2>4
  <2> QED BY <1>3, <2>1, <2>2, <2>3, <2>4
<1>5. ASSUME NEW b \in Blocks, NEW i \in DOMAIN code'[b], code'[b][i].src \notin Ids
      PROVE  \E j \in 1 .. i - 1 : code'[b][j].dst = code'[b][i].src
  <2>1. CASE Old(b, i)
    <3>1. PICK j \in 1 .. i - 1 : code[b][j].dst = code[b][i].src
      BY <1>5, <2>1 DEF TempsPrivate
    <3>2. j \in DOMAIN code[b] /\ code'[b][j] = code[b][j]
      <4>1. DOMAIN code[b] = 1 .. Len(code[b]) /\ Len(code[b]) \in Nat
        BY LenProperties DEF TypeOK
      <4>2. j \in DOMAIN code[b]
        BY <2>1, <4>1
      <4> QED BY <1>1, <4>2
    <3> QED BY <2>1, <3>1, <3>2
  <2>2. CASE New(b, i)
    <3>1. PICK j \in DOMAIN code[cur] : code[cur][j].dst = src
      BY <1>5, <2>2
    <3>2. j \in 1 .. i - 1 /\ code'[b][j] = code[cur][j]
      BY <1>1, <2>2, <3>1
    <3> QED BY <2>2, <3>1, <3>2
  <2> QED BY <1>3, <2>1, <2>2
<1> HIDE DEF Old, New
<1> QED BY <1>4, <1>5 DEF TempsPrivate

\* A MOVE leaves what the block has already saved.
LEMMA MoveKeepsSaved ==
  ASSUME TypeOK, cur \in Blocks, NEW dst, NEW src, Move(dst, src),
         NEW t, t = dst \/ \E j \in DOMAIN code[cur] : code[cur][j].dst = t
  PROVE  \E j \in DOMAIN code'[cur] : code'[cur][j].dst = t
<1> DEFINE n == Len(code[cur])
<1>1. /\ n \in Nat /\ DOMAIN code[cur] = 1 .. n /\ DOMAIN code'[cur] = 1 .. n + 1
      /\ \A j \in DOMAIN code[cur] : code'[cur][j] = code[cur][j]
      /\ code'[cur][n + 1] = [dst |-> dst, src |-> src]
  BY MoveAppends
<1> HIDE DEF n
<1>2. n + 1 \in DOMAIN code'[cur] /\ \A j \in DOMAIN code[cur] : j \in DOMAIN code'[cur]
  BY <1>1
<1> QED BY <1>1, <1>2

\* No list shares a temporary with another, and every temporary is written before it
\* is read: the counter lastValueId is never reset between blocks.
THEOREM TempsArePrivate == Spec => []TempsPrivate
<1>1. Init => TempInv
  BY EmptySeq DEF Init, TempInv, TempsPrivate, SavedBefore
<1>2. ASSUME IInv, TempInv, [Next]_vars
      PROVE  TempInv'
  <2>0. TypeOK /\ TempsPrivate /\ SavedBefore
    BY <1>2 DEF IInv, TempInv
  <2>1. ASSUME NEW b \in Blocks, TakeBlock(b)
        PROVE  TempInv'
    <3>1. copies' = original[b] /\ code' = code
      BY <2>1 DEF TakeBlock
    <3>2. original[b] \in Seq([d : Ids, s : Ids])
      BY <2>0, CopyListsAreLists DEF TypeOK
    <3>3. \A i \in DOMAIN copies' : copies'[i].s \in Ids
      <4>1. \A i \in DOMAIN original[b] : original[b][i] \in [d : Ids, s : Ids]
        BY <3>2, LenProperties, ElementOfSeq
      <4> QED BY <3>1, <4>1
    <3> QED BY <2>0, <3>1, <3>3 DEF TempInv, TempsPrivate, SavedBefore
  <2>2. CASE EmitSafe
    <3>1. cur # NoBlock /\ cur' = cur
      BY <2>2 DEF EmitSafe
    <3>2. PICK i \in DOMAIN copies : Move(copies[i].d, copies[i].s) /\ copies' = RemoveAt(copies, i)
      BY <2>2 DEF EmitSafe
    <3>3. cur \in Blocks /\ copies[i].d \in Ids /\ copies \in Seq(Copy(lastValueId))
      BY <1>2, <3>1, PendingEntries
    <3>4. TempsPrivate'
      BY <2>0, <3>1, <3>2, <3>3, MoveKeepsTempsPrivate DEF SavedBefore
    <3>5. \A k \in DOMAIN copies' : \E j \in DOMAIN copies : copies'[k] = copies[j]
      BY <3>2, <3>3, RemoveAtEntries
    <3>6. \A k \in DOMAIN copies : copies[k].s \notin Ids =>
            \E j \in DOMAIN code'[cur] : code'[cur][j].dst = copies[k].s
      BY <2>0, <3>1, <3>2, <3>3, MoveKeepsSaved DEF SavedBefore
    <3>7. SavedBefore'
      BY <3>1, <3>5, <3>6 DEF SavedBefore
    <3> QED BY <3>4, <3>7 DEF TempInv
  <2>3. CASE BreakCycle
    <3>1. /\ cur # NoBlock /\ cur' = cur /\ copies # << >>
          /\ Move(lastValueId, copies[1].s)
          /\ copies' = [copies EXCEPT ![1].s = lastValueId]
      BY <2>3 DEF BreakCycle
    <3>2. cur \in Blocks /\ copies \in Seq(Copy(lastValueId)) /\ DOMAIN copies = 1 .. Len(copies)
      BY <1>2, <3>1, PendingEntries
    <3>3. 1 \in DOMAIN copies
      BY <3>1, <3>2, EmptySeq
    <3>4. TempsPrivate'
      BY <2>0, <3>1, <3>2, <3>3, MoveKeepsTempsPrivate DEF SavedBefore
    <3>5. ASSUME NEW k \in DOMAIN copies'
          PROVE  k \in DOMAIN copies /\ (copies'[k].s = lastValueId \/ copies'[k].s = copies[k].s)
      <4>1. copies[1] \in Copy(lastValueId)
        BY <3>2, <3>3, ElementOfSeq
      <4>2. copies' = [copies EXCEPT ![1] = [copies[1] EXCEPT !.s = lastValueId]]
        BY <3>1
      <4> QED BY <3>3, <4>1, <4>2 DEF Copy
    <3>6. ASSUME NEW k \in DOMAIN copies', copies'[k].s \notin Ids
          PROVE  \E j \in DOMAIN code'[cur] : code'[cur][j].dst = copies'[k].s
      <4> DEFINE t == copies'[k].s
      <4>1. t = lastValueId \/ \E j \in DOMAIN code[cur] : code[cur][j].dst = t
        BY <2>0, <3>1, <3>5, <3>6 DEF SavedBefore
      <4> HIDE DEF t
      <4>2. \E j \in DOMAIN code'[cur] : code'[cur][j].dst = t
        BY <2>0, <3>1, <3>2, <4>1, MoveKeepsSaved
      <4> QED BY <4>2 DEF t
    <3>7. SavedBefore'
      BY <3>1, <3>6 DEF SavedBefore
    <3> QED BY <3>4, <3>7 DEF TempInv
  <2>4. CASE FinishBlock \/ SetFrame
    BY <2>0, <2>4 DEF FinishBlock, SetFrame, TempInv, TempsPrivate, SavedBefore
  <2>5. CASE UNCHANGED vars
    BY <2>0, <2>5 DEF vars, TempInv, TempsPrivate, SavedBefore
  <2> QED BY <1>2, <2>1, <2>2, <2>3, <2>4, <2>5 DEF Next
<1>3. TempInv => TempsPrivate
  BY DEF TempInv
<1> QED BY <1>1, <1>2, <1>3, InductiveInvariant, PTL DEF Spec

-----------------------------------------------------------------------------
\* The cycles of a list of copies.

\* from[k][v] is the value k copies upstream of v, T[v] the next one upstream.
Upstream(from, T) ==
  /\ from \in [Nat -> [Ids -> Ids]]
  /\ \A v \in Ids : from[0][v] = v
  /\ \A k \in Nat : \A v \in Ids : from[k + 1][v] = T[from[k][v]]
Orbit(from, n, v) == {from[k][v] : k \in 1 .. n}
OnCycle(from, n) == {v \in Ids : from[1][v] # v /\ \E k \in 1 .. n : from[k][v] = v}

\* A cycle has two or more values, each has one downstream, and what holds one of
\* them with all upstream of it holds all.
IsCycle(K, T) ==
  /\ K \in SUBSET Ids /\ K # {}
  /\ \A v \in K : T[v] # v
  /\ \A v \in K : \E w \in K : T[w] = v
  /\ \A S \in SUBSET Ids : (\A v \in S : T[v] \in S) => S \intersect K = {} \/ K \subseteq S
  /\ \A v \in K : T[v] \in K

Targets(c) == [v \in Ids |-> PA!Target(c, v)]

LEMMA UpstreamExists ==
  ASSUME NEW T \in [Ids -> Ids]
  PROVE  \E from : Upstream(from, T)
<1> DEFINE F == [Ids -> Ids]
           id == [v \in Ids |-> v]
           step == [g \in F |-> [v \in Ids |-> T[g[v]]]]
<1>1. id \in F /\ step \in [F -> F]
  OBVIOUS
<1>2. \A g \in F : \A v \in Ids : step[g][v] = T[g[v]]
  OBVIOUS
<1>3. \A v \in Ids : id[v] = v
  OBVIOUS
<1> HIDE DEF F, id, step
<1>4. \E g \in [Nat -> F] : g[0] = id /\ \A n \in Nat : g[n + 1] = step[g[n]]
  BY ONLY <1>1, IterationExists, SMTT(60)
<1>5. PICK from \in [Nat -> F] : from[0] = id /\ \A n \in Nat : from[n + 1] = step[from[n]]
  BY <1>4
<1>6. \A v \in Ids : from[0][v] = v
  BY <1>3, <1>5
<1>7. \A k \in Nat : \A v \in Ids : from[k + 1][v] = T[from[k][v]]
  BY <1>2, <1>5
<1>8. from \in [Nat -> [Ids -> Ids]]
  BY <1>5 DEF F
<1>9. Upstream(from, T)
  BY <1>6, <1>7, <1>8 DEF Upstream
<1> QED BY <1>9

\* CyclesOf defines the values upstream by recursion; it is the one function there is.
LEMMA CyclesOfIs ==
  ASSUME NEW c, Targets(c) \in [Ids -> Ids]
  PROVE  \E from : /\ Upstream(from, Targets(c))
                   /\ CyclesOf(c) = {Orbit(from, Len(c), v) : v \in OnCycle(from, Len(c))}
<1> DEFINE R(f) == [k \in Nat |-> [v \in Ids |-> IF k = 0 THEN v ELSE PA!Target(c, f[k - 1][v])]]
           from == CHOOSE f : f = R(f)
<1>1. PICK g : Upstream(g, Targets(c))
  BY UpstreamExists
<1>2. g = R(g)
  <2>1. g \in [Nat -> [Ids -> Ids]]
    BY <1>1 DEF Upstream
  <2>2. ASSUME NEW k \in Nat, NEW v \in Ids
        PROVE  g[k][v] = IF k = 0 THEN v ELSE PA!Target(c, g[k - 1][v])
    <3>1. CASE k = 0
      BY <1>1, <3>1 DEF Upstream
    <3>2. CASE k # 0
      <4>1. k - 1 \in Nat /\ (k - 1) + 1 = k
        BY <3>2
      <4>2. g[k][v] = Targets(c)[g[k - 1][v]]
        BY <1>1, <4>1 DEF Upstream
      <4>3. g[k - 1][v] \in Ids
        BY <2>1, <4>1
      <4> QED BY <3>2, <4>2, <4>3 DEF Targets
    <3> QED BY <3>1, <3>2
  <2>3. \A k \in Nat : g[k] = [v \in Ids |-> IF k = 0 THEN v ELSE PA!Target(c, g[k - 1][v])]
    BY <2>1, <2>2
  <2> QED BY <2>1, <2>3
<1>3. from = R(from)
  <2> HIDE DEF R
  <2> QED BY <1>2
<1>4. Upstream(from, Targets(c))
  <2> HIDE DEF from
  <2>1. \A v \in Ids : from[0][v] = v
    BY <1>3
  <2>2. ASSUME NEW k \in Nat, NEW v \in Ids
        PROVE  from[k + 1][v] = PA!Target(c, from[k][v])
    <3>1. k + 1 \in Nat /\ k + 1 # 0 /\ (k + 1) - 1 = k
      OBVIOUS
    <3> QED BY <1>3, <3>1
  <2>3. \A k \in Nat : from[k] \in [Ids -> Ids]
    <3> DEFINE N == {k \in Nat : from[k] \in [Ids -> Ids]}
    <3>1. from[0] \in [Ids -> Ids]
      BY <1>3
    <3>2. ASSUME NEW k \in Nat, from[k] \in [Ids -> Ids]
          PROVE  from[k + 1] \in [Ids -> Ids]
      <4>1. \A v \in Ids : PA!Target(c, from[k][v]) \in Ids
        BY <3>2 DEF Targets
      <4>2. from[k + 1] = [v \in Ids |-> PA!Target(c, from[k][v])]
        <5>1. k + 1 \in Nat /\ k + 1 # 0 /\ (k + 1) - 1 = k
          OBVIOUS
        <5> QED BY <1>3, <5>1
      <4> QED BY <4>1, <4>2
    <3>3. 0 \in N /\ \A k \in Nat : k \in N => k + 1 \in N
      BY <3>1, <3>2
    <3>4. \A k \in Nat : k \in N
      <4> HIDE DEF N
      <4> QED BY <3>3, SetInduction
    <3> QED BY <3>4
  <2>4. from \in [Nat -> [Ids -> Ids]]
    BY <1>3, <2>3
  <2> QED BY <2>1, <2>2, <2>4 DEF Upstream, Targets
<1>5. CyclesOf(c) = {Orbit(from, Len(c), v) : v \in OnCycle(from, Len(c))}
  BY DEF CyclesOf, Orbit, OnCycle
<1> QED BY <1>4, <1>5

\* Going up j values from the one k up is going up k + j.
LEMMA UpstreamAdds ==
  ASSUME NEW T, NEW from, Upstream(from, T), NEW v \in Ids, NEW k \in Nat
  PROVE  \A j \in Nat : from[j][from[k][v]] = from[k + j][v]
<1> DEFINE N == {j \in Nat : from[j][from[k][v]] = from[k + j][v]}
<1>1. \A j \in Nat : from[j] \in [Ids -> Ids]
  BY DEF Upstream
<1>2. from[k][v] \in Ids
  BY <1>1
<1>3. 0 \in N
  <2>1. from[0][from[k][v]] = from[k][v] /\ k + 0 = k
    BY <1>2 DEF Upstream
  <2> QED BY <2>1
<1>4. ASSUME NEW j \in Nat, j \in N
      PROVE  j + 1 \in N
  <2>1. from[j + 1][from[k][v]] = T[from[j][from[k][v]]]
    BY <1>2 DEF Upstream
  <2>2. k + j \in Nat /\ (k + j) + 1 = k + (j + 1)
    OBVIOUS
  <2>3. from[(k + j) + 1][v] = T[from[k + j][v]]
    BY <2>2 DEF Upstream
  <2> QED BY <1>4, <2>1, <2>2, <2>3
<1>5. \A j \in Nat : j \in N
  <2> HIDE DEF N
  <2> QED BY <1>3, <1>4, SetInduction
<1> QED BY <1>5

\* A set that holds a value and all upstream of what it holds.
LEMMA UpstreamStays ==
  ASSUME NEW T, NEW from, Upstream(from, T), NEW v \in Ids,
         NEW S, NEW i \in Nat, from[i][v] \in S, \A w \in S : T[w] \in S
  PROVE  \A j \in Nat : from[i + j][v] \in S
<1> DEFINE N == {j \in Nat : from[i + j][v] \in S}
<1>1. 0 \in N
  OBVIOUS
<1>2. ASSUME NEW j \in Nat, j \in N
      PROVE  j + 1 \in N
  <2>1. i + j \in Nat /\ (i + j) + 1 = i + (j + 1)
    OBVIOUS
  <2>2. from[(i + j) + 1][v] = T[from[i + j][v]]
    BY <2>1 DEF Upstream
  <2> QED BY <1>2, <2>1, <2>2
<1>3. \A j \in Nat : j \in N
  <2> HIDE DEF N
  <2> QED BY <1>1, <1>2, SetInduction
<1> QED BY <1>3

\* What comes back once comes back after any number of steps.
Recurs(from, v) == \A j \in Nat : \E i \in Nat : i >= j /\ from[i][v] = v

LEMMA ComesBackLater ==
  ASSUME NEW T, NEW from, Upstream(from, T), NEW v \in Ids,
         NEW m \in Nat, m >= 1, from[m][v] = v
  PROVE  Recurs(from, v)
<1> DEFINE N == {j \in Nat : \E i \in Nat : i >= j /\ from[i][v] = v}
<1>1. 0 \in N
  OBVIOUS
<1>2. ASSUME NEW j \in Nat, j \in N
      PROVE  j + 1 \in N
  <2>1. PICK i \in Nat : i >= j /\ from[i][v] = v
    BY <1>2
  <2>2. from[m][from[i][v]] = from[i + m][v]
    BY UpstreamAdds
  <2>3. i + m \in Nat /\ i + m >= j + 1
    BY <2>1
  <2> QED BY <2>1, <2>2, <2>3
<1>3. \A j \in Nat : j \in N
  <2> HIDE DEF N
  <2> QED BY <1>1, <1>2, SetInduction
<1> QED BY <1>3 DEF Recurs

\* The values upstream of one that comes back are a cycle.
LEMMA OrbitIsCycle ==
  ASSUME NEW T \in [Ids -> Ids], NEW from, Upstream(from, T), NEW n \in Nat,
         NEW v \in OnCycle(from, n)
  PROVE  IsCycle(Orbit(from, n, v), T) /\ v \in Orbit(from, n, v)
<1> DEFINE K == Orbit(from, n, v)
<1>1. v \in Ids /\ from[1][v] # v
  BY DEF OnCycle
<1>2. PICK m \in 1 .. n : from[m][v] = v
  BY DEF OnCycle
<1>3. m \in Nat /\ m >= 1 /\ m <= n
  BY <1>2
<1>4. v \in K
  BY <1>2 DEF Orbit
<1>5. \A k \in Nat : from[k] \in [Ids -> Ids]
  BY DEF Upstream
<1>6. K \in SUBSET Ids
  <2>1. \A k \in 1 .. n : k \in Nat
    OBVIOUS
  <2> QED BY <1>1, <1>5, <2>1 DEF Orbit
<1>7. from[1][v] = T[v]
  <2>1. 0 + 1 = 1 /\ 0 \in Nat
    OBVIOUS
  <2> QED BY <1>1, <2>1 DEF Upstream
<1>8. ASSUME NEW w \in K
      PROVE  T[w] \in K
  <2>1. PICK k \in 1 .. n : w = from[k][v]
    BY DEF Orbit
  <2>2. k \in Nat /\ from[k + 1][v] = T[w]
    BY <1>1, <2>1 DEF Upstream
  <2>3. CASE k < n
    <3>1. k + 1 \in 1 .. n
      BY <2>1, <2>3
    <3> QED BY <2>2, <3>1 DEF Orbit
  <2>4. CASE k = n
    <3> DEFINE e == (n + 1) - m
    <3>1. e \in 1 .. n /\ e \in Nat /\ m + e = k + 1
      BY <1>3, <2>4
    <3> HIDE DEF e
    <3>4. \A j \in Nat : from[j][from[m][v]] = from[m + j][v]
      BY <1>1, <1>3, UpstreamAdds, SMTT(60)
    <3>2. from[e][from[m][v]] = from[m + e][v]
      BY <3>1, <3>4
    <3>3. T[w] = from[e][v]
      BY <1>2, <2>2, <3>1, <3>2
    <3> QED BY <3>1, <3>3 DEF Orbit
  <2> QED BY <2>1, <2>3, <2>4
<1>9. ASSUME NEW w \in K
      PROVE  \E u \in K : T[u] = w
  <2>1. PICK k \in 1 .. n : w = from[k][v]
    BY DEF Orbit
  <2>2. CASE k = 1
    BY <1>4, <1>7, <2>1, <2>2
  <2>3. CASE k # 1
    <3>1. k - 1 \in 1 .. n /\ k - 1 \in Nat /\ (k - 1) + 1 = k
      BY <2>1, <2>3
    <3>2. T[from[k - 1][v]] = w
      BY <1>1, <2>1, <3>1 DEF Upstream
    <3>3. from[k - 1][v] \in K
      BY <3>1 DEF Orbit
    <3> QED BY <3>2, <3>3
  <2> QED BY <2>2, <2>3
<1>10. ASSUME NEW S \in SUBSET Ids, \A w \in S : T[w] \in S, NEW u \in S, u \in K
       PROVE  K \subseteq S
  <2>1. PICK k \in 1 .. n : u = from[k][v]
    BY <1>10 DEF Orbit
  <2>2. k \in Nat
    BY <2>1
  <2>9. Recurs(from, v)
    BY <1>1, <1>2, <1>3, ComesBackLater
  <2>3. PICK i \in Nat : i >= k /\ from[i][v] = v
    BY <2>2, <2>9 DEF Recurs
  <2>4. \A j \in Nat : from[k + j][v] \in S
    BY <1>1, <1>10, <2>1, <2>2, UpstreamStays
  <2>5. i - k \in Nat /\ k + (i - k) = i
    BY <2>2, <2>3
  <2>6. from[0][v] \in S
    BY <1>1, <2>3, <2>4, <2>5 DEF Upstream
  <2>7. \A j \in Nat : from[0 + j][v] \in S
    BY <1>1, <1>10, <2>6, UpstreamStays
  <2>8. \A j \in 1 .. n : j \in Nat /\ 0 + j = j
    OBVIOUS
  <2> QED BY <2>7, <2>8 DEF Orbit
<1>11. ASSUME NEW w \in K, T[w] = w
       PROVE  FALSE
  <2>1. w \in Ids
    BY <1>6
  <2>2. K \subseteq {w}
    <3> DEFINE S == {w}
    <3>1. S \in SUBSET Ids /\ w \in S /\ \A u \in S : T[u] \in S
      BY <1>11, <2>1
    <3> HIDE DEF S, K
    <3>2. K \subseteq S
      BY <1>10, <1>11, <3>1
    <3> QED BY <3>2 DEF S
  <2>3. v = w
    BY <1>4, <2>2
  <2> QED BY <1>1, <1>7, <1>11, <2>3
<1> HIDE DEF K
<1> QED BY <1>4, <1>6, <1>8, <1>9, <1>10, <1>11 DEF IsCycle, K

LEMMA CyclesAreCycles ==
  ASSUME NEW c, Len(c) \in Nat, Targets(c) \in [Ids -> Ids], NEW K \in CyclesOf(c)
  PROVE  IsCycle(K, Targets(c))
<1>1. PICK from : /\ Upstream(from, Targets(c))
                  /\ CyclesOf(c) = {Orbit(from, Len(c), v) : v \in OnCycle(from, Len(c))}
  BY CyclesOfIs
<1>2. PICK v \in OnCycle(from, Len(c)) : K = Orbit(from, Len(c), v)
  BY <1>1
<1> QED BY <1>1, <1>2, OrbitIsCycle

\* Two cycles with a common value are one.
LEMMA CyclesAreDisjoint ==
  ASSUME NEW T, NEW K, NEW L, IsCycle(K, T), IsCycle(L, T), NEW v, v \in K, v \in L
  PROVE  K = L
<1>1. K \subseteq L
  BY DEF IsCycle
<1>2. L \subseteq K
  BY DEF IsCycle
<1> QED BY <1>1, <1>2

\* Values that copies permute lie on cycles of these values.
LEMMA PermutedLiesOnCycle ==
  ASSUME NEW c, Len(c) \in Nat, Targets(c) \in [Ids -> Ids],
         NEW D \in SUBSET Ids, IsFiniteSet(D), Cardinality(D) <= Len(c),
         \A v \in D : Targets(c)[v] \in D,
         \A v, w \in D : Targets(c)[v] = Targets(c)[w] => v = w,
         NEW d \in D, Targets(c)[d] # d
  PROVE  \E K \in CyclesOf(c) : d \in K /\ K \subseteq D
<1> DEFINE T == Targets(c)
           N == Cardinality(D)
           n == Len(c)
<1>1. PICK from : /\ Upstream(from, T)
                  /\ CyclesOf(c) = {Orbit(from, n, v) : v \in OnCycle(from, n)}
  BY CyclesOfIs
<1>2. N \in Nat /\ N <= n /\ d \in Ids
  BY FS_CardinalityType
<1> HIDE DEF N, n, T
<1>3. /\ \A v \in D : T[v] \in D
      /\ \A v, w \in D : T[v] = T[w] => v = w
      /\ T[d] # d
  BY DEF T
<1>4. \A k \in Nat : from[k][d] \in D
  <2>1. from[0][d] \in D /\ 0 \in Nat
    BY <1>1, <1>2 DEF Upstream
  <2>2. \A j \in Nat : from[0 + j][d] \in D
    BY <1>1, <1>2, <1>3, <2>1, UpstreamStays
  <2>3. \A k \in Nat : 0 + k = k
    OBVIOUS
  <2> QED BY <2>2, <2>3
<1>5. PICK x, y \in 0 .. N : x # y /\ from[x][d] = from[y][d]
  <2> DEFINE f == [k \in 0 .. N |-> from[k][d]]
  <2>1. \A k \in 0 .. N : k \in Nat
    OBVIOUS
  <2>2. f \in [0 .. N -> D]
    BY <1>4, <2>1
  <2>3. IsFiniteSet(0 .. N) /\ Cardinality(0 .. N) = N + 1
    <3>1. 0 \in Int /\ N \in Int /\ ~(0 > N) /\ N - 0 + 1 = N + 1
      BY <1>2
    <3> QED BY <3>1, FS_Interval
  <2>4. Cardinality(D) < Cardinality(0 .. N)
    BY <1>2, <2>3 DEF N
  <2> HIDE DEF f
  <2>5. \E x, y \in 0 .. N : x # y /\ f[x] = f[y]
    BY ONLY <2>2, <2>3, <2>4, FS_PigeonHole, IsFiniteSet(D)
  <2> QED BY <2>5 DEF f
<1>6. ASSUME NEW z \in Nat
      PROVE  \A k \in Nat : from[k][d] = from[k + z][d] => from[z][d] = d
  <2> DEFINE M == {k \in Nat : from[k][d] = from[k + z][d] => from[z][d] = d}
  <2>1. 0 \in M
    <3>1. from[0][d] = d /\ 0 + z = z
      BY <1>1, <1>2 DEF Upstream
    <3> QED BY <3>1
  <2>2. ASSUME NEW k \in Nat, k \in M, from[k + 1][d] = from[(k + 1) + z][d]
        PROVE  from[z][d] = d
    <3>1. k + z \in Nat /\ (k + z) + 1 = (k + 1) + z
      OBVIOUS
    <3>2. from[k + 1][d] = T[from[k][d]] /\ from[(k + z) + 1][d] = T[from[k + z][d]]
      BY <1>1, <1>2, <3>1 DEF Upstream
    <3>3. from[k][d] = from[k + z][d]
      BY <1>3, <1>4, <2>2, <3>1, <3>2
    <3> QED BY <2>2, <3>3
  <2>3. \A k \in Nat : k \in M => k + 1 \in M
    BY <2>2
  <2>4. \A k \in Nat : k \in M
    <3> HIDE DEF M
    <3> QED BY <2>1, <2>3, SetInduction
  <2> QED BY <2>4
<1>7. \E z \in 1 .. n : from[z][d] = d
  <2>1. ASSUME NEW a \in 0 .. N, NEW b \in 0 .. N, a < b, from[a][d] = from[b][d]
        PROVE  \E z \in 1 .. n : from[z][d] = d
    <3>3. a \in Nat /\ b \in Nat /\ b <= N /\ N \in Nat /\ n \in Nat /\ N <= n
      BY <1>2 DEF n
    <3>1. /\ a \in Nat /\ b - a \in Nat /\ a + (b - a) = b
          /\ b - a \in 1 .. n
      BY ONLY <2>1, <3>3
    <3>2. from[b - a][d] = d
      BY <1>6, <2>1, <3>1
    <3> QED BY <3>1, <3>2
  <2>2. x < y \/ y < x
    BY <1>2, <1>5
  <2> QED BY <1>5, <2>1, <2>2
<1>8. d \in OnCycle(from, n)
  <2>1. 0 \in Nat /\ 0 + 1 = 1
    OBVIOUS
  <2>3. from[0][d] = d /\ from[0 + 1][d] = T[from[0][d]]
    BY <1>1, <1>2, <2>1 DEF Upstream
  <2>2. from[1][d] = T[d]
    BY <2>1, <2>3
  <2> QED BY <1>2, <1>3, <1>7, <2>2 DEF OnCycle
<1>9. Orbit(from, n, d) \in CyclesOf(c)
  BY <1>1, <1>8
<1>10. d \in Orbit(from, n, d)
  BY <1>7 DEF Orbit
<1>11. Orbit(from, n, d) \subseteq D
  <2>1. \A k \in 1 .. n : k \in Nat
    BY <1>2
  <2> QED BY <1>4, <2>1 DEF Orbit
<1> QED BY <1>9, <1>10, <1>11

-----------------------------------------------------------------------------
\* One temporary per cycle.

Temps(s) == {i \in DOMAIN s : s[i].dst \notin Ids}
Wanted(v) == PA!Target(original[cur], v)

\* A cycle is intact while all its copies are pending with the source they came with.
Intact(K) == \A v \in K : \E i \in DOMAIN copies : copies[i].d = v /\ copies[i].s = Wanted(v)
Broken == {K \in CyclesOf(original[cur]) : ~Intact(K)}

\* OneTempPerCycle speaks of finished blocks only: while a list is drained it has
\* spent one temporary for each cycle that is no longer intact.
CycleInv ==
  /\ OneTempPerCycle
  /\ \A b \in left : code[b] = << >>
  /\ cur # NoBlock =>
       /\ \A i \in DOMAIN copies : copies[i].s \in Ids => copies[i].s = Wanted(copies[i].d)
       /\ Cardinality(Temps(code[cur])) = Cardinality(Broken)

LEMMA ListsHaveTargets ==
  ASSUME TypeOK, NEW b \in Blocks
  PROVE  /\ Len(original[b]) \in Nat
         /\ Targets(original[b]) \in [Ids -> Ids]
         /\ \A v \in Ids : Targets(original[b])[v] = PA!Target(original[b], v)
         /\ Cardinality({original[b][i].d : i \in DOMAIN original[b]}) <= Len(original[b])
         /\ IsFiniteSet({original[b][i].d : i \in DOMAIN original[b]})
<1> DEFINE c == original[b]
           D == {c[i].d : i \in DOMAIN c}
           dst == [i \in DOMAIN c |-> c[i].d]
<1>1. c \in CopyLists
  BY DEF TypeOK
<1> HIDE DEF c
<1>2. c \in Seq([d : Ids, s : Ids]) /\ Distinct(c) /\ DOMAIN c = 1 .. Len(c) /\ Len(c) \in Nat
  BY <1>1, CopyListsAreLists, LenProperties
<1>3. \A i \in DOMAIN c : c[i].d \in Ids /\ c[i].s \in Ids
  <2>1. \A i \in DOMAIN c : c[i] \in [d : Ids, s : Ids]
    BY <1>2, ElementOfSeq
  <2> QED BY <2>1
<1>4. ASSUME NEW v \in Ids
      PROVE  PA!Target(c, v) \in Ids
  <2>1. CASE \E i \in DOMAIN c : c[i].d = v
    <3>1. PICK i \in DOMAIN c : c[i].d = v
      BY <2>1
    <3> QED BY <1>2, <1>3, <3>1, TargetOfCopy
  <2>2. CASE \A i \in DOMAIN c : c[i].d # v
    BY <2>2, TargetOfOther
  <2> QED BY <2>1, <2>2
<1>5. Targets(c) \in [Ids -> Ids] /\ \A v \in Ids : Targets(c)[v] = PA!Target(c, v)
  BY <1>4 DEF Targets
<1>6. dst \in Surjection(DOMAIN c, D)
  BY DEF Surjection
<1>7. IsFiniteSet(DOMAIN c) /\ Cardinality(DOMAIN c) = Len(c)
  BY <1>2, FS_Interval
<1>8. IsFiniteSet(D) /\ Cardinality(D) <= Len(c)
  <2> HIDE DEF dst, D
  <2> QED BY <1>6, <1>7, FS_Surjection
<1> QED BY <1>2, <1>5, <1>8 DEF c

LEMMA CyclesAreFinite ==
  ASSUME TypeOK, NEW b \in Blocks
  PROVE  /\ IsFiniteSet(CyclesOf(original[b]))
         /\ \A K \in CyclesOf(original[b]) : IsCycle(K, Targets(original[b]))
<1> DEFINE c == original[b]
<1>1. \A K \in CyclesOf(c) : IsCycle(K, Targets(c))
  BY ListsHaveTargets, CyclesAreCycles
<1>2. CyclesOf(c) \in SUBSET (SUBSET Ids)
  BY <1>1 DEF IsCycle
<1>3. IsFiniteSet(Ids)
  BY FS_Interval, PhiCopiesAssumption DEF Ids
<1>4. IsFiniteSet(SUBSET Ids)
  BY <1>3, FS_SUBSET
<1>5. IsFiniteSet(CyclesOf(c))
  BY <1>2, <1>4, FS_Subset
<1> QED BY <1>1, <1>5

\* A MOVE to a value of the program takes no temporary, one to a new value takes one.
LEMMA MoveTakesTemp ==
  ASSUME TypeOK, cur \in Blocks, NEW dst, NEW src, Move(dst, src)
  PROVE  /\ \A b \in Blocks \ {cur} : code'[b] = code[b]
         /\ Cardinality(Temps(code'[cur]))
              = Cardinality(Temps(code[cur])) + (IF dst \in Ids THEN 0 ELSE 1)
<1> DEFINE n == Len(code[cur])
           s == code[cur]
           t == code'[cur]
<1>1. /\ \A b \in Blocks \ {cur} : code'[b] = code[b]
      /\ n \in Nat /\ DOMAIN s = 1 .. n
      /\ DOMAIN t = 1 .. n + 1
      /\ \A j \in DOMAIN s : t[j] = s[j]
      /\ t[n + 1] = [dst |-> dst, src |-> src]
  BY MoveAppends
<1> HIDE DEF n, s, t
<1>2. Temps(s) \in SUBSET (1 .. n) /\ n + 1 \notin Temps(s)
  BY <1>1 DEF Temps
<1>3. IsFiniteSet(Temps(s)) /\ Cardinality(Temps(s)) \in Nat
  <2>1. IsFiniteSet(1 .. n)
    BY <1>1, FS_Interval
  <2>2. IsFiniteSet(Temps(s))
    BY <1>2, <2>1, FS_Subset
  <2> QED BY <2>2, FS_CardinalityType
<1>4. Temps(t) = IF dst \in Ids THEN Temps(s) ELSE Temps(s) \union {n + 1}
  <2>1. t[n + 1].dst = dst
    BY <1>1
  <2>2. \A j \in 1 .. n + 1 : j \in 1 .. n \/ j = n + 1
    BY <1>1
  <2>3. n + 1 \in 1 .. n + 1 /\ \A j \in 1 .. n : j \in 1 .. n + 1
    BY <1>1
  <2>4. \A j \in 1 .. n : t[j] = s[j]
    BY <1>1
  <2> QED BY <1>1, <2>1, <2>2, <2>3, <2>4 DEF Temps
<1>5. Cardinality(Temps(t)) = Cardinality(Temps(s)) + (IF dst \in Ids THEN 0 ELSE 1)
  <2>1. CASE dst \in Ids
    BY <1>3, <1>4, <2>1
  <2>2. CASE dst \notin Ids
    <3>1. Cardinality(Temps(s) \union {n + 1}) = Cardinality(Temps(s)) + 1
      BY <1>2, <1>3, FS_AddElement
    <3> QED BY <1>4, <2>2, <3>1
  <2> QED BY <2>1, <2>2
<1> QED BY <1>1, <1>5 DEF s, t

\* No cycle is broken by emitting a safe copy: the destination of a copy of an intact
\* cycle is still read by another.
LEMMA EmitSafeKeepsCycles ==
  ASSUME IInv, CycleInv, cur # NoBlock, NEW i \in DOMAIN copies, Safe(i),
         copies' = RemoveAt(copies, i), original' = original, cur' = cur
  PROVE  Broken' = Broken
<1> DEFINE c == original[cur]
<1>1. cur \in Blocks /\ TypeOK
  BY PendingEntries DEF IInv
<1>2. \A K \in CyclesOf(c) : IsCycle(K, Targets(c))
  BY <1>1, CyclesAreFinite
<1>3. copies \in Seq(Copy(lastValueId))
  BY PendingEntries
<1>4. /\ \A k \in DOMAIN copies' : \E j \in DOMAIN copies \ {i} : copies'[k] = copies[j]
      /\ \A j \in DOMAIN copies \ {i} : \E k \in DOMAIN copies' : copies'[k] = copies[j]
  <2>1. /\ \A k \in DOMAIN copies' : \E j \in DOMAIN copies \ {i} : copies'[k] = copies[j]
        /\ \A j \in DOMAIN copies \ {i} : \E k \in DOMAIN copies' : copies'[k] = copies[j]
        /\ \A k, l \in DOMAIN copies' : \E j, m \in DOMAIN copies \ {i} :
             copies'[k] = copies[j] /\ copies'[l] = copies[m] /\ (k # l => j # m)
    <3>1. copies \in Seq(Copy(lastValueId)) /\ i \in DOMAIN copies
      BY <1>3
    <3>2. copies' = RemoveAt(copies, i)
      OBVIOUS
    <3> QED BY ONLY <3>1, <3>2, RemoveAtEntries
  <2> QED BY <2>1
<1>5. \A v : Wanted(v)' = Wanted(v)
  BY DEF Wanted
<1>6. ASSUME NEW K \in CyclesOf(c), Intact(K)
      PROVE  Intact(K)'
  <2>1. ASSUME NEW v \in K
        PROVE  copies[i].d # v
    <3>1. v \in Ids /\ K \in SUBSET Ids
      BY <1>2, <2>1 DEF IsCycle
    <3>2. PICK w \in K : Targets(c)[w] = v
      BY <1>2, <2>1 DEF IsCycle
    <3>3. Targets(c)[v] # v
      BY <1>2, <2>1 DEF IsCycle
    <3>4. w # v /\ w \in Ids
      BY <3>1, <3>2, <3>3
    <3>5. Targets(c)[w] = Wanted(w)
      BY <1>1, <3>4, ListsHaveTargets DEF Wanted
    <3>6. PICK j \in DOMAIN copies : copies[j].d = w /\ copies[j].s = Wanted(w)
      BY <1>6, <3>2 DEF Intact
    <3>7. copies[j].s = v
      BY <3>2, <3>5, <3>6
    <3> QED BY <3>4, <3>6, <3>7 DEF Safe
  <2>2. ASSUME NEW v \in K
        PROVE  \E k \in DOMAIN copies' : copies'[k].d = v /\ copies'[k].s = Wanted(v)
    <3>1. PICK j \in DOMAIN copies : copies[j].d = v /\ copies[j].s = Wanted(v)
      BY <1>6 DEF Intact
    <3>2. j # i
      BY <2>1, <3>1
    <3> QED BY <1>4, <3>1, <3>2
  <2> QED BY <1>5, <2>2 DEF Intact
<1>7. ASSUME NEW K \in CyclesOf(c), Intact(K)'
      PROVE  Intact(K)
  <2>1. ASSUME NEW v \in K
        PROVE  \E k \in DOMAIN copies : copies[k].d = v /\ copies[k].s = Wanted(v)
    <3>1. PICK j \in DOMAIN copies' : copies'[j].d = v /\ copies'[j].s = Wanted(v)
      BY <1>5, <1>7 DEF Intact
    <3> QED BY <1>4, <3>1
  <2> QED BY <2>1 DEF Intact
<1>8. CyclesOf(original[cur])' = CyclesOf(c)
  OBVIOUS
<1> HIDE DEF c
<1>9. Broken = {K \in CyclesOf(c) : ~Intact(K)}
  BY DEF Broken, c
<1>10. Broken' = {K \in CyclesOf(c) : ~Intact(K)'}
  BY <1>8 DEF Broken
<1> QED BY <1>6, <1>7, <1>9, <1>10

\* Saving a source when no copy is safe breaks one cycle, that of the first copy.
LEMMA BreakCycleBreaksOne ==
  ASSUME IInv, CycleInv, BreakCycle
  PROVE  \E K \in CyclesOf(original[cur]) : K \notin Broken /\ Broken' = Broken \union {K}
<1> DEFINE c == original[cur]
           n == Len(copies)
           D == {copies[i].d : i \in DOMAIN copies}
           T == Targets(c)
<1>1. /\ cur # NoBlock /\ copies # << >> /\ \A i \in DOMAIN copies : ~Safe(i)
      /\ copies' = [copies EXCEPT ![1].s = lastValueId]
      /\ original' = original /\ cur' = cur
  BY DEF BreakCycle
<1>2. cur \in Blocks /\ TypeOK /\ Distinct(copies)
  BY <1>1, PendingEntries DEF IInv, Settled
<1>3. /\ copies \in Seq(Copy(lastValueId)) /\ DOMAIN copies = 1 .. n /\ n \in Nat
      /\ \A i \in DOMAIN copies : copies[i].d \in Ids
  BY <1>1, PendingEntries, LenProperties
<1>4. 1 \in DOMAIN copies
  BY <1>1, <1>3, EmptySeq
<1>5. /\ {copies[i].s : i \in DOMAIN copies} = D
      /\ \A i, j \in DOMAIN copies : copies[i].s = copies[j].s => i = j
  <2>1. \A i \in DOMAIN copies : \E j \in DOMAIN copies : copies[j].s = copies[i].d
    BY <1>1 DEF Safe
  <2> QED BY ONLY <1>2, <1>3, <2>1, StuckIsPermutation
<1>6. \A i \in DOMAIN copies : copies[i].s \in Ids /\ copies[i].s = Wanted(copies[i].d)
  <2>1. ASSUME NEW i \in DOMAIN copies
        PROVE  copies[i].s \in Ids
    <3>1. copies[i].s \in D
      BY <1>5
    <3> QED BY <1>3, <3>1
  <2> QED BY <1>1, <2>1 DEF CycleInv
<1>7. /\ Len(c) \in Nat /\ T \in [Ids -> Ids]
      /\ \A v \in Ids : T[v] = Wanted(v)
      /\ IsFiniteSet({c[i].d : i \in DOMAIN c})
      /\ Cardinality({c[i].d : i \in DOMAIN c}) <= Len(c)
  BY <1>2, ListsHaveTargets DEF Wanted
<1>8. \A i \in DOMAIN copies : T[copies[i].d] = copies[i].s
  BY <1>3, <1>6, <1>7
<1>9. ASSUME NEW v \in D
      PROVE  T[v] # v /\ T[v] \in D
  <2>1. PICK i \in DOMAIN copies : copies[i].d = v
    OBVIOUS
  <2>2. PICK j \in DOMAIN copies : j # i /\ copies[j].s = v
    BY <1>1, <2>1 DEF Safe
  <2>3. copies[i].s # v
    BY <1>5, <2>2
  <2>4. copies[i].s \in D
    BY <1>5
  <2> QED BY <1>8, <2>1, <2>3, <2>4
<1>10. \A v, w \in D : T[v] = T[w] => v = w
  BY <1>5, <1>8
<1>11. D \in SUBSET Ids
  BY <1>3
<1>12. D \in SUBSET {c[i].d : i \in DOMAIN c}
  <2>1. ASSUME NEW v \in D, \A i \in DOMAIN c : c[i].d # v
        PROVE  FALSE
    <3>1. PA!Target(c, v) = v
      BY <2>1, TargetOfOther
    <3> QED BY <1>7, <1>9, <1>11, <2>1, <3>1 DEF Wanted
  <2> QED BY <2>1
<1>13. IsFiniteSet(D) /\ Cardinality(D) <= Len(c)
  <2> DEFINE E == {c[i].d : i \in DOMAIN c}
  <2> HIDE DEF D, E, c
  <2>1. IsFiniteSet(E) /\ Cardinality(E) <= Len(c) /\ Len(c) \in Nat /\ D \in SUBSET E
    BY <1>7, <1>12 DEF E
  <2>2. /\ IsFiniteSet(D) /\ Cardinality(D) <= Cardinality(E)
        /\ Cardinality(D) \in Nat /\ Cardinality(E) \in Nat
    BY <2>1, FS_Subset, FS_CardinalityType
  <2> QED BY <2>1, <2>2
<1>14. copies[1].d \in D
  BY <1>4
<1>15. PICK K \in CyclesOf(c) : copies[1].d \in K /\ K \subseteq D
  <2> HIDE DEF D, c
  <2>1. T[copies[1].d] # copies[1].d
    BY <1>9, <1>14
  <2> QED BY <1>7, <1>9, <1>10, <1>11, <1>13, <1>14, <2>1, PermutedLiesOnCycle
<1>16. Intact(K)
  <2>1. ASSUME NEW v \in K
        PROVE  \E i \in DOMAIN copies : copies[i].d = v /\ copies[i].s = Wanted(v)
    <3>1. v \in D
      BY <1>15, <2>1
    <3>2. PICK i \in DOMAIN copies : copies[i].d = v
      BY <3>1
    <3> QED BY <1>6, <3>2
  <2> QED BY <2>1 DEF Intact
<1>17. /\ DOMAIN copies' = DOMAIN copies
       /\ copies'[1].d = copies[1].d /\ copies'[1].s = lastValueId
       /\ \A i \in DOMAIN copies : i # 1 => copies'[i] = copies[i]
  <2>1. \A i \in 1 .. n : copies[i] \in Copy(lastValueId)
    BY <1>3, ElementOfSeq
  <2>2. copies[1] \in [d : Ids, s : 0 .. lastValueId - 1]
    BY <1>3, <1>4, <2>1 DEF Copy
  <2> QED BY <1>1, <1>4, <2>2
<1>18. lastValueId \notin Ids
  BY <1>2, PhiCopiesAssumption DEF TypeOK, Ids
<1>19. \A v : Wanted(v)' = Wanted(v)
  BY <1>1 DEF Wanted
<1>20. ~Intact(K)'
  <2>1. ASSUME Intact(K)'
        PROVE  FALSE
    <3>1. PICK i \in DOMAIN copies' : copies'[i].d = copies[1].d /\ copies'[i].s = Wanted(copies[1].d)
      BY <1>15, <1>19, <2>1 DEF Intact
    <3>2. i = 1
      BY <1>2, <1>4, <1>17, <3>1 DEF Distinct
    <3>3. Wanted(copies[1].d) \in Ids
      BY <1>4, <1>6
    <3> QED BY <1>17, <1>18, <3>1, <3>2, <3>3
  <2> QED BY <2>1
<1>21. ASSUME NEW L \in CyclesOf(c), L # K
       PROVE  Intact(L)' <=> Intact(L)
  <2>1. copies[1].d \notin L
    BY <1>2, <1>15, <1>21, CyclesAreFinite, CyclesAreDisjoint
  <2>2. \A v \in L : \A i \in DOMAIN copies :
          (copies'[i].d = v /\ copies'[i].s = Wanted(v)) <=> (copies[i].d = v /\ copies[i].s = Wanted(v))
    BY <1>17, <2>1
  <2> QED BY <1>17, <1>19, <2>2 DEF Intact
<1>22. CyclesOf(original[cur])' = CyclesOf(c)
  BY <1>1
<1> HIDE DEF c
<1>23. Broken = {L \in CyclesOf(c) : ~Intact(L)}
  BY DEF Broken, c
<1>24. Broken' = {L \in CyclesOf(c) : ~Intact(L)'}
  BY <1>22 DEF Broken
<1>25. Broken' = Broken \union {K} /\ K \notin Broken
  BY <1>15, <1>16, <1>20, <1>21, <1>23, <1>24
<1> QED BY <1>25 DEF c

LEMMA CycleInvInit == Init => CycleInv
  BY PhiCopiesAssumption DEF Init, CycleInv, OneTempPerCycle

\* A list that is taken has all its cycles intact and no MOVE yet.
LEMMA TakeBlockKeepsCycles ==
  ASSUME IInv, CycleInv, NEW b \in Blocks, TakeBlock(b)
  PROVE  CycleInv'
<1> DEFINE c == original[b]
<1>1. /\ cur = NoBlock /\ b \in left /\ cur' = b /\ left' = left \ {b} /\ copies' = c
      /\ original' = original /\ code' = code /\ b # NoBlock
  BY PhiCopiesAssumption DEF TakeBlock
<1>2. TypeOK /\ c \in CopyLists
  BY DEF IInv, TypeOK
<1>3. \A i \in DOMAIN c : c[i].s = PA!Target(c, c[i].d)
  BY <1>2, CopyListsAreLists, TargetOfCopy
<1>4. \A K \in CyclesOf(c) : IsCycle(K, Targets(c))
  BY <1>2, CyclesAreFinite
<1>5. ASSUME NEW K \in CyclesOf(c)
      PROVE  Intact(K)'
  <2>1. ASSUME NEW v \in K
        PROVE  \E i \in DOMAIN c : c[i].d = v /\ c[i].s = PA!Target(c, v)
    <3>1. v \in Ids /\ Targets(c)[v] # v
      BY <1>4, <2>1 DEF IsCycle
    <3>2. PA!Target(c, v) # v
      BY <1>2, <3>1, ListsHaveTargets
    <3>3. PICK i \in DOMAIN c : c[i].d = v
      BY <3>2, TargetOfOther
    <3> QED BY <1>3, <3>3
  <2> QED BY <1>1, <2>1 DEF Intact, Wanted
<1>6. Broken' = {}
  BY <1>1, <1>5 DEF Broken
<1>7. Temps(code'[cur']) = {}
  <2>1. code'[cur'] = << >>
    BY <1>1 DEF CycleInv
  <2> QED BY <2>1, EmptyHolds DEF Temps
<1>8. Cardinality(Temps(code'[cur'])) = Cardinality(Broken')
  BY <1>6, <1>7
<1>9. OneTempPerCycle'
  <2>1. ASSUME NEW x \in Blocks, x \notin left', x # cur'
        PROVE  x \notin left /\ x # cur
    BY <1>1, <2>1, PhiCopiesAssumption
  <2> QED BY <1>1, <2>1 DEF CycleInv, OneTempPerCycle
<1>10. \A x \in left' : code'[x] = << >>
  BY <1>1 DEF CycleInv
<1>11. (\A i \in DOMAIN copies : copies[i].s \in Ids => copies[i].s = Wanted(copies[i].d))'
  BY <1>1, <1>3 DEF Wanted
<1> QED BY <1>8, <1>9, <1>10, <1>11 DEF CycleInv

\* A MOVE of a list being drained leaves the other blocks and adds what it should.
LEMMA MoveKeepsCycles ==
  ASSUME IInv, CycleInv, cur # NoBlock, NEW dst, NEW src, Move(dst, src),
         original' = original /\ left' = left /\ cur' = cur,
         \A i \in DOMAIN copies' : copies'[i].s \in Ids => copies'[i].s = Wanted(copies'[i].d),
         Cardinality(Broken') = Cardinality(Broken) + (IF dst \in Ids THEN 0 ELSE 1)
  PROVE  CycleInv'
<1>1. cur \in Blocks /\ TypeOK /\ cur \notin left
  BY PendingEntries DEF IInv, TypeOK
<1>2. /\ \A b \in Blocks \ {cur} : code'[b] = code[b]
      /\ Cardinality(Temps(code'[cur]))
           = Cardinality(Temps(code[cur])) + (IF dst \in Ids THEN 0 ELSE 1)
  BY <1>1, MoveTakesTemp
<1>3. Cardinality(Temps(code'[cur'])) = Cardinality(Broken')
  BY <1>2 DEF CycleInv
<1>4. OneTempPerCycle'
  BY <1>2 DEF CycleInv, OneTempPerCycle
<1>5. left \subseteq Blocks
  BY <1>1 DEF TypeOK
<1>6. \A b \in left' : code'[b] = << >>
  BY <1>1, <1>2, <1>5 DEF CycleInv
<1>7. (\A i \in DOMAIN copies : copies[i].s \in Ids => copies[i].s = Wanted(copies[i].d))'
  BY DEF Wanted
<1> QED BY <1>3, <1>4, <1>6, <1>7 DEF CycleInv

LEMMA CycleInvKept ==
  ASSUME IInv, CycleInv, [Next]_vars
  PROVE  CycleInv'
<1>1. ASSUME NEW b \in Blocks, TakeBlock(b)
      PROVE  CycleInv'
  BY <1>1, TakeBlockKeepsCycles
<1>2. CASE EmitSafe
  <2>1. /\ cur # NoBlock /\ original' = original /\ left' = left /\ cur' = cur
    BY <1>2 DEF EmitSafe
  <2>2. PICK i \in DOMAIN copies : /\ Safe(i) /\ Move(copies[i].d, copies[i].s)
                                   /\ copies' = RemoveAt(copies, i)
    BY <1>2 DEF EmitSafe
  <2>3. copies \in Seq(Copy(lastValueId)) /\ copies[i].d \in Ids
    BY <2>1, PendingEntries
  <2>4. \A k \in DOMAIN copies' : \E j \in DOMAIN copies : copies'[k] = copies[j]
    BY <2>2, <2>3, RemoveAtEntries
  <2>5. \A k \in DOMAIN copies' : copies'[k].s \in Ids => copies'[k].s = Wanted(copies'[k].d)
    BY <2>1, <2>4 DEF CycleInv
  <2>6. Broken' = Broken
    BY <2>1, <2>2, EmitSafeKeepsCycles
  <2>7. Cardinality(Broken) \in Nat
    <3>1. cur \in Blocks /\ TypeOK
      BY <2>1, PendingEntries DEF IInv
    <3>2. IsFiniteSet(CyclesOf(original[cur])) /\ Broken \in SUBSET CyclesOf(original[cur])
      BY <3>1, CyclesAreFinite DEF Broken
    <3> QED BY <3>2, FS_Subset, FS_CardinalityType
  <2>8. Cardinality(Broken') = Cardinality(Broken) + (IF copies[i].d \in Ids THEN 0 ELSE 1)
    BY <2>3, <2>6, <2>7
  <2> QED BY <2>1, <2>2, <2>5, <2>8, MoveKeepsCycles
<1>3. CASE BreakCycle
  <2>1. /\ cur # NoBlock /\ copies # << >>
        /\ copies' = [copies EXCEPT ![1].s = lastValueId]
        /\ Move(lastValueId, copies[1].s)
        /\ original' = original /\ left' = left /\ cur' = cur
    BY <1>3 DEF BreakCycle
  <2>2. PICK K \in CyclesOf(original[cur]) : K \notin Broken /\ Broken' = Broken \union {K}
    BY <1>3, BreakCycleBreaksOne
  <2>3. lastValueId \notin Ids
    BY PhiCopiesAssumption DEF IInv, TypeOK, Ids
  <2>4. IsFiniteSet(Broken) /\ Cardinality(Broken) \in Nat
    <3>1. cur \in Blocks /\ TypeOK
      BY <2>1, PendingEntries DEF IInv
    <3>2. IsFiniteSet(CyclesOf(original[cur])) /\ Broken \in SUBSET CyclesOf(original[cur])
      BY <3>1, CyclesAreFinite DEF Broken
    <3> QED BY <3>2, FS_Subset, FS_CardinalityType
  <2>5. Cardinality(Broken') = Cardinality(Broken) + (IF lastValueId \in Ids THEN 0 ELSE 1)
    BY <2>2, <2>3, <2>4, FS_AddElement
  <2>6. \A k \in DOMAIN copies' : copies'[k].s \in Ids => copies'[k].s = Wanted(copies'[k].d)
    <3>1. copies \in Seq(Copy(lastValueId)) /\ DOMAIN copies = 1 .. Len(copies)
      BY <2>1, PendingEntries
    <3>2. \A k \in DOMAIN copies : copies[k] \in [d : Ids, s : 0 .. lastValueId - 1]
      BY <3>1, ElementOfSeq DEF Copy
    <3>3. ASSUME NEW k \in DOMAIN copies'
          PROVE  k \in DOMAIN copies /\ (copies'[k] = copies[k] \/ copies'[k].s = lastValueId)
      BY <2>1, <3>2
    <3> QED BY <2>1, <2>3, <3>3 DEF CycleInv
  <2> QED BY <2>1, <2>5, <2>6, MoveKeepsCycles
<1>4. CASE FinishBlock
  <2>1. /\ cur # NoBlock /\ copies = << >> /\ cur' = NoBlock
        /\ original' = original /\ left' = left /\ code' = code
    BY <1>4 DEF FinishBlock
  <2>2. cur \in Blocks /\ TypeOK
    BY <2>1, PendingEntries DEF IInv
  <2>3. \A K \in CyclesOf(original[cur]) : ~Intact(K)
    BY <2>1, <2>2, CyclesAreFinite, EmptyHolds DEF IsCycle, Intact
  <2>4. Broken = CyclesOf(original[cur])
    BY <2>3 DEF Broken
  <2>5. Cardinality(Temps(code[cur])) = Cardinality(CyclesOf(original[cur]))
    BY <2>1, <2>4 DEF CycleInv
  <2>6. OneTempPerCycle'
    BY <2>1, <2>5 DEF CycleInv, OneTempPerCycle, Temps
  <2> QED BY <2>1, <2>6 DEF CycleInv
<1>5. CASE SetFrame
  BY <1>5 DEF SetFrame, CycleInv, OneTempPerCycle, Temps, Broken, Intact, Wanted
<1>6. CASE UNCHANGED vars
  BY <1>6 DEF vars, CycleInv, OneTempPerCycle, Temps, Broken, Intact, Wanted
<1> QED BY <1>1, <1>2, <1>3, <1>4, <1>5, <1>6 DEF Next

\* The frame grows by one slot for each cycle of copies and no more: chains, self copies
\* and values read several times cost no temporary.
THEOREM CyclesCostOneTemp == Spec => []OneTempPerCycle
<1>1. CycleInv => OneTempPerCycle
  BY DEF CycleInv
<1> QED BY <1>1, CycleInvInit, CycleInvKept, InductiveInvariant, PTL DEF Spec
=============================================================================
