-------------------------- MODULE VMClosuresProofs --------------------------
(***************************************************************************)
(* The virtual machine's stack slots and upvalues keep the variables of    *)
(* every program: for any compiled functions with any captures, any        *)
(* sequence of well-formed instructions and any bounds.                    *)
(***************************************************************************)
EXTENDS VMClosures, SequenceFacts

-----------------------------------------------------------------------------
(* The inductive invariant.                                                *)

\* Locals of frame k are on the stack from its base to here.
End(k) == frames[k].base + FrameSize[frames[k].proto]

\* Frames lie one above the other with a function object between them, and the locals
\* of the running one are on the stack.
Stacked ==
  /\ \A i, j \in DOMAIN frames : i < j => End(i) < frames[j].base
  /\ End(Len(frames)) <= Len(stack)

\* A frame runs the function object it was called with, main none; activations differ.
Running ==
  /\ \A k \in DOMAIN frames :
       \/ frames[k].function = 0 /\ frames[k].proto = Main
       \/ frames[k].function \in DOMAIN fns /\ fns[frames[k].function].proto = frames[k].proto
  /\ \A i, j \in DOMAIN frames : frames[i].act = frames[j].act => i = j
  /\ \A u \in DOMAIN upvalues : upvalues[u].cell[1] < acts

\* What the loops rely on: the closure made belongs to the running function, and no
\* open upvalue before `at' is in the frame that returns.
InLoop ==
  /\ pc = "make" =>
       /\ ParentOf[making.proto] = frames[Len(frames)].proto
       /\ Len(making.upvalues) <= Len(Captures[making.proto])
  /\ pc \in {"fetch", "make"} => at = 1
  /\ Closing =>
       /\ Len(frames) > 1
       /\ \A i \in DOMAIN openUpvalues :
            i < at => upvalues[openUpvalues[i]].stackSlot < frames[Len(frames)].base

\* Exactly the upvalues that are not closed are listed as open, once each.
Listed ==
  /\ \A u \in DOMAIN upvalues : ~upvalues[u].isClosed <=> Holds(openUpvalues, u)
  /\ \A i, j \in DOMAIN openUpvalues : openUpvalues[i] = openUpvalues[j] => i = j

\* An open upvalue points at its variable in the live activation that declared it.
OwnedBy(u, k) ==
  /\ frames[k].act = upvalues[u].cell[1]
  /\ upvalues[u].stackSlot = frames[k].base + upvalues[u].cell[2]
  /\ upvalues[u].cell[2] < FrameSize[frames[k].proto]
Owned == \A u \in DOMAIN upvalues : ~upvalues[u].isClosed => \E k \in DOMAIN frames : OwnedBy(u, k)

\* The activation of a closed upvalue is over or returning.
Dead ==
  \A u \in DOMAIN upvalues : upvalues[u].isClosed =>
    \A k \in DOMAIN frames : frames[k].act = upvalues[u].cell[1] => Closing /\ k = Len(frames)

\* A variable has one upvalue for ever, open or closed.
OneUpvaluePerVariable ==
  \A u, v \in DOMAIN upvalues : upvalues[u].cell = upvalues[v].cell => u = v

HasCells ==
  /\ \A k \in DOMAIN frames : \A i \in 0 .. FrameSize[frames[k].proto] - 1 : <<frames[k].act, i>> \in DOMAIN mem
  /\ \A u \in DOMAIN upvalues : upvalues[u].cell \in DOMAIN mem

\* Slots and closed upvalues hold what was last stored to their variable.
LocalsKept ==
  \A k \in DOMAIN frames : \A i \in 0 .. FrameSize[frames[k].proto] - 1 :
    stack[frames[k].base + i + 1] = mem[<<frames[k].act, i>>]
ClosedKept ==
  \A u \in DOMAIN upvalues : upvalues[u].isClosed => upvalues[u].closed = mem[upvalues[u].cell]

\* VariablesKeepTheirValues needs all of it: a store reaches one slot and one upvalue
\* only because slots are apart and a variable never has two upvalues.
IInv ==
  /\ TypeOK /\ Stacked /\ Running /\ InLoop
  /\ Listed /\ Owned /\ Dead /\ OneUpvaluePerVariable
  /\ HasCells /\ LocalsKept /\ ClosedKept

-----------------------------------------------------------------------------
(* What the types say.                                                     *)

\* The frames, and the stack under them.
LEMMA FramesAre ==
  ASSUME TypeOK
  PROVE  /\ Len(frames) \in Nat \ {0} /\ DOMAIN frames = 1 .. Len(frames) /\ Len(frames) \in DOMAIN frames
         /\ frame = frames[Len(frames)]
         /\ \A k \in DOMAIN frames :
              /\ frames[k].base \in Nat /\ frames[k].proto \in Protos
              /\ frames[k].function \in 0 .. Len(fns)
              /\ frames[k].act \in Nat /\ frames[k].act < acts
              /\ FrameSize[frames[k].proto] \in Nat /\ End(k) \in Nat
         /\ acts \in Nat
         /\ Len(stack) \in Nat /\ DOMAIN stack = 1 .. Len(stack)
         /\ \A s \in 1 .. Len(stack) : stack[s] \in Values
<1> DEFINE Frames == [proto : Protos, base : Nat, function : 0 .. Len(fns), act : 0 .. acts - 1]
<1>1. frames \in Seq(Frames) /\ frames # << >> /\ acts \in Nat /\ stack \in Seq(Values)
  BY DEF TypeOK, FrameTypes, StackType
<1>2. /\ Len(frames) \in Nat \ {0} /\ DOMAIN frames = 1 .. Len(frames)
      /\ Last(frames) = frames[Len(frames)]
  <2> HIDE DEF Frames
  <2> QED BY <1>1, FrontIsPrefix
<1>3. \A k \in DOMAIN frames : frames[k] \in Frames
  <2> HIDE DEF Frames
  <2> QED BY <1>1, <1>2, ElementOfSeq
<1>4. /\ Len(stack) \in Nat /\ DOMAIN stack = 1 .. Len(stack)
      /\ \A s \in 1 .. Len(stack) : stack[s] \in Values
  BY <1>1, LenProperties, ElementOfSeq
<1>5. \A k \in DOMAIN frames :
        /\ frames[k].base \in Nat /\ frames[k].proto \in Protos
        /\ frames[k].function \in 0 .. Len(fns)
        /\ frames[k].act \in Nat /\ frames[k].act < acts
        /\ FrameSize[frames[k].proto] \in Nat /\ End(k) \in Nat
  <2> TAKE k \in DOMAIN frames
  <2>1. /\ frames[k].base \in Nat /\ frames[k].proto \in Protos
        /\ frames[k].function \in 0 .. Len(fns)
        /\ frames[k].act \in 0 .. acts - 1
    BY <1>3
  <2>2. frames[k].act \in Nat /\ frames[k].act < acts
    BY SMTT(30), <1>1, <2>1
  <2>3. FrameSize[frames[k].proto] \in Nat
    BY <2>1, ProtosAssumption
  <2>4. End(k) \in Nat
    BY <2>1, <2>3 DEF End
  <2> QED BY <2>1, <2>2, <2>3, <2>4
<1>6. Len(frames) \in DOMAIN frames /\ frame = frames[Len(frames)]
  BY <1>2 DEF frame
<1> QED BY <1>1, <1>2, <1>4, <1>5, <1>6

\* The upvalues.
LEMMA UpvaluesAre ==
  ASSUME TypeOK
  PROVE  /\ Len(upvalues) \in Nat /\ DOMAIN upvalues = 1 .. Len(upvalues)
         /\ \A u \in DOMAIN upvalues :
              /\ upvalues[u] \in [stackSlot : Nat, isClosed : BOOLEAN, closed : Values, cell : Cells]
              /\ upvalues[u].stackSlot \in Nat /\ upvalues[u].isClosed \in BOOLEAN
              /\ upvalues[u].closed \in Values
              /\ upvalues[u].cell[1] \in Nat /\ upvalues[u].cell[2] \in Nat
              /\ upvalues[u].cell = <<upvalues[u].cell[1], upvalues[u].cell[2]>>
         /\ Len(openUpvalues) \in Nat /\ DOMAIN openUpvalues = 1 .. Len(openUpvalues)
         /\ \A j \in DOMAIN openUpvalues : openUpvalues[j] \in DOMAIN upvalues
<1> DEFINE Ups == [stackSlot : Nat, isClosed : BOOLEAN, closed : Values, cell : Cells]
<1>1. upvalues \in Seq(Ups) /\ openUpvalues \in Seq(DOMAIN upvalues)
  BY DEF TypeOK, UpvalueTypes
<1>2. /\ Len(upvalues) \in Nat /\ DOMAIN upvalues = 1 .. Len(upvalues)
      /\ Len(openUpvalues) \in Nat /\ DOMAIN openUpvalues = 1 .. Len(openUpvalues)
  BY <1>1, LenProperties
<1>3. \A u \in DOMAIN upvalues : upvalues[u] \in Ups
  <2> HIDE DEF Ups
  <2> QED BY <1>1, <1>2, ElementOfSeq
<1>4. \A j \in DOMAIN openUpvalues : openUpvalues[j] \in DOMAIN upvalues
  BY <1>1, <1>2, ElementOfSeq
<1>5. \A u \in DOMAIN upvalues :
        /\ upvalues[u].stackSlot \in Nat /\ upvalues[u].isClosed \in BOOLEAN
        /\ upvalues[u].closed \in Values
        /\ upvalues[u].cell[1] \in Nat /\ upvalues[u].cell[2] \in Nat
        /\ upvalues[u].cell = <<upvalues[u].cell[1], upvalues[u].cell[2]>>
  BY <1>3 DEF Cells
<1> QED BY <1>2, <1>3, <1>4, <1>5

\* Locals of two frames, or two locals of a frame, are different slots, all on the stack.
LEMMA LocalsAreApart ==
  ASSUME TypeOK, Stacked, NEW j \in DOMAIN frames, NEW k \in DOMAIN frames,
         NEW a \in 0 .. FrameSize[frames[j].proto] - 1, NEW b \in 0 .. FrameSize[frames[k].proto] - 1
  PROVE  /\ frames[j].base + a + 1 \in 1 .. End(Len(frames))
         /\ frames[j].base + a + 1 \in 1 .. Len(stack)
         /\ frames[j].base + a < End(j)
         /\ frames[j].base + a = frames[k].base + b => j = k /\ a = b
<1> DEFINE n == Len(frames)
           l == Len(stack)
           bj == frames[j].base
           bk == frames[k].base
           bn == frames[n].base
           fj == FrameSize[frames[j].proto]
           fk == FrameSize[frames[k].proto]
           fn == FrameSize[frames[n].proto]
<1>1. /\ n \in Nat \ {0} /\ DOMAIN frames = 1 .. n /\ n \in DOMAIN frames
      /\ bj \in Nat /\ fj \in Nat /\ bk \in Nat /\ fk \in Nat /\ bn \in Nat /\ fn \in Nat
      /\ l \in Nat
  BY FramesAre
<1>2. End(j) = bj + fj /\ End(k) = bk + fk /\ End(n) = bn + fn
  BY DEF End
<1>3. /\ j < n => bj + fj < bn
      /\ j < k => bj + fj < bk
      /\ k < j => bk + fk < bj
      /\ bn + fn <= l
  BY <1>1, <1>2 DEF Stacked
<1>4. j \in 1 .. n /\ k \in 1 .. n
  BY <1>1
<1>5. a \in 0 .. fj - 1 /\ b \in 0 .. fk - 1
  OBVIOUS
<1> HIDE DEF n, l, bj, bk, bn, fj, fk, fn
<1>6. CASE j = n
  <2>1. bj = bn /\ fj = fn
    BY <1>6 DEF bj, bn, fj, fn
  <2>2. bj + a + 1 \in 1 .. bn + fn /\ bj + a + 1 \in 1 .. l /\ bj + a < bj + fj
    BY <1>1, <1>3, <1>5, <2>1
  <2>3. bj + a = bk + b => ~(k < j)
    BY <1>1, <1>3, <1>5
  <2>4. bj + a = bk + b => j = k
    BY <1>1, <1>4, <1>6, <2>3
  <2>5. j = k /\ bj + a = bk + b => a = b
    <3>1. j = k => bj = bk
      BY DEF bj, bk
    <3> QED BY <1>1, <1>5, <3>1
  <2> QED BY <1>2, <2>2, <2>4, <2>5 DEF bj, bk, n, l
<1>7. CASE j # n
  <2>1. bj + fj < bn
    BY <1>1, <1>3, <1>4, <1>7
  <2>2. bj + a + 1 \in 1 .. bn + fn /\ bj + a + 1 \in 1 .. l /\ bj + a < bj + fj
    BY <1>1, <1>3, <1>5, <2>1
  <2>3. bj + a = bk + b => ~(k < j) /\ ~(j < k)
    BY <1>1, <1>3, <1>5
  <2>4. bj + a = bk + b => j = k
    BY <1>1, <1>4, <2>3
  <2>5. j = k /\ bj + a = bk + b => a = b
    <3>1. j = k => bj = bk
      BY DEF bj, bk
    <3> QED BY <1>1, <1>5, <3>1
  <2> QED BY <1>2, <2>2, <2>4, <2>5 DEF bj, bk, n, l
<1> QED BY <1>6, <1>7

\* An open upvalue's slot is on the stack, among the locals of the frame that owns it.
LEMMA OpenIsOnStack ==
  ASSUME TypeOK, Stacked, Owned, NEW u \in DOMAIN upvalues, ~upvalues[u].isClosed
  PROVE  /\ upvalues[u].stackSlot + 1 \in 1 .. Len(stack)
         /\ upvalues[u].stackSlot + 1 \in 1 .. End(Len(frames))
         /\ \E k \in DOMAIN frames :
              /\ OwnedBy(u, k)
              /\ upvalues[u].cell[2] \in 0 .. FrameSize[frames[k].proto] - 1
              /\ upvalues[u].stackSlot + 1 = frames[k].base + upvalues[u].cell[2] + 1
              /\ upvalues[u].cell = <<frames[k].act, upvalues[u].cell[2]>>
<1>1. PICK k \in DOMAIN frames : OwnedBy(u, k)
  BY DEF Owned
<1> DEFINE c == upvalues[u].cell[2]
           size == FrameSize[frames[k].proto]
           base == frames[k].base
           slot == upvalues[u].stackSlot
<1>2. c \in Nat /\ size \in Nat /\ base \in Nat /\ c < size /\ slot = base + c
  BY <1>1, FramesAre, UpvaluesAre DEF OwnedBy
<1>3. upvalues[u].cell = <<frames[k].act, c>>
  BY <1>1, UpvaluesAre DEF OwnedBy
<1>4. c \in 0 .. size - 1 /\ slot + 1 = base + c + 1
  <2> HIDE DEF c, size, base, slot
  <2> QED BY <1>2
<1>5. base + c + 1 \in 1 .. End(Len(frames)) /\ base + c + 1 \in 1 .. Len(stack)
  BY <1>4, LocalsAreApart
<1> HIDE DEF c, size, base, slot
<1> QED BY <1>1, <1>3, <1>4, <1>5 DEF c, size, base, slot

\* The running function has an upvalue for each of its captures.
LEMMA UpvalueExists ==
  ASSUME TypeOK, Running, NEW k \in DOMAIN Captures[frame.proto]
  PROVE  Upvalue(k) \in DOMAIN upvalues
<1> DEFINE f == frame.function
           ups == fns[f].upvalues
<1>1. \/ f = 0 /\ frame.proto = Main
      \/ f \in DOMAIN fns /\ fns[f].proto = frame.proto
  BY FramesAre DEF Running
<1>2. Captures[Main] = << >>
  BY ProtosAssumption
<1>3. frame.proto # Main
  BY <1>2, EmptyHolds
<1>4. f \in DOMAIN fns /\ fns[f].proto = frame.proto
  BY <1>1, <1>3
<1>5. fns \in Seq([proto : Protos, upvalues : Seq(DOMAIN upvalues)])
  BY DEF TypeOK, FnTypes
<1>6. fns[f] \in [proto : Protos, upvalues : Seq(DOMAIN upvalues)]
  <2>1. DOMAIN fns = 1 .. Len(fns)
    BY <1>5, LenProperties
  <2> QED BY <1>4, <1>5, <2>1, ElementOfSeq
<1>7. ups \in Seq(DOMAIN upvalues) /\ Len(ups) = Len(Captures[frame.proto])
  BY <1>4, <1>6 DEF TypeOK, FnTypes
<1>8. Captures[frame.proto] \in Seq([isLocal : BOOLEAN, index : Nat])
  <2>1. frame.proto \in Protos
    BY FramesAre
  <2> QED BY <2>1, ProtosAssumption
<1>9. k \in 1 .. Len(ups)
  BY <1>7, <1>8, LenProperties
<1>10. ups[k] \in DOMAIN upvalues
  <2> HIDE DEF ups
  <2> QED BY <1>7, <1>9, ElementOfSeq
<1> QED BY <1>10 DEF Upvalue

\* The captures of a prototype, and what its parent gives them.
LEMMA CapturesAre ==
  ASSUME NEW p \in Protos
  PROVE  /\ Len(Captures[p]) \in Nat /\ DOMAIN Captures[p] = 1 .. Len(Captures[p])
         /\ \A k \in DOMAIN Captures[p] :
              /\ Captures[p][k].index \in Nat /\ Captures[p][k].isLocal \in BOOLEAN
              /\ Captures[p][k].isLocal => Captures[p][k].index < FrameSize[ParentOf[p]]
              /\ ~Captures[p][k].isLocal => Captures[p][k].index + 1 \in DOMAIN Captures[ParentOf[p]]
<1>1. /\ Captures[p] \in Seq([isLocal : BOOLEAN, index : Nat])
      /\ ParentOf[p] \in Protos
  BY ProtosAssumption
<1>2. Captures[ParentOf[p]] \in Seq([isLocal : BOOLEAN, index : Nat])
  BY <1>1, ProtosAssumption
<1>3. /\ Len(Captures[p]) \in Nat /\ DOMAIN Captures[p] = 1 .. Len(Captures[p])
      /\ Len(Captures[ParentOf[p]]) \in Nat /\ DOMAIN Captures[ParentOf[p]] = 1 .. Len(Captures[ParentOf[p]])
  BY <1>1, <1>2, LenProperties
<1>4. \A k \in DOMAIN Captures[p] : Captures[p][k] \in [isLocal : BOOLEAN, index : Nat]
  BY <1>1, <1>3, ElementOfSeq
<1>5. ASSUME NEW k \in DOMAIN Captures[p]
      PROVE  /\ Captures[p][k].index \in Nat /\ Captures[p][k].isLocal \in BOOLEAN
             /\ Captures[p][k].isLocal => Captures[p][k].index < FrameSize[ParentOf[p]]
             /\ ~Captures[p][k].isLocal => Captures[p][k].index + 1 \in DOMAIN Captures[ParentOf[p]]
  <2>1. Captures[p][k].index \in Nat /\ Captures[p][k].isLocal \in BOOLEAN
    BY <1>4
  <2>2. Captures[p][k].index < IF Captures[p][k].isLocal
                               THEN FrameSize[ParentOf[p]] ELSE Len(Captures[ParentOf[p]])
    BY ProtosAssumption
  <2> DEFINE i == Captures[p][k].index
             l == Len(Captures[ParentOf[p]])
  <2>3. ASSUME ~Captures[p][k].isLocal
        PROVE  i + 1 \in 1 .. l
    <3>1. i \in Nat /\ l \in Nat /\ i < l
      BY <1>3, <2>1, <2>2, <2>3
    <3> HIDE DEF i, l
    <3> QED BY <3>1
  <2> QED BY <1>3, <2>1, <2>2, <2>3
<1> QED BY <1>3, <1>5

-----------------------------------------------------------------------------
(* Every action preserves the invariant.                                   *)

\* An instruction that only changes temporaries, which no variable sees.
LEMMA TempsChange ==
  ASSUME IInv, UNCHANGED <<frames, heap, loops, history>>,
         stack' \in Seq(Values), Len(stack') >= End(Len(frames)),
         \A s \in 1 .. End(Len(frames)) : stack'[s] = stack[s]
  PROVE  IInv'
<1> USE DEF heap, loops, history
<1>1. TypeOK /\ Stacked /\ HasCells /\ LocalsKept
  BY DEF IInv
<1>2. Values' = Values
  BY DEF Values
<1>3. StackType'
  BY <1>2 DEF StackType
<1>4. FrameTypes'
  BY <1>1 DEF TypeOK, FrameTypes
<1>5. UpvalueTypes'
  BY <1>1, <1>2 DEF TypeOK, UpvalueTypes
<1>6. FnTypes'
  BY <1>1 DEF TypeOK, FnTypes
<1>7. LoopTypes'
  BY <1>1 DEF TypeOK, LoopTypes
<1>8. MemTypes'
  BY <1>1, <1>2 DEF TypeOK, MemTypes
<1>9. Stacked'
  BY <1>1 DEF Stacked, End
<1>10. Running' /\ InLoop'
  BY DEF IInv, Running, InLoop, Closing
<1>11. Listed' /\ OneUpvaluePerVariable'
  BY DEF IInv, Listed, OneUpvaluePerVariable
<1>12. Owned' /\ Dead'
  BY DEF IInv, Owned, OwnedBy, Dead, Closing
<1>13. HasCells' /\ ClosedKept'
  BY DEF IInv, HasCells, ClosedKept
<1>14. LocalsKept'
  <2>1. ASSUME NEW k \in DOMAIN frames, NEW i \in 0 .. FrameSize[frames[k].proto] - 1
        PROVE  stack'[frames[k].base + i + 1] = mem[<<frames[k].act, i>>]
    BY <1>1, LocalsAreApart DEF LocalsKept
  <2> QED BY <2>1 DEF LocalsKept
<1> QED BY <1>3, <1>4, <1>5, <1>6, <1>7, <1>8, <1>9, <1>10, <1>11, <1>12, <1>13, <1>14 DEF IInv, TypeOK

\* A temporary is above the locals.
LEMMA TempsAre ==
  ASSUME TypeOK, Stacked
  PROVE  /\ Temps \in Int /\ Temps <= Len(stack) - End(Len(frames))
         /\ Temps > 0 => Len(stack) > End(Len(frames))
<1>1. frame.base \in Nat /\ FrameSize[frame.proto] \in Nat /\ Len(stack) \in Nat
  BY FramesAre
<1>2. End(Len(frames)) = frame.base + FrameSize[frame.proto] /\ End(Len(frames)) \in Nat
  BY FramesAre DEF End
<1> DEFINE b == frame.base
           f == FrameSize[frame.proto]
           l == Len(stack)
<1>3. Temps = l - (b + f + 1) + 1
  BY DEF Temps, FirstTemp
<1> HIDE DEF b, f, l
<1>4. b \in Nat /\ f \in Nat /\ l \in Nat /\ End(Len(frames)) = b + f
  BY <1>1, <1>2 DEF b, f, l
<1>5. /\ Temps \in Int /\ Temps <= l - (b + f)
      /\ Temps > 0 => l > b + f
  BY <1>3, <1>4
<1> QED BY <1>4, <1>5 DEF l

\* Pushing a value.
LEMMA PushKeeps ==
  ASSUME IInv, NEW v \in Values, Push(v), UNCHANGED <<frames, heap, loops, history>>
  PROVE  IInv'
<1>1. TypeOK /\ Stacked /\ stack \in Seq(Values)
  BY DEF IInv, TypeOK, StackType
<1>2. /\ stack' \in Seq(Values) /\ Len(stack') = Len(stack) + 1
      /\ \A s \in 1 .. Len(stack) : stack'[s] = stack[s]
  BY <1>1, AppendHolds DEF Push
<1>3. Len(stack) \in Nat /\ End(Len(frames)) \in Nat /\ End(Len(frames)) <= Len(stack)
  BY <1>1, FramesAre DEF Stacked
<1> DEFINE l == Len(stack)
           e == End(Len(frames))
<1> HIDE DEF l, e
<1>4. Len(stack') >= e /\ \A s \in 1 .. e : s \in 1 .. l
  BY <1>2, <1>3 DEF l, e
<1> QED BY <1>2, <1>4, TempsChange DEF l, e

LEMMA PushConstKeeps ==
  ASSUME IInv, NEW v \in Literals, PushConst(v)
  PROVE  IInv'
  BY PushKeeps DEF PushConst, Values

LEMMA LoadLocalKeeps ==
  ASSUME IInv, NEW i \in 0 .. FrameSize[frame.proto] - 1, LoadLocal(i)
  PROVE  IInv'
<1>1. TypeOK /\ Stacked
  BY DEF IInv
<1>2. frame.base + i + 1 \in 1 .. Len(stack)
  BY <1>1, FramesAre, LocalsAreApart
<1>3. stack[frame.base + i + 1] \in Values
  BY <1>1, <1>2, FramesAre
<1> QED BY <1>3, PushKeeps DEF LoadLocal

LEMMA LoadUpvalueKeeps ==
  ASSUME IInv, NEW k \in DOMAIN Captures[frame.proto], LoadUpvalue(k)
  PROVE  IInv'
<1> DEFINE u == Upvalue(k)
           v == IF upvalues[u].isClosed THEN upvalues[u].closed ELSE stack[upvalues[u].stackSlot + 1]
<1>1. TypeOK /\ Stacked /\ Running /\ Owned
  BY DEF IInv
<1>2. u \in DOMAIN upvalues
  BY <1>1, UpvalueExists
<1>3. upvalues[u].closed \in Values
  BY <1>1, <1>2, UpvaluesAre
<1>4. ~upvalues[u].isClosed => upvalues[u].stackSlot + 1 \in 1 .. Len(stack)
  <2> HIDE DEF u
  <2> QED BY <1>1, <1>2, OpenIsOnStack
<1>5. v \in Values
  <2> HIDE DEF u
  <2> QED BY <1>1, <1>3, <1>4, FramesAre
<1> HIDE DEF v
<1>6. Push(v) /\ UNCHANGED <<frames, heap, loops, history>>
  BY DEF LoadUpvalue, v
<1> QED BY <1>5, <1>6, PushKeeps

LEMMA PopTopKeeps ==
  ASSUME IInv, PopTop
  PROVE  IInv'
<1>1. TypeOK /\ Stacked /\ stack \in Seq(Values)
  BY DEF IInv, TypeOK, StackType
<1>2. Temps > 0 /\ stack' = Front(stack)
  BY DEF PopTop, Pop
<1> DEFINE l == Len(stack)
           e == End(Len(frames))
<1>3. l \in Nat /\ e \in Nat /\ l > e
  BY <1>1, <1>2, TempsAre, FramesAre
<1>4. stack # << >>
  BY <1>3, EmptySeq
<1>5. /\ stack' \in Seq(Values) /\ Len(stack') = l - 1
      /\ \A s \in 1 .. l - 1 : stack'[s] = stack[s]
  BY <1>1, <1>2, <1>4, FrontIsPrefix
<1> HIDE DEF l, e
<1>6. Len(stack') >= e /\ \A s \in 1 .. e : stack'[s] = stack[s]
  BY <1>3, <1>5
<1> QED BY <1>5, <1>6, TempsChange DEF PopTop, e

\* The native's arguments and itself are temporaries.
LEMMA CallNativeKeeps ==
  ASSUME IInv, NEW n \in 0 .. MaxTemps - 1, NEW c \in Consts, CallNative(n, c)
  PROVE  IInv'
<1> DEFINE l == Len(stack)
           e == End(Len(frames))
           rest == SubSeq(stack, 1, l - n - 1)
<1>1. TypeOK /\ Stacked /\ stack \in Seq(Values)
  BY DEF IInv, TypeOK, StackType
<1>2. n \in Nat
  BY BoundsAssumption
<1>3. l \in Nat /\ e \in Nat /\ l - n - 1 >= e
  <2>1. Temps > n
    BY DEF CallNative
  <2>2. l \in Nat /\ e \in Nat /\ Temps \in Int /\ Temps <= l - e
    BY <1>1, TempsAre, FramesAre
  <2> HIDE DEF l, e
  <2> QED BY <1>2, <2>1, <2>2
<1>4. \A s \in 1 .. l - n - 1 : stack[s] \in Values
  BY <1>1, <1>2, <1>3, ElementOfSeq
<1>5. /\ rest \in Seq(Values) /\ Len(rest) = l - n - 1
      /\ \A s \in 1 .. l - n - 1 : rest[s] = stack[s]
  <2>1. 1 \in Int /\ l - n - 1 \in Int
    BY <1>2, <1>3
  <2>2. /\ rest \in Seq(Values)
        /\ Len(rest) = IF 1 <= l - n - 1 THEN (l - n - 1) - 1 + 1 ELSE 0
        /\ \A s \in 1 .. (l - n - 1) - 1 + 1 : rest[s] = stack[1 + s - 1]
    <3> HIDE DEF l
    <3> QED BY <1>4, <2>1, SubSeqProperties
  <2> HIDE DEF l, rest
  <2> QED BY <1>2, <1>3, <2>2
<1>6. Const(c) \in Values
  BY DEF Values, Literals
<1>7. stack' = Append(rest, Const(c))
  BY DEF CallNative
<1> HIDE DEF l, e, rest
<1>8. /\ stack' \in Seq(Values) /\ Len(stack') = l - n - 1 + 1
      /\ \A s \in 1 .. l - n - 1 : stack'[s] = stack[s]
  BY <1>5, <1>6, <1>7, AppendHolds
<1>9. Len(stack') >= e /\ \A s \in 1 .. e : stack'[s] = stack[s]
  BY <1>2, <1>3, <1>8
<1> QED BY <1>8, <1>9, TempsChange DEF CallNative, e

\* A store needs a temporary, whose value the state can hold.
LEMMA PeekIsValue ==
  ASSUME TypeOK, Stacked, Temps > 0
  PROVE  Peek \in Values /\ stack # << >>
<1>1. Len(stack) \in Nat /\ End(Len(frames)) \in Nat /\ Len(stack) > End(Len(frames))
  BY TempsAre, FramesAre
<1>2. stack \in Seq(Values) /\ stack # << >>
  BY <1>1, EmptySeq DEF TypeOK, StackType
<1> QED BY <1>2, FrontIsPrefix DEF Peek

\* A store to a local variable of a live frame, through the frame or an open upvalue.
LEMMA SlotStore ==
  ASSUME IInv, ~Closing, NEW k \in DOMAIN frames, NEW i \in 0 .. FrameSize[frames[k].proto] - 1,
         NEW v \in Values,
         stack' = [stack EXCEPT ![frames[k].base + i + 1] = v],
         mem' = [mem EXCEPT ![<<frames[k].act, i>>] = v],
         UNCHANGED <<frames, heap, loops, acts>>
  PROVE  IInv'
<1> USE DEF heap, loops
<1> DEFINE slot == frames[k].base + i + 1
           cell == <<frames[k].act, i>>
<1>1. TypeOK /\ Stacked /\ HasCells /\ LocalsKept
  BY DEF IInv
<1>2. slot \in 1 .. Len(stack) /\ cell \in DOMAIN mem
  BY <1>1, LocalsAreApart DEF HasCells
<1>3. Values' = Values
  BY DEF Values
<1>4. stack \in Seq(Values)
  BY <1>1 DEF TypeOK, StackType
<1>5. /\ stack' \in Seq(Values) /\ Len(stack') = Len(stack)
      /\ \A s \in 1 .. Len(stack) : stack'[s] = IF s = slot THEN v ELSE stack[s]
  <2> HIDE DEF slot
  <2>1. stack' = [stack EXCEPT ![slot] = v]
    BY DEF slot
  <2>2. slot \in 1 .. Len(stack) /\ v \in Values
    BY <1>2
  <2>3. /\ [stack EXCEPT ![slot] = v] \in Seq(Values)
        /\ Len([stack EXCEPT ![slot] = v]) = Len(stack)
        /\ \A s \in 1 .. Len(stack) : [stack EXCEPT ![slot] = v][s] = IF s = slot THEN v ELSE stack[s]
    BY ONLY <1>4, <2>2, ExceptSeq
  <2> QED BY <2>1, <2>3
<1>6. /\ DOMAIN mem' = DOMAIN mem
      /\ \A c \in DOMAIN mem : mem'[c] = IF c = cell THEN v ELSE mem[c]
  BY <1>2
<1>7. StackType' /\ MemTypes'
  <2>1. \A c \in DOMAIN mem : mem[c] \in Values
    BY <1>1 DEF TypeOK, MemTypes
  <2> HIDE DEF cell
  <2>2. \A c \in DOMAIN mem' : mem'[c] \in Values'
    BY <1>3, <1>6, <2>1
  <2>3. Cells' = Cells /\ DOMAIN mem \subseteq Cells
    BY <1>1 DEF Cells, TypeOK, MemTypes
  <2> QED BY <1>3, <1>5, <1>6, <2>2, <2>3 DEF StackType, MemTypes
<1>8. FrameTypes'
  BY <1>1 DEF TypeOK, FrameTypes
<1>9. UpvalueTypes'
  BY <1>1, <1>3 DEF TypeOK, UpvalueTypes
<1>10. FnTypes'
  BY <1>1 DEF TypeOK, FnTypes
<1>11. LoopTypes'
  BY <1>1 DEF TypeOK, LoopTypes
<1>12. Stacked'
  BY <1>1, <1>5 DEF Stacked, End
<1>13. Running' /\ InLoop'
  BY DEF IInv, Running, InLoop, Closing
<1>14. Listed' /\ OneUpvaluePerVariable'
  BY DEF IInv, Listed, OneUpvaluePerVariable
<1>15. Owned' /\ Dead'
  BY DEF IInv, Owned, OwnedBy, Dead, Closing
<1>16. HasCells'
  BY <1>1, <1>6 DEF HasCells
<1>17. ClosedKept'
  <2>1. ASSUME NEW u \in DOMAIN upvalues, upvalues[u].isClosed
        PROVE  upvalues[u].closed = mem'[upvalues[u].cell]
    <3>1. upvalues[u].cell # cell
      <4>1. frames[k].act # upvalues[u].cell[1]
        BY <2>1 DEF IInv, Dead
      <4> QED BY <4>1
    <3>2. upvalues[u].cell \in DOMAIN mem /\ upvalues[u].closed = mem[upvalues[u].cell]
      BY <2>1 DEF IInv, ClosedKept, HasCells
    <3> HIDE DEF cell
    <3> QED BY <1>6, <3>1, <3>2
  <2> QED BY <2>1 DEF ClosedKept
<1>18. LocalsKept'
  <2>1. ASSUME NEW j \in DOMAIN frames, NEW a \in 0 .. FrameSize[frames[j].proto] - 1
        PROVE  stack'[frames[j].base + a + 1] = mem'[<<frames[j].act, a>>]
    <3> DEFINE s == frames[j].base + a + 1
               c == <<frames[j].act, a>>
    <3>1. s \in 1 .. Len(stack) /\ c \in DOMAIN mem /\ stack[s] = mem[c]
      BY <1>1, LocalsAreApart DEF HasCells, LocalsKept
    <3>2. s = slot <=> c = cell
      <4>1. frames[j].base \in Nat /\ frames[k].base \in Nat
        BY <1>1, FramesAre
      <4>2. frames[j].base + a = frames[k].base + i => j = k /\ a = i
        BY <1>1, LocalsAreApart
      <4>3. frames[j].act = frames[k].act => j = k
        BY DEF IInv, Running
      <4> QED BY <4>1, <4>2, <4>3
    <3> HIDE DEF s, c, slot, cell
    <3>3. stack'[s] = mem'[c]
      BY <1>5, <1>6, <3>1, <3>2
    <3> QED BY <3>3 DEF s, c
  <2> QED BY <2>1 DEF LocalsKept
<1> QED BY <1>7, <1>8, <1>9, <1>10, <1>11, <1>12, <1>13, <1>14, <1>15, <1>16, <1>17, <1>18 DEF IInv, TypeOK

LEMMA StoreLocalKeeps ==
  ASSUME IInv, NEW i \in 0 .. FrameSize[frame.proto] - 1, StoreLocal(i)
  PROVE  IInv'
<1>1. TypeOK /\ Stacked
  BY DEF IInv
<1>2. frame = frames[Len(frames)] /\ Len(frames) \in DOMAIN frames
  BY <1>1, FramesAre
<1>3. Peek \in Values
  BY <1>1, PeekIsValue DEF StoreLocal
<1>4. ~Closing
  BY DEF StoreLocal, Closing
<1>5. /\ stack' = [stack EXCEPT ![frames[Len(frames)].base + i + 1] = Peek]
      /\ mem' = [mem EXCEPT ![<<frames[Len(frames)].act, i>>] = Peek]
      /\ UNCHANGED <<frames, heap, loops, acts>>
  BY <1>2 DEF StoreLocal
<1> QED BY <1>2, <1>3, <1>4, <1>5, SlotStore

\* A store to a variable that outlived its frame changes the one upvalue that holds it.
LEMMA ClosedStore ==
  ASSUME IInv, ~Closing, NEW u \in DOMAIN upvalues, upvalues[u].isClosed, NEW v \in Values,
         upvalues' = [upvalues EXCEPT ![u].closed = v],
         mem' = [mem EXCEPT ![upvalues[u].cell] = v],
         UNCHANGED <<stack, frames, openUpvalues, fns, loops, acts>>
  PROVE  IInv'
<1> USE DEF loops
<1> DEFINE Ups == [stackSlot : Nat, isClosed : BOOLEAN, closed : Values, cell : Cells]
           cell == upvalues[u].cell
<1>1. TypeOK /\ Stacked /\ HasCells /\ LocalsKept
  BY DEF IInv
<1>2. Values' = Values /\ Cells' = Cells
  BY DEF Values, Cells
<1>3. upvalues \in Seq(Ups) /\ upvalues[u] \in Ups /\ DOMAIN upvalues = 1 .. Len(upvalues)
  BY <1>1, UpvaluesAre DEF TypeOK, UpvalueTypes
<1>4. [upvalues[u] EXCEPT !.closed = v] \in Ups
  BY <1>3
<1>5. upvalues' = [upvalues EXCEPT ![u] = [upvalues[u] EXCEPT !.closed = v]]
  OBVIOUS
<1>6. upvalues' \in Seq(Ups) /\ DOMAIN upvalues' = DOMAIN upvalues
  <2> DEFINE new == [upvalues[u] EXCEPT !.closed = v]
  <2> HIDE DEF Ups, new
  <2>1. upvalues' = [upvalues EXCEPT ![u] = new]
    BY <1>5 DEF new
  <2> QED BY <1>3, <1>4, <2>1, ExceptSeq, LenProperties DEF new
<1>7. \A w \in DOMAIN upvalues :
        /\ upvalues'[w].stackSlot = upvalues[w].stackSlot
        /\ upvalues'[w].isClosed = upvalues[w].isClosed
        /\ upvalues'[w].cell = upvalues[w].cell
        /\ upvalues'[w].closed = IF w = u THEN v ELSE upvalues[w].closed
  BY <1>3, <1>5
<1>8. /\ cell \in DOMAIN mem /\ DOMAIN mem' = DOMAIN mem
      /\ \A c \in DOMAIN mem : mem'[c] = IF c = cell THEN v ELSE mem[c]
  BY <1>1 DEF HasCells
<1>9. StackType' /\ FrameTypes'
  BY <1>1, <1>2 DEF TypeOK, StackType, FrameTypes
<1>10. UpvalueTypes' /\ FnTypes'
  BY <1>1, <1>2, <1>6 DEF TypeOK, UpvalueTypes, FnTypes
<1>11. LoopTypes'
  BY <1>1, <1>6 DEF TypeOK, LoopTypes
<1>12. MemTypes'
  <2>1. DOMAIN mem \subseteq Cells /\ \A c \in DOMAIN mem : mem[c] \in Values
    BY <1>1 DEF TypeOK, MemTypes
  <2> HIDE DEF cell
  <2> QED BY <1>2, <1>8, <2>1 DEF MemTypes
<1>13. Stacked'
  BY <1>1 DEF Stacked, End
<1>14. Running'
  BY <1>6, <1>7 DEF IInv, Running
<1>15. InLoop'
  BY DEF IInv, InLoop, Closing
<1>16. Listed' /\ OneUpvaluePerVariable'
  BY <1>6, <1>7 DEF IInv, Listed, OneUpvaluePerVariable
<1>17. Owned'
  BY <1>6, <1>7 DEF IInv, Owned, OwnedBy
<1>18. Dead'
  <2>1. ASSUME NEW w \in DOMAIN upvalues, upvalues[w].isClosed, NEW k \in DOMAIN frames
        PROVE  frames[k].act # upvalues[w].cell[1]
    BY <2>1 DEF IInv, Dead
  <2>2. \A w \in DOMAIN upvalues' : upvalues'[w].isClosed = upvalues[w].isClosed /\ upvalues'[w].cell = upvalues[w].cell
    BY <1>6, <1>7
  <2> QED BY <1>6, <2>1, <2>2 DEF Dead
<1>19. HasCells'
  BY <1>1, <1>6, <1>7, <1>8 DEF HasCells
<1>20. ClosedKept'
  <2>1. ASSUME NEW w \in DOMAIN upvalues, upvalues[w].isClosed
        PROVE  upvalues'[w].closed = mem'[upvalues[w].cell]
    <3>1. upvalues[w].cell = cell <=> w = u
      BY DEF IInv, OneUpvaluePerVariable
    <3>2. upvalues[w].cell \in DOMAIN mem /\ upvalues[w].closed = mem[upvalues[w].cell]
      BY <2>1 DEF IInv, ClosedKept, HasCells
    <3> HIDE DEF cell
    <3> QED BY <1>7, <1>8, <3>1, <3>2
  <2> QED BY <1>6, <1>7, <2>1 DEF ClosedKept
<1>21. LocalsKept'
  <2>1. ASSUME NEW j \in DOMAIN frames, NEW a \in 0 .. FrameSize[frames[j].proto] - 1
        PROVE  stack[frames[j].base + a + 1] = mem'[<<frames[j].act, a>>]
    <3>1. <<frames[j].act, a>> # cell
      <4>1. frames[j].act # cell[1]
        BY DEF IInv, Dead
      <4> QED BY <4>1
    <3>2. /\ <<frames[j].act, a>> \in DOMAIN mem
          /\ stack[frames[j].base + a + 1] = mem[<<frames[j].act, a>>]
      BY <1>1 DEF HasCells, LocalsKept
    <3> HIDE DEF cell
    <3> QED BY <1>8, <3>1, <3>2
  <2> QED BY <2>1 DEF LocalsKept
<1> QED BY <1>9, <1>10, <1>11, <1>12, <1>13, <1>14, <1>15, <1>16, <1>17, <1>18, <1>19, <1>20, <1>21 DEF IInv, TypeOK

LEMMA StoreUpvalueKeeps ==
  ASSUME IInv, NEW k \in DOMAIN Captures[frame.proto], StoreUpvalue(k)
  PROVE  IInv'
<1> DEFINE u == Upvalue(k)
<1>1. TypeOK /\ Stacked /\ Running /\ Owned
  BY DEF IInv
<1>2. u \in DOMAIN upvalues
  BY <1>1, UpvalueExists
<1>3. Peek \in Values /\ ~Closing
  BY <1>1, PeekIsValue DEF StoreUpvalue, Closing
<1>4. CASE upvalues[u].isClosed
  <2>1. /\ upvalues' = [upvalues EXCEPT ![u].closed = Peek]
        /\ mem' = [mem EXCEPT ![upvalues[u].cell] = Peek]
        /\ UNCHANGED <<stack, frames, openUpvalues, fns, loops, acts>>
    BY <1>4 DEF StoreUpvalue
  <2> HIDE DEF u
  <2> QED BY <1>2, <1>3, <1>4, <2>1, ClosedStore
<1>5. CASE ~upvalues[u].isClosed
  <2>1. /\ stack' = [stack EXCEPT ![upvalues[u].stackSlot + 1] = Peek]
        /\ mem' = [mem EXCEPT ![upvalues[u].cell] = Peek]
        /\ UNCHANGED <<upvalues, frames, openUpvalues, fns, loops, acts>>
    BY <1>5 DEF StoreUpvalue
  <2> HIDE DEF u
  <2>2. PICK j \in DOMAIN frames :
          /\ upvalues[u].cell[2] \in 0 .. FrameSize[frames[j].proto] - 1
          /\ upvalues[u].stackSlot + 1 = frames[j].base + upvalues[u].cell[2] + 1
          /\ upvalues[u].cell = <<frames[j].act, upvalues[u].cell[2]>>
    BY <1>1, <1>2, <1>5, OpenIsOnStack
  <2> DEFINE i == upvalues[u].cell[2]
  <2>3. /\ stack' = [stack EXCEPT ![frames[j].base + i + 1] = Peek]
        /\ mem' = [mem EXCEPT ![<<frames[j].act, i>>] = Peek]
        /\ UNCHANGED <<frames, heap, loops, acts>>
    BY <2>1, <2>2 DEF heap
  <2>4. i \in 0 .. FrameSize[frames[j].proto] - 1
    BY <2>2
  <2> HIDE DEF i
  <2> QED BY <1>3, <2>2, <2>3, <2>4, SlotStore
<1> QED BY <1>4, <1>5

\* A step of a loop that leaves the stack, the frames and the heap alone.
LEMMA LoopsChange ==
  ASSUME IInv, UNCHANGED <<stack, frames, heap, history>>,
         LoopTypes', InLoop', Closing => Closing'
  PROVE  IInv'
<1> USE DEF heap, history
<1>1. TypeOK
  BY DEF IInv
<1>2. Values' = Values /\ Cells' = Cells
  BY DEF Values, Cells
<1>3. StackType' /\ FrameTypes'
  BY <1>1, <1>2 DEF TypeOK, StackType, FrameTypes
<1>4. UpvalueTypes' /\ FnTypes'
  BY <1>1, <1>2 DEF TypeOK, UpvalueTypes, FnTypes
<1>5. MemTypes'
  BY <1>1, <1>2 DEF TypeOK, MemTypes
<1>6. Stacked' /\ Running'
  BY DEF IInv, Stacked, End, Running
<1>7. Listed' /\ OneUpvaluePerVariable' /\ Owned'
  BY DEF IInv, Listed, OneUpvaluePerVariable, Owned, OwnedBy
<1>8. Dead'
  BY DEF IInv, Dead
<1>9. HasCells' /\ LocalsKept' /\ ClosedKept'
  BY DEF IInv, HasCells, LocalsKept, ClosedKept
<1> QED BY <1>3, <1>4, <1>5, <1>6, <1>7, <1>8, <1>9 DEF IInv, TypeOK

LEMMA StutterKeeps ==
  ASSUME IInv, UNCHANGED vars
  PROVE  IInv'
<1>1. UNCHANGED <<stack, frames, heap, history>> /\ UNCHANGED loops /\ UNCHANGED <<upvalues, openUpvalues>>
  BY DEF vars, heap, history, loops
<1>2. LoopTypes'
  BY <1>1 DEF IInv, TypeOK, LoopTypes, loops
<1>3. InLoop' /\ (Closing => Closing')
  BY <1>1 DEF IInv, InLoop, Closing, loops
<1> QED BY <1>1, <1>2, <1>3, LoopsChange

LEMMA MakeClosureKeeps ==
  ASSUME IInv, NEW p \in Protos \ {Main}, MakeClosure(p)
  PROVE  IInv'
<1>1. TypeOK /\ InLoop /\ frame = frames[Len(frames)]
  BY FramesAre DEF IInv
<1>2. /\ pc = "fetch" /\ pc' = "make" /\ making' = [proto |-> p, upvalues |-> << >>]
      /\ ParentOf[p] = frame.proto
      /\ UNCHANGED <<stack, frames, heap, at, history>>
  BY DEF MakeClosure
<1>3. LoopTypes'
  <2>1. << >> \in Seq(DOMAIN upvalues')
    BY EmptySeq
  <2>2. at' \in Nat \ {0}
    BY <1>1, <1>2 DEF TypeOK, LoopTypes
  <2> QED BY <1>2, <2>1, <2>2 DEF LoopTypes
<1>4. Len(<< >>) <= Len(Captures[p])
  BY CapturesAre, EmptySeq
<1>5. InLoop' /\ (Closing => Closing')
  BY <1>1, <1>2, <1>4 DEF InLoop, Closing
<1> QED BY <1>2, <1>3, <1>5, LoopsChange

\* The capture MAKE_CLOSURE is at is one the running function can give.
LEMMA CaptureIs ==
  ASSUME TypeOK, InLoop, Capturing
  PROVE  /\ making.proto \in Protos
         /\ Capture.index \in Nat
         /\ Capture.isLocal => Capture.index < FrameSize[frame.proto]
         /\ ~Capture.isLocal => Capture.index + 1 \in DOMAIN Captures[frame.proto]
<1>1. making \in [proto : Protos, upvalues : Seq(DOMAIN upvalues)]
  BY DEF TypeOK, LoopTypes
<1>2. making.proto \in Protos /\ Len(making.upvalues) \in Nat
  BY <1>1, LenProperties
<1>3. ParentOf[making.proto] = frame.proto /\ Len(making.upvalues) < Len(Captures[making.proto])
  BY FramesAre DEF InLoop, Capturing
<1> DEFINE l == Len(making.upvalues)
           p == making.proto
<1> HIDE DEF l, p
<1>4. p \in Protos /\ l \in Nat /\ l < Len(Captures[p]) /\ ParentOf[p] = frame.proto
  BY <1>2, <1>3 DEF l, p
<1>5. Len(Captures[p]) \in Nat /\ DOMAIN Captures[p] = 1 .. Len(Captures[p])
  BY <1>4, CapturesAre
<1>6. l + 1 \in DOMAIN Captures[p]
  BY <1>4, <1>5
<1>7. Capture = Captures[p][l + 1]
  BY DEF Capture, p, l
<1> QED BY <1>4, <1>6, <1>7, CapturesAre DEF p

\* The closure being made gets one more upvalue.
LEMMA CapturedAre ==
  ASSUME TypeOK, InLoop, Capturing, NEW S, DOMAIN upvalues \subseteq S, NEW u \in S, Captured(u)
  PROVE  /\ making' \in [proto : Protos, upvalues : Seq(S)]
         /\ making'.proto = making.proto
         /\ Len(making'.upvalues) <= Len(Captures[making.proto])
<1>1. making \in [proto : Protos, upvalues : Seq(DOMAIN upvalues)]
  BY DEF TypeOK, LoopTypes
<1>2. making.upvalues \in Seq(S)
  BY <1>1, LenProperties, ElementOfSeq, SeqDef
<1>3. /\ Append(making.upvalues, u) \in Seq(S)
      /\ Len(Append(making.upvalues, u)) = Len(making.upvalues) + 1
  BY <1>2, AppendHolds
<1>4. /\ making' \in [proto : Protos, upvalues : Seq(S)]
      /\ making'.proto = making.proto
      /\ making'.upvalues = Append(making.upvalues, u)
  BY <1>1, <1>3 DEF Captured
<1> DEFINE l == Len(making.upvalues)
           c == Len(Captures[making.proto])
<1>5. l \in Nat /\ c \in Nat /\ l < c
  <2>1. making.proto \in Protos
    BY <1>1
  <2> QED BY <1>2, <2>1, CapturesAre, LenProperties DEF Capturing
<1> HIDE DEF l, c
<1>6. l + 1 <= c
  BY <1>5
<1> QED BY <1>3, <1>4, <1>6 DEF l, c

LEMMA CapturedKeeps ==
  ASSUME IInv, Capturing, NEW u \in DOMAIN upvalues, Captured(u),
         UNCHANGED <<stack, frames, heap, pc, at, history>>
  PROVE  IInv'
<1>1. TypeOK /\ InLoop
  BY DEF IInv
<1>2. /\ making' \in [proto : Protos, upvalues : Seq(DOMAIN upvalues)]
      /\ making'.proto = making.proto
      /\ Len(making'.upvalues) <= Len(Captures[making.proto])
  BY <1>1, CapturedAre
<1>3. upvalues' = upvalues /\ openUpvalues' = openUpvalues
  BY DEF heap
<1>4. LoopTypes'
  BY <1>1, <1>2, <1>3 DEF TypeOK, LoopTypes
<1>5. InLoop' /\ (Closing => Closing')
  BY <1>1, <1>2, <1>3 DEF InLoop, Closing
<1> QED BY <1>4, <1>5, LoopsChange

LEMMA CaptureOpenKeeps ==
  ASSUME IInv, NEW j \in DOMAIN openUpvalues, CaptureOpen(j)
  PROVE  IInv'
<1>1. openUpvalues[j] \in DOMAIN upvalues
  BY UpvaluesAre DEF IInv
<1> QED BY <1>1, CapturedKeeps DEF CaptureOpen

LEMMA CaptureUpvalueKeeps ==
  ASSUME IInv, CaptureUpvalue
  PROVE  IInv'
<1>1. TypeOK /\ InLoop /\ Running
  BY DEF IInv
<1>2. Capturing /\ ~Capture.isLocal
  BY DEF CaptureUpvalue
<1>3. Upvalue(Capture.index + 1) \in DOMAIN upvalues
  BY <1>1, <1>2, CaptureIs, UpvalueExists
<1> QED BY <1>2, <1>3, CapturedKeeps DEF CaptureUpvalue

\* A loop that starts at 1 has nothing behind it.
LEMMA NothingBeforeFirst == \A n \in Nat : \A i \in 1 .. n : ~(i < 1)
  OBVIOUS

LEMMA StartReturnKeeps ==
  ASSUME IInv, NEW instr \in {"return void", "return value"}, StartReturn(instr)
  PROVE  IInv'
<1>1. /\ TypeOK /\ InLoop /\ pc = "fetch" /\ pc' = instr /\ Len(frames) > 1
      /\ UNCHANGED <<stack, frames, heap, making, at, history>>
  BY DEF IInv, StartReturn
<1>2. upvalues' = upvalues /\ openUpvalues' = openUpvalues
  BY <1>1 DEF heap
<1>3. LoopTypes'
  BY <1>1, <1>2 DEF TypeOK, LoopTypes
<1>4. Closing'
  BY <1>1 DEF Closing
<1>5. at' = 1
  BY <1>1 DEF InLoop
<1>6. \A i \in DOMAIN openUpvalues : ~(i < 1)
  <2>1. DOMAIN openUpvalues = 1 .. Len(openUpvalues) /\ Len(openUpvalues) \in Nat
    BY <1>1, UpvaluesAre
  <2> QED BY ONLY <2>1, NothingBeforeFirst
<1>7. InLoop'
  BY <1>1, <1>2, <1>5, <1>6 DEF InLoop
<1> QED BY <1>1, <1>3, <1>4, <1>7, LoopsChange

LEMMA SkipUpvalueKeeps ==
  ASSUME IInv, SkipUpvalue
  PROVE  IInv'
<1>1. /\ TypeOK /\ InLoop /\ Closing /\ at <= Len(openUpvalues)
      /\ ~InFrame(openUpvalues[at]) /\ at' = at + 1
      /\ UNCHANGED <<stack, frames, heap, pc, making, history>>
  BY DEF IInv, SkipUpvalue
<1>2. upvalues' = upvalues /\ openUpvalues' = openUpvalues
  BY <1>1 DEF heap
<1>3. at \in Nat \ {0}
  BY <1>1 DEF TypeOK, LoopTypes
<1>4. LoopTypes'
  <2>1. at' \in Nat \ {0}
    BY <1>1, <1>3
  <2>2. /\ pc' \in {"fetch", "make", "return void", "return value"}
        /\ making' \in [proto : Protos, upvalues : Seq(DOMAIN upvalues')]
    BY <1>1, <1>2 DEF TypeOK, LoopTypes
  <2> QED BY <2>1, <2>2 DEF LoopTypes
<1>5. Closing'
  BY <1>1 DEF Closing
<1>6. ASSUME NEW i \in DOMAIN openUpvalues, i < at + 1
      PROVE  upvalues[openUpvalues[i]].stackSlot < frames[Len(frames)].base
  <2>1. i \in Nat /\ openUpvalues[i] \in DOMAIN upvalues
    BY <1>1, <1>6, UpvaluesAre
  <2>2. CASE i < at
    BY <1>1, <1>6, <2>2 DEF InLoop
  <2>3. CASE i = at
    <3>1. /\ upvalues[openUpvalues[i]].stackSlot \in Nat /\ frames[Len(frames)].base \in Nat
          /\ frame = frames[Len(frames)]
      BY <1>1, <2>1, UpvaluesAre, FramesAre
    <3> QED BY <1>1, <2>3, <3>1 DEF InFrame
  <2> QED BY <1>3, <1>6, <2>1, <2>2, <2>3
<1>7. InLoop'
  BY <1>1, <1>2, <1>5, <1>6 DEF InLoop, Closing
<1> QED BY <1>1, <1>4, <1>5, <1>7, LoopsChange

\* A sequence over a set is one over any larger set.
LEMMA SeqGrows ==
  ASSUME NEW S, NEW T, NEW s \in Seq(S), S \subseteq T
  PROVE  s \in Seq(T)
  BY LenProperties, ElementOfSeq, SeqDef

\* Upvalues that were made stay where the function objects and the loop hold them.
LEMMA FnsGrow ==
  ASSUME FnTypes, NEW D, DOMAIN upvalues \subseteq D
  PROVE  fns \in Seq([proto : Protos, upvalues : Seq(D)])
<1> DEFINE Old == [proto : Protos, upvalues : Seq(DOMAIN upvalues)]
           New == [proto : Protos, upvalues : Seq(D)]
<1>1. ASSUME NEW r \in Old
      PROVE  r \in New
  <2>1. r.upvalues \in Seq(D)
    BY SeqGrows
  <2> QED BY <2>1
<1>2. fns \in Seq(Old)
  BY DEF FnTypes
<1> HIDE DEF Old, New
<1>3. fns \in Seq(New)
  BY <1>1, <1>2, SeqGrows
<1> QED BY <1>3 DEF New

\* A variable is captured a first time: no upvalue of it exists, open or closed.
LEMMA CaptureLocalKeeps ==
  ASSUME IInv, CaptureLocal
  PROVE  IInv'
<1> DEFINE n == Len(frames)
           i == Capture.index
           N == Len(upvalues)
           new == [stackSlot |-> WantedSlot, isClosed |-> FALSE, closed |-> Garbage, cell |-> <<frame.act, i>>]
           Ups == [stackSlot : Nat, isClosed : BOOLEAN, closed : Values, cell : Cells]
<1>1. /\ TypeOK /\ Stacked /\ Running /\ InLoop /\ Capturing /\ pc = "make"
      /\ i \in Nat /\ i < FrameSize[frame.proto]
      /\ frame = frames[n] /\ n \in DOMAIN frames
      /\ frame.act \in Nat /\ frame.base \in Nat /\ frame.act < acts
      /\ WantedSlot = frame.base + i
  BY CaptureIs, FramesAre DEF IInv, CaptureLocal, Capturing, WantedSlot
<1>2. /\ upvalues' = Append(upvalues, new) /\ openUpvalues' = Append(openUpvalues, N + 1)
      /\ Captured(N + 1)
      /\ UNCHANGED <<stack, frames, fns, pc, at, acts, mem>>
  BY DEF CaptureLocal, history
<1>3. ~Closing /\ ~Closing'
  BY <1>1, <1>2 DEF Closing
<1>4. new \in Ups
  BY <1>1 DEF Cells, Values
<1>5. /\ upvalues \in Seq(Ups) /\ N \in Nat /\ DOMAIN upvalues = 1 .. N
      /\ openUpvalues \in Seq(DOMAIN upvalues)
  BY <1>1, UpvaluesAre DEF TypeOK, UpvalueTypes
<1>6. /\ upvalues' \in Seq(Ups) /\ DOMAIN upvalues' = 1 .. N + 1
      /\ \A u \in 1 .. N : upvalues'[u] = upvalues[u]
      /\ upvalues'[N + 1] = new
  <2> HIDE DEF Ups, new, N
  <2> QED BY <1>2, <1>4, <1>5, AppendHolds DEF N
<1>7. /\ DOMAIN upvalues' = DOMAIN upvalues \union {N + 1} /\ N + 1 \notin DOMAIN upvalues
      /\ \A u \in DOMAIN upvalues : upvalues'[u] = upvalues[u]
      /\ upvalues'[N + 1].stackSlot = frame.base + i /\ upvalues'[N + 1].isClosed = FALSE
      /\ upvalues'[N + 1].cell = <<frame.act, i>>
  <2>1. 1 .. N + 1 = (1 .. N) \union {N + 1} /\ N + 1 \notin 1 .. N
    <3> HIDE DEF N
    <3> QED BY <1>5
  <2> QED BY <1>1, <1>5, <1>6, <2>1
<1> DEFINE m == N + 1
<1> HIDE DEF n, i, N, new, Ups, m
<1>8. /\ openUpvalues \in Seq(DOMAIN upvalues') /\ m \in DOMAIN upvalues'
      /\ openUpvalues' = Append(openUpvalues, m)
  BY <1>2, <1>5, <1>7, SeqGrows DEF m
<1> DEFINE O == Len(openUpvalues)
<1>9. /\ O \in Nat /\ DOMAIN openUpvalues = 1 .. O
      /\ openUpvalues' \in Seq(DOMAIN upvalues') /\ DOMAIN openUpvalues' = 1 .. O + 1
      /\ \A j \in 1 .. O : openUpvalues'[j] = openUpvalues[j]
      /\ openUpvalues'[O + 1] = m
      /\ \A x : Holds(openUpvalues', x) <=> Holds(openUpvalues, x) \/ x = m
  BY <1>1, <1>8, AppendHolds, UpvaluesAre
<1>10. Values' = Values /\ Cells' = Cells
  BY <1>2 DEF Values, Cells
<1>11. StackType' /\ FrameTypes'
  BY <1>1, <1>2, <1>10 DEF TypeOK, StackType, FrameTypes
<1>12. UpvalueTypes'
  BY <1>6, <1>9, <1>10 DEF UpvalueTypes, Ups
<1>13. FnTypes'
  <2>1. fns \in Seq([proto : Protos, upvalues : Seq(DOMAIN upvalues')])
    BY <1>1, <1>7, FnsGrow DEF TypeOK
  <2>2. \A f \in DOMAIN fns : Len(fns[f].upvalues) = Len(Captures[fns[f].proto])
    BY <1>1 DEF TypeOK, FnTypes
  <2> QED BY <1>2, <2>1, <2>2 DEF FnTypes
<1>14. /\ making' \in [proto : Protos, upvalues : Seq(DOMAIN upvalues')]
       /\ making'.proto = making.proto
       /\ Len(making'.upvalues) <= Len(Captures[making.proto])
  BY <1>1, <1>2, <1>7, <1>8, CapturedAre DEF m
<1>15. LoopTypes'
  BY <1>1, <1>2, <1>14 DEF TypeOK, LoopTypes
<1>16. MemTypes'
  BY <1>1, <1>2, <1>10 DEF TypeOK, MemTypes
<1>17. InLoop'
  BY <1>1, <1>2, <1>3, <1>14 DEF InLoop
<1>18. Stacked' /\ LocalsKept'
  BY <1>2 DEF IInv, Stacked, LocalsKept, End
<1>19. Running'
  <2>1. \A u \in DOMAIN upvalues' : upvalues'[u].cell[1] < acts
    BY <1>1, <1>7 DEF Running
  <2> QED BY <1>1, <1>2, <2>1 DEF Running
<1>20. Listed'
  <2>1. \A u \in DOMAIN upvalues' : ~upvalues'[u].isClosed <=> Holds(openUpvalues', u)
    <3>1. \A u \in DOMAIN upvalues : ~upvalues[u].isClosed <=> Holds(openUpvalues, u)
      BY DEF IInv, Listed
    <3> QED BY <1>7, <1>9, <3>1 DEF m
  <2>2. ASSUME NEW j \in DOMAIN openUpvalues', NEW k \in DOMAIN openUpvalues',
               openUpvalues'[j] = openUpvalues'[k]
        PROVE  j = k
    <3>1. \A x \in 1 .. O : openUpvalues'[x] # m
      BY <1>1, <1>7, <1>9, UpvaluesAre DEF m
    <3>2. CASE j = O + 1
      <4> QED BY <1>9, <2>2, <3>1, <3>2
    <3>3. CASE k = O + 1
      <4> QED BY <1>9, <2>2, <3>1, <3>3
    <3>4. CASE j \in 1 .. O /\ k \in 1 .. O
      BY <1>9, <2>2, <3>4 DEF IInv, Listed
    <3> QED BY <1>9, <2>2, <3>2, <3>3, <3>4
  <2> QED BY <2>1, <2>2 DEF Listed
<1>21. Owned'
  <2> DEFINE OwnedNow(u, k) == /\ frames'[k].act = upvalues'[u].cell[1]
                               /\ upvalues'[u].stackSlot = frames'[k].base + upvalues'[u].cell[2]
                               /\ upvalues'[u].cell[2] < FrameSize[frames'[k].proto]
  <2>1. ASSUME NEW u \in DOMAIN upvalues, ~upvalues[u].isClosed
        PROVE  \E k \in DOMAIN frames : OwnedNow(u, k)
    <3>1. PICK k \in DOMAIN frames : OwnedBy(u, k)
      BY <2>1 DEF IInv, Owned
    <3>2. OwnedNow(u, k)
      BY <1>2, <1>7, <3>1 DEF OwnedBy
    <3> QED BY <3>2
  <2>2. OwnedNow(m, n)
    <3>1. upvalues'[m].cell[1] = frames[n].act /\ upvalues'[m].cell[2] = i
      BY <1>1, <1>7 DEF m
    <3>2. upvalues'[m].stackSlot = frames[n].base + i /\ i < FrameSize[frames[n].proto]
      BY <1>1, <1>7 DEF m
    <3>3. frames' = frames
      BY <1>2
    <3> QED BY <3>1, <3>2, <3>3
  <2>3. \A u \in DOMAIN upvalues' : u \in DOMAIN upvalues \/ u = m
    BY <1>7 DEF m
  <2> HIDE DEF OwnedNow
  <2>4. ASSUME NEW u \in DOMAIN upvalues', ~upvalues'[u].isClosed
        PROVE  \E k \in DOMAIN frames : OwnedNow(u, k)
    <3>1. CASE u \in DOMAIN upvalues
      BY <1>7, <2>1, <2>4, <3>1
    <3>2. CASE u = m
      BY <1>1, <2>2, <3>2
    <3> QED BY <2>3, <3>1, <3>2
  <2> QED BY <1>2, <2>4 DEF Owned, OwnedBy, OwnedNow
<1>22. Dead'
  <2>1. ASSUME NEW u \in DOMAIN upvalues', upvalues'[u].isClosed, NEW k \in DOMAIN frames
        PROVE  frames[k].act # upvalues'[u].cell[1]
    <3>1. u \in DOMAIN upvalues /\ upvalues'[u] = upvalues[u]
      BY <1>7, <2>1
    <3> QED BY <1>3, <2>1, <3>1 DEF IInv, Dead
  <2> QED BY <1>2, <2>1 DEF Dead
<1>23. ASSUME NEW u \in DOMAIN upvalues
       PROVE  upvalues[u].cell # <<frame.act, i>>
  <2> SUFFICES ASSUME upvalues[u].cell = <<frame.act, i>>
               PROVE  FALSE
    OBVIOUS
  <2>1. upvalues[u].cell[1] = frame.act /\ upvalues[u].cell[2] = i
    OBVIOUS
  <2>2. ~upvalues[u].isClosed
    BY <1>1, <1>3, <2>1 DEF IInv, Dead
  <2>3. PICK k \in DOMAIN frames : OwnedBy(u, k)
    BY <2>2 DEF IInv, Owned
  <2>4. k = n
    BY <1>1, <2>1, <2>3 DEF OwnedBy, Running
  <2>5. upvalues[u].stackSlot = WantedSlot
    BY <1>1, <2>1, <2>3, <2>4 DEF OwnedBy
  <2>6. PICK j \in DOMAIN openUpvalues : openUpvalues[j] = u
    BY <2>2 DEF IInv, Listed, Holds
  <2>7. ~ReusableUpvalue(openUpvalues[j])
    BY <2>6 DEF CaptureLocal
  <2> QED BY <2>2, <2>5, <2>6, <2>7 DEF ReusableUpvalue
<1>24. OneUpvaluePerVariable'
  <2>1. ASSUME NEW u \in DOMAIN upvalues', NEW v \in DOMAIN upvalues', upvalues'[u].cell = upvalues'[v].cell
        PROVE  u = v
    <3>1. CASE u \in DOMAIN upvalues /\ v \in DOMAIN upvalues
      BY <1>7, <2>1, <3>1 DEF IInv, OneUpvaluePerVariable
    <3>2. CASE u \in DOMAIN upvalues /\ v = m
      BY <1>7, <1>23, <2>1, <3>2 DEF m
    <3>3. CASE u = m /\ v \in DOMAIN upvalues
      BY <1>7, <1>23, <2>1, <3>3 DEF m
    <3> QED BY <1>7, <3>1, <3>2, <3>3 DEF m
  <2> QED BY <2>1 DEF OneUpvaluePerVariable
<1>25. HasCells'
  <2>1. i \in 0 .. FrameSize[frames[n].proto] - 1
    <3>1. FrameSize[frames[n].proto] \in Nat /\ i \in Nat /\ i < FrameSize[frames[n].proto]
      BY <1>1, FramesAre
    <3> QED BY <3>1
  <2>2. <<frame.act, i>> \in DOMAIN mem
    BY <1>1, <2>1 DEF IInv, HasCells
  <2>3. \A u \in DOMAIN upvalues' : upvalues'[u].cell \in DOMAIN mem
    BY <1>7, <2>2 DEF IInv, HasCells
  <2> QED BY <1>2, <2>3 DEF IInv, HasCells
<1>26. ClosedKept'
  <2>1. ASSUME NEW u \in DOMAIN upvalues', upvalues'[u].isClosed
        PROVE  upvalues'[u].closed = mem[upvalues'[u].cell]
    <3>1. u \in DOMAIN upvalues /\ upvalues'[u] = upvalues[u]
      BY <1>7, <2>1
    <3> QED BY <2>1, <3>1 DEF IInv, ClosedKept
  <2> QED BY <1>2, <2>1 DEF ClosedKept
<1> QED BY <1>11, <1>12, <1>13, <1>15, <1>16, <1>17, <1>18, <1>19, <1>20, <1>21, <1>22, <1>24, <1>25, <1>26 DEF IInv, TypeOK

\* The function object MAKE_CLOSURE filled is pushed.
LEMMA PushClosureKeeps ==
  ASSUME IInv, PushClosure
  PROVE  IInv'
<1> DEFINE F == Len(fns)
           Type == [proto : Protos, upvalues : Seq(DOMAIN upvalues)]
           l == Len(stack)
           e == End(Len(frames))
<1>1. TypeOK /\ Stacked /\ Running /\ InLoop /\ HasCells /\ LocalsKept
  BY DEF IInv
<1>2. /\ pc = "make" /\ Len(making.upvalues) = Len(Captures[making.proto])
      /\ fns' = Append(fns, making)
      /\ stack' = Append(stack, Fn(Len(fns) + 1))
      /\ pc' = "fetch" /\ making' = Nothing
      /\ UNCHANGED <<frames, upvalues, openUpvalues, at, acts, mem>>
  BY DEF PushClosure, Push, history
<1>3. making \in Type /\ fns \in Seq(Type)
  BY <1>1 DEF TypeOK, LoopTypes, FnTypes
<1> HIDE DEF Type
<1>4. /\ F \in Nat /\ DOMAIN fns = 1 .. F /\ DOMAIN fns' = 1 .. F + 1
      /\ fns' \in Seq(Type) /\ Len(fns') = F + 1
      /\ \A f \in 1 .. F : fns'[f] = fns[f]
      /\ fns'[F + 1] = making
  BY <1>2, <1>3, AppendHolds, LenProperties
<1> HIDE DEF F
<1>5. /\ DOMAIN fns' = DOMAIN fns \union {F + 1}
      /\ \A f \in DOMAIN fns : fns'[f] = fns[f]
  <2>1. 1 .. F + 1 = (1 .. F) \union {F + 1}
    BY <1>4
  <2> QED BY <1>4, <2>1
<1>6. Values \subseteq Values' /\ Fn(F + 1) \in Values' /\ Cells' = Cells
  BY <1>5 DEF Values, Cells
<1>7. /\ stack \in Seq(Values') /\ l \in Nat /\ e \in Nat /\ e <= l
  BY <1>1, <1>6, SeqGrows, FramesAre DEF TypeOK, StackType, Stacked
<1>8. /\ stack' \in Seq(Values') /\ Len(stack') = l + 1
      /\ \A s \in 1 .. l : stack'[s] = stack[s]
  <2>1. stack' = Append(stack, Fn(F + 1))
    BY <1>2 DEF F
  <2> QED BY <1>6, <1>7, <2>1, AppendHolds
<1>9. StackType'
  BY <1>8 DEF StackType
<1>10. FrameTypes'
  <2> DEFINE Old == [proto : Protos, base : Nat, function : 0 .. Len(fns), act : 0 .. acts - 1]
             New == [proto : Protos, base : Nat, function : 0 .. Len(fns'), act : 0 .. acts - 1]
  <2>1. frames \in Seq(Old) /\ frames # << >> /\ acts \in Nat
    BY <1>1 DEF TypeOK, FrameTypes
  <2>2. ASSUME NEW x \in 0 .. F
        PROVE  x \in 0 .. F + 1
    BY <1>4
  <2>3. ASSUME NEW r \in Old
        PROVE  r \in New
    <3>1. r.function \in 0 .. Len(fns')
      BY <1>4, <2>2 DEF F
    <3> QED BY <3>1
  <2> HIDE DEF Old, New
  <2>4. frames \in Seq(New)
    BY <2>1, <2>3, SeqGrows
  <2> QED BY <1>2, <2>1, <2>4 DEF FrameTypes, New
<1>11. UpvalueTypes'
  <2> DEFINE Old == [stackSlot : Nat, isClosed : BOOLEAN, closed : Values, cell : Cells]
             New == [stackSlot : Nat, isClosed : BOOLEAN, closed : Values', cell : Cells]
  <2>1. upvalues \in Seq(Old) /\ openUpvalues \in Seq(DOMAIN upvalues)
    BY <1>1 DEF TypeOK, UpvalueTypes
  <2>2. ASSUME NEW r \in Old
        PROVE  r \in New
    BY <1>6
  <2> HIDE DEF Old, New
  <2>3. upvalues \in Seq(New)
    BY <2>1, <2>2, SeqGrows
  <2> QED BY <1>2, <1>6, <2>1, <2>3 DEF UpvalueTypes, New
<1>12. FnTypes'
  <2>1. \A f \in DOMAIN fns : Len(fns[f].upvalues) = Len(Captures[fns[f].proto])
    BY <1>1 DEF TypeOK, FnTypes
  <2>2. \A f \in DOMAIN fns' : Len(fns'[f].upvalues) = Len(Captures[fns'[f].proto])
    BY <1>2, <1>4, <1>5, <2>1
  <2> QED BY <1>2, <1>4, <2>2 DEF FnTypes, Type
<1>13. LoopTypes'
  <2>1. Nothing \in [proto : Protos, upvalues : Seq(DOMAIN upvalues)]
    BY ProtosAssumption, EmptySeq DEF Nothing
  <2> QED BY <1>1, <1>2, <2>1 DEF TypeOK, LoopTypes
<1>14. MemTypes'
  BY <1>1, <1>2, <1>6 DEF TypeOK, MemTypes
<1>15. Stacked'
  <2>1. e <= Len(stack')
    <3> HIDE DEF e, l
    <3> QED BY <1>7, <1>8
  <2> QED BY <1>1, <1>2, <2>1 DEF Stacked, End
<1>16. Running'
  BY <1>1, <1>2, <1>5 DEF Running
<1>17. InLoop'
  BY <1>1, <1>2 DEF InLoop, Closing
<1>18. Listed' /\ OneUpvaluePerVariable' /\ Owned'
  BY <1>2 DEF IInv, Listed, OneUpvaluePerVariable, Owned, OwnedBy
<1>19. Dead'
  <2>1. ~Closing
    BY <1>2 DEF Closing
  <2> QED BY <1>2, <2>1 DEF IInv, Dead
<1>20. HasCells' /\ ClosedKept'
  BY <1>2 DEF IInv, HasCells, ClosedKept
<1>21. LocalsKept'
  <2>1. ASSUME NEW k \in DOMAIN frames, NEW i \in 0 .. FrameSize[frames[k].proto] - 1
        PROVE  stack'[frames[k].base + i + 1] = mem[<<frames[k].act, i>>]
    <3>1. frames[k].base + i + 1 \in 1 .. l
      BY <1>1, LocalsAreApart
    <3> QED BY <1>1, <1>8, <3>1 DEF LocalsKept
  <2> QED BY <1>2, <2>1 DEF LocalsKept
<1> QED BY <1>9, <1>10, <1>11, <1>12, <1>13, <1>14, <1>15, <1>16, <1>17, <1>18, <1>19, <1>20, <1>21 DEF IInv, TypeOK

\* Resizing keeps what fits and fills the rest with garbage.
LEMMA ResizeIs ==
  ASSUME NEW S, Garbage \in S, NEW s \in Seq(S), NEW n \in Nat
  PROVE  /\ Resize(s, n) \in Seq(S) /\ Len(Resize(s, n)) = n
         /\ \A k \in 1 .. n : Resize(s, n)[k] = IF k <= Len(s) THEN s[k] ELSE Garbage
<1> DEFINE r == Resize(s, n)
<1>1. /\ Len(s) \in Nat
      /\ \A k \in 1 .. n : r[k] = IF k <= Len(s) THEN s[k] ELSE Garbage
      /\ DOMAIN r = 1 .. n
  BY LenProperties DEF Resize
<1>2. ASSUME NEW k \in 1 .. n
      PROVE  r[k] \in S
  <2>1. CASE k <= Len(s)
    <3>1. k \in 1 .. Len(s)
      BY <1>1, <2>1
    <3> QED BY <1>1, <2>1, <3>1, ElementOfSeq
  <2>2. CASE ~(k <= Len(s))
    BY <1>1, <2>2
  <2> QED BY <2>1, <2>2
<1>3. r \in [1 .. n -> S]
  BY <1>2 DEF Resize
<1> HIDE DEF r
<1>4. r \in Seq(S) /\ Len(r) = n
  BY <1>1, <1>3, SeqDef, LenProperties
<1> QED BY <1>1, <1>4 DEF r

\* The callee is under its arguments, which become its first locals.
LEMMA CallKeeps ==
  ASSUME IInv, NEW n \in 0 .. MaxTemps - 1, Call(n)
  PROVE  IInv'
<1> DEFINE F == Len(frames)
           l == Len(stack)
           e == End(F)
           f == Callee(n)[2]
           p == fns[f].proto
           size == FrameSize[p]
           base == l - n
           new == [proto |-> p, base |-> base, function |-> f, act |-> acts]
<1>1. TypeOK /\ Stacked /\ Running /\ InLoop /\ HasCells /\ LocalsKept
  BY DEF IInv
<1>2. /\ pc = "fetch" /\ Temps > n /\ IsFn(Callee(n)) /\ Params[p] = n
      /\ stack' = Resize(stack, base + size)
      /\ frames' = Append(frames, new)
      /\ mem' = WithNew(NewCells(acts, base, size, stack'), mem)
      /\ acts' = acts + 1
      /\ UNCHANGED <<upvalues, openUpvalues, fns, pc, making, at>>
  BY DEF Call, heap, loops
<1>3. /\ n \in Nat /\ l \in Nat /\ e \in Nat /\ base \in Nat /\ e < base
      /\ base \in 1 .. l /\ base + n = l
  <2>1. n \in Nat
    BY BoundsAssumption
  <2>2. l \in Nat /\ e \in Nat /\ Temps \in Int /\ Temps <= l - e
    BY <1>1, TempsAre, FramesAre
  <2> HIDE DEF l, e
  <2> QED BY <1>2, <2>1, <2>2
<1>4. f \in DOMAIN fns
  <2>1. Callee(n) \in Values
    BY <1>1, <1>3, FramesAre DEF Callee
  <2>2. PICK g \in DOMAIN fns : Callee(n) = Fn(g)
    BY <1>2, <2>1 DEF Values, Literals, Garbage, Const, Native, Fn, IsFn
  <2> QED BY <2>2 DEF Fn
<1>5. p \in Protos
  <2>1. fns \in Seq([proto : Protos, upvalues : Seq(DOMAIN upvalues)])
    BY <1>1 DEF TypeOK, FnTypes
  <2>2. fns[f] \in [proto : Protos, upvalues : Seq(DOMAIN upvalues)]
    BY <1>4, <2>1, LenProperties, ElementOfSeq
  <2> QED BY <2>2
<1>6. size \in Nat /\ n <= size
  BY <1>2, <1>5, ProtosAssumption
<1> HIDE DEF F, l, e, f, p, size, base
<1>7. base + size \in Nat /\ l <= base + size /\ e < base
  BY <1>3, <1>6
<1>8. Values' = Values /\ Cells' = Cells /\ Garbage \in Values
  BY <1>2 DEF Values, Cells
<1>9. /\ stack' \in Seq(Values) /\ Len(stack') = base + size
      /\ \A s \in 1 .. base + size : stack'[s] \in Values
      /\ \A s \in 1 .. l : stack'[s] = stack[s]
  <2>1. stack \in Seq(Values)
    BY <1>1 DEF TypeOK, StackType
  <2>2. /\ stack' \in Seq(Values) /\ Len(stack') = base + size
        /\ \A s \in 1 .. base + size : stack'[s] = IF s <= l THEN stack[s] ELSE Garbage
    BY ZenonT(60), <1>2, <1>7, <1>8, <2>1, ResizeIs DEF l
  <2>3. \A s \in 1 .. base + size : stack'[s] \in Values
    BY <2>2, ElementOfSeq
  <2>4. \A s \in 1 .. l : s \in 1 .. base + size /\ s <= l
    BY <1>3, <1>7
  <2> QED BY <2>2, <2>3, <2>4
<1>10. /\ F \in Nat \ {0} /\ DOMAIN frames = 1 .. F /\ acts \in Nat
       /\ \A k \in 1 .. F : frames[k].act # acts
  BY <1>1, FramesAre DEF F
<1>11. /\ frames' # << >> /\ frames' \in Seq([proto : Protos, base : Nat, function : 0 .. Len(fns), act : 0 .. acts' - 1])
       /\ Len(frames') = F + 1 /\ DOMAIN frames' = 1 .. F + 1
       /\ \A k \in 1 .. F : frames'[k] = frames[k]
       /\ frames'[F + 1] = new
  <2> DEFINE Old == [proto : Protos, base : Nat, function : 0 .. Len(fns), act : 0 .. acts - 1]
             Frames == [proto : Protos, base : Nat, function : 0 .. Len(fns), act : 0 .. acts' - 1]
  <2>1. frames \in Seq(Old)
    BY <1>1 DEF TypeOK, FrameTypes
  <2>2. ASSUME NEW x \in 0 .. acts - 1
        PROVE  x \in 0 .. acts' - 1
    BY <1>2, <1>10
  <2>3. ASSUME NEW r \in Old
        PROVE  r \in Frames
    <3>1. r.act \in 0 .. acts' - 1
      BY <2>2
    <3> QED BY <3>1
  <2>4. new \in Frames
    <3>1. acts \in 0 .. acts' - 1
      BY <1>2, <1>10
    <3>2. f \in 0 .. Len(fns)
      <4>1. fns \in Seq([proto : Protos, upvalues : Seq(DOMAIN upvalues)])
        BY <1>1 DEF TypeOK, FnTypes
      <4>2. f \in 1 .. Len(fns) /\ Len(fns) \in Nat
        BY <1>4, <4>1, LenProperties
      <4> QED BY <4>2
    <3> QED BY <1>3, <1>5, <3>1, <3>2
  <2> HIDE DEF Old, Frames, new
  <2>5. frames \in Seq(Frames)
    BY <2>1, <2>3, SeqGrows
  <2>6. /\ frames' \in Seq(Frames) /\ Len(frames') = F + 1 /\ DOMAIN frames' = 1 .. F + 1
        /\ \A k \in 1 .. F : frames'[k] = frames[k]
        /\ frames'[F + 1] = new
    BY <1>2, <2>4, <2>5, AppendHolds DEF F
  <2>7. frames' # << >>
    BY <1>10, <2>6, EmptySeq
  <2> QED BY <2>6, <2>7 DEF Frames
<1>12. /\ DOMAIN mem' = ({acts} \X (0 .. size - 1)) \union DOMAIN mem
       /\ \A i \in 0 .. size - 1 : mem'[<<acts, i>>] = stack'[base + i + 1]
       /\ \A c \in DOMAIN mem : c[1] # acts => mem'[c] = mem[c]
       /\ \A c \in DOMAIN mem : c \notin {acts} \X (0 .. size - 1) => mem'[c] = mem[c]
  <2> DEFINE cells == NewCells(acts, base, size, stack')
             D == {acts} \X (0 .. size - 1)
  <2>1. DOMAIN cells = D /\ \A i \in 0 .. size - 1 : <<acts, i>> \in D /\ cells[<<acts, i>>] = stack'[base + i + 1]
    BY DEF NewCells
  <2>2. \A c \in D : c[1] = acts
    OBVIOUS
  <2>3. mem' = WithNew(cells, mem)
    BY <1>2
  <2> HIDE DEF cells, D, new
  <2>4. /\ DOMAIN mem' = D \union DOMAIN mem
        /\ \A c \in D : mem'[c] = cells[c]
        /\ \A c \in DOMAIN mem : c \notin D => mem'[c] = mem[c]
    BY <2>1, <2>3 DEF WithNew
  <2>5. \A i \in 0 .. size - 1 : mem'[<<acts, i>>] = stack'[base + i + 1]
    BY <2>1, <2>4
  <2>6. \A c \in DOMAIN mem : c[1] # acts => mem'[c] = mem[c]
    BY <2>2, <2>4
  <2> QED BY <2>4, <2>5, <2>6 DEF D
<1>13. /\ frames'[F + 1].proto = p /\ frames'[F + 1].base = base
       /\ frames'[F + 1].function = f /\ frames'[F + 1].act = acts
       /\ \A k \in DOMAIN frames' : (k \in DOMAIN frames /\ frames'[k] = frames[k]) \/ k = F + 1
       /\ \A k \in DOMAIN frames : k \in DOMAIN frames' /\ k # F + 1 /\ k <= F
       /\ F + 1 \in DOMAIN frames' /\ F \in DOMAIN frames
  <2>1. /\ frames'[F + 1].proto = p /\ frames'[F + 1].base = base
        /\ frames'[F + 1].function = f /\ frames'[F + 1].act = acts
    BY <1>11
  <2>2. /\ \A k \in 1 .. F + 1 : k \in 1 .. F \/ k = F + 1
        /\ \A k \in 1 .. F : k \in 1 .. F + 1 /\ k # F + 1 /\ k <= F
        /\ F + 1 \in 1 .. F + 1 /\ F \in 1 .. F
    BY <1>10
  <2> HIDE DEF new
  <2> QED BY <1>10, <1>11, <2>1, <2>2
<1> HIDE DEF new
<1>14. ~Closing /\ ~Closing'
  BY <1>2 DEF Closing
<1>15. StackType' /\ FrameTypes'
  <2>1. acts' \in Nat
    BY <1>2, <1>10
  <2> QED BY <1>2, <1>8, <1>9, <1>11, <2>1 DEF StackType, FrameTypes
<1>16. UpvalueTypes' /\ FnTypes'
  BY <1>1, <1>2, <1>8 DEF TypeOK, UpvalueTypes, FnTypes
<1>17. LoopTypes'
  BY <1>1, <1>2 DEF TypeOK, LoopTypes
<1>18. MemTypes'
  <2>1. DOMAIN mem \subseteq Cells /\ \A c \in DOMAIN mem : mem[c] \in Values
    BY <1>1 DEF TypeOK, MemTypes
  <2>2. \A i \in 0 .. size - 1 : base + i + 1 \in 1 .. base + size /\ i \in Nat
    BY <1>3, <1>6
  <2>3. ASSUME NEW c \in DOMAIN mem'
        PROVE  c \in Cells /\ mem'[c] \in Values
    <3>1. CASE c \in DOMAIN mem /\ c \notin {acts} \X (0 .. size - 1)
      BY <1>12, <2>1, <3>1
    <3>2. CASE c \in {acts} \X (0 .. size - 1)
      <4>1. PICK i \in 0 .. size - 1 : c = <<acts, i>>
        BY <3>2
      <4>2. mem'[c] = stack'[base + i + 1] /\ base + i + 1 \in 1 .. base + size /\ i \in Nat
        BY <1>12, <2>2, <4>1
      <4>3. c \in Cells
        BY <1>10, <4>1, <4>2 DEF Cells
      <4> QED BY <1>9, <4>2, <4>3
    <3> QED BY <1>12, <3>1, <3>2
  <2> QED BY <1>8, <2>3 DEF MemTypes
<1>19. Stacked'
  <2>1. ASSUME NEW k \in DOMAIN frames
        PROVE  /\ frames'[k].base + FrameSize[frames'[k].proto] = End(k)
               /\ End(k) <= e
    <3>1. End(k) = frames[k].base + FrameSize[frames[k].proto] /\ frames'[k] = frames[k]
      BY <1>10, <1>11 DEF End
    <3>2. CASE k = F
      BY <1>3, <3>1, <3>2 DEF e
    <3>3. CASE k # F
      <4>1. k < F /\ k \in Nat
        BY <1>10, <3>3
      <4>2. End(k) < frames[F].base
        BY <1>1, <1>13, <4>1 DEF Stacked
      <4>3. /\ frames[F].base \in Nat /\ FrameSize[frames[F].proto] \in Nat
            /\ e = frames[F].base + FrameSize[frames[F].proto]
        BY <1>1, <1>13, FramesAre DEF e, End
      <4>4. End(k) \in Nat
        BY <1>1, FramesAre
      <4> QED BY <3>1, <4>2, <4>3, <4>4
    <3> QED BY <3>2, <3>3
  <2>2. ASSUME NEW i \in DOMAIN frames', NEW j \in DOMAIN frames', i < j
        PROVE  frames'[i].base + FrameSize[frames'[i].proto] < frames'[j].base
    <3>1. i \in DOMAIN frames
      <4>1. i \in 1 .. F + 1 /\ j \in 1 .. F + 1
        BY <1>11
      <4>2. i \in 1 .. F
        BY <1>10, <2>2, <4>1
      <4> QED BY <1>10, <4>2
    <3>2. CASE j \in DOMAIN frames
      <4>1. End(i) < frames[j].base
        BY <1>1, <2>2, <3>1, <3>2 DEF Stacked
      <4> QED BY <1>10, <1>11, <2>1, <3>1, <3>2, <4>1
    <3>3. CASE j = F + 1
      <4>1. End(i) <= e /\ End(i) \in Nat
        BY <1>1, <2>1, <3>1, FramesAre
      <4> QED BY <1>3, <1>13, <2>1, <3>1, <3>3, <4>1
    <3> QED BY <1>13, <3>2, <3>3
  <2>3. frames'[Len(frames')].base + FrameSize[frames'[Len(frames')].proto] <= Len(stack')
    <3>1. frames'[F + 1].base + FrameSize[frames'[F + 1].proto] = base + size
      BY <1>13 DEF size
    <3> QED BY <1>7, <1>9, <1>11, <3>1
  <2> QED BY <2>2, <2>3 DEF Stacked, End
<1>20. Running'
  <2>1. ASSUME NEW k \in DOMAIN frames'
        PROVE  \/ frames'[k].function = 0 /\ frames'[k].proto = Main
               \/ frames'[k].function \in DOMAIN fns /\ fns[frames'[k].function].proto = frames'[k].proto
    <3>1. CASE k = F + 1
      BY <1>4, <1>13, <3>1 DEF p
    <3>2. CASE k \in DOMAIN frames /\ frames'[k] = frames[k]
      BY <1>1, <3>2 DEF Running
    <3> QED BY <1>13, <3>1, <3>2
  <2>2. ASSUME NEW i \in DOMAIN frames', NEW j \in DOMAIN frames', frames'[i].act = frames'[j].act
        PROVE  i = j
    <3>1. CASE i \in DOMAIN frames /\ j \in DOMAIN frames
      BY <1>1, <1>13, <2>2, <3>1 DEF Running
    <3>2. CASE i = F + 1 /\ j \in DOMAIN frames
      BY <1>10, <1>13, <2>2, <3>2
    <3>3. CASE i \in DOMAIN frames /\ j = F + 1
      BY <1>10, <1>13, <2>2, <3>3
    <3> QED BY <1>13, <3>1, <3>2, <3>3
  <2>3. ASSUME NEW u \in DOMAIN upvalues
        PROVE  upvalues[u].cell[1] < acts'
    <3>1. upvalues[u].cell[1] < acts /\ upvalues[u].cell[1] \in Nat
      BY <1>1, UpvaluesAre DEF Running
    <3> QED BY <1>2, <1>10, <3>1
  <2> QED BY <1>2, <2>1, <2>2, <2>3 DEF Running
<1>21. InLoop'
  BY <1>1, <1>2, <1>14 DEF InLoop
<1>22. Listed' /\ OneUpvaluePerVariable'
  BY <1>2 DEF IInv, Listed, OneUpvaluePerVariable
<1>23. Owned'
  <2>1. ASSUME NEW u \in DOMAIN upvalues, ~upvalues[u].isClosed
        PROVE  \E k \in DOMAIN frames' : OwnedBy(u, k)'
    <3>1. PICK k \in DOMAIN frames : OwnedBy(u, k)
      BY <2>1 DEF IInv, Owned
    <3>2. k \in DOMAIN frames' /\ frames'[k] = frames[k]
      BY <1>13, <3>1
    <3>3. OwnedBy(u, k)'
      BY <1>2, <3>1, <3>2 DEF OwnedBy
    <3> QED BY <3>2, <3>3
  <2> QED BY <1>2, <2>1 DEF Owned
<1>24. ASSUME NEW u \in DOMAIN upvalues
       PROVE  upvalues[u].cell[1] # acts
  BY <1>1, <1>10, UpvaluesAre DEF Running
<1>25. Dead'
  <2>1. ASSUME NEW u \in DOMAIN upvalues, upvalues[u].isClosed, NEW k \in DOMAIN frames'
        PROVE  frames'[k].act # upvalues[u].cell[1]
    <3>1. CASE k = F + 1
      BY <1>13, <1>24, <3>1
    <3>2. CASE k \in DOMAIN frames /\ frames'[k] = frames[k]
      BY <1>14, <2>1, <3>2 DEF IInv, Dead
    <3> QED BY <1>13, <3>1, <3>2
  <2> QED BY <1>2, <2>1 DEF Dead
<1>26. HasCells'
  <2>1. ASSUME NEW k \in DOMAIN frames', NEW i \in 0 .. FrameSize[frames'[k].proto] - 1
        PROVE  <<frames'[k].act, i>> \in DOMAIN mem'
    <3>1. CASE k = F + 1
      <4>1. i \in 0 .. size - 1 /\ frames'[k].act = acts
        BY <1>13, <3>1 DEF size
      <4> QED BY <1>12, <4>1
    <3>2. CASE k \in DOMAIN frames /\ frames'[k] = frames[k]
      BY <1>1, <1>12, <3>2 DEF HasCells
    <3> QED BY <1>13, <3>1, <3>2
  <2>2. \A u \in DOMAIN upvalues : upvalues[u].cell \in DOMAIN mem'
    BY <1>1, <1>12 DEF HasCells
  <2> QED BY <1>2, <2>1, <2>2 DEF HasCells
<1>27. LocalsKept'
  <2>1. ASSUME NEW k \in DOMAIN frames', NEW i \in 0 .. FrameSize[frames'[k].proto] - 1
        PROVE  stack'[frames'[k].base + i + 1] = mem'[<<frames'[k].act, i>>]
    <3>1. CASE k = F + 1
      <4>1. i \in 0 .. size - 1 /\ frames'[k].act = acts /\ frames'[k].base = base
        BY <1>13, <3>1 DEF size
      <4> QED BY <1>12, <4>1
    <3>2. CASE k \in DOMAIN frames /\ frames'[k] = frames[k]
      <4>1. frames[k].base + i + 1 \in 1 .. l /\ stack[frames[k].base + i + 1] = mem[<<frames[k].act, i>>]
        BY <1>1, <3>2, LocalsAreApart DEF LocalsKept, l
      <4>2. <<frames[k].act, i>> \in DOMAIN mem /\ frames[k].act # acts
        BY <1>1, <1>10, <3>2 DEF HasCells
      <4>3. mem'[<<frames[k].act, i>>] = mem[<<frames[k].act, i>>]
        BY <1>12, <4>2
      <4> QED BY <1>9, <3>2, <4>1, <4>3
    <3> QED BY <1>13, <3>1, <3>2
  <2> QED BY <2>1 DEF LocalsKept
<1>28. ClosedKept'
  <2>1. ASSUME NEW u \in DOMAIN upvalues, upvalues[u].isClosed
        PROVE  upvalues[u].closed = mem'[upvalues[u].cell]
    <3>1. upvalues[u].cell \in DOMAIN mem /\ upvalues[u].closed = mem[upvalues[u].cell]
      BY SMTT(30), <1>1, <2>1 DEF IInv, ClosedKept, HasCells
    <3> QED BY <1>12, <1>24, <3>1
  <2> QED BY <1>2, <2>1 DEF ClosedKept
<1> QED BY <1>15, <1>16, <1>17, <1>18, <1>19, <1>20, <1>21, <1>22, <1>23, <1>25, <1>26, <1>27, <1>28 DEF IInv, TypeOK

\* Removing an element by moving the last one into its place.
LEMMA SwapRemoved ==
  ASSUME NEW S, NEW s \in Seq(S), NEW a \in 1 .. Len(s)
  PROVE  /\ Front([s EXCEPT ![a] = Last(s)]) \in Seq(S)
         /\ Len(Front([s EXCEPT ![a] = Last(s)])) = Len(s) - 1
         /\ \A j \in 1 .. Len(s) - 1 :
              Front([s EXCEPT ![a] = Last(s)])[j] = IF j = a THEN s[Len(s)] ELSE s[j]
<1> DEFINE t == [s EXCEPT ![a] = Last(s)]
<1>1. Len(s) \in Nat /\ s # << >>
  <2>1. Len(s) \in Nat
    BY LenProperties
  <2>2. Len(s) # 0
    BY <2>1
  <2> QED BY <2>1, <2>2, EmptySeq
<1>2. Last(s) \in S /\ Last(s) = s[Len(s)]
  BY <1>1, FrontIsPrefix
<1>3. /\ t \in Seq(S) /\ Len(t) = Len(s)
      /\ \A j \in 1 .. Len(s) : t[j] = IF j = a THEN s[Len(s)] ELSE s[j]
  BY <1>2, ExceptSeq
<1> HIDE DEF t
<1>4. t # << >>
  BY <1>1, <1>3, EmptySeq
<1>5. /\ Front(t) \in Seq(S) /\ Len(Front(t)) = Len(s) - 1
      /\ \A j \in 1 .. Len(s) - 1 : Front(t)[j] = t[j]
  BY <1>3, <1>4, FrontIsPrefix
<1>6. \A j \in 1 .. Len(s) - 1 : j \in 1 .. Len(s)
  BY <1>1
<1> QED BY <1>3, <1>5, <1>6 DEF t

\* closeUpvalues takes an upvalue out of the list it is iterating over.
LEMMA CloseUpvalueKeeps ==
  ASSUME IInv, CloseUpvalue
  PROVE  IInv'
<1> DEFINE N == Len(openUpvalues)
           u == openUpvalues[at]
           v == stack[upvalues[u].stackSlot + 1]
           new == [upvalues[u] EXCEPT !.isClosed = TRUE, !.closed = v]
           Ups == [stackSlot : Nat, isClosed : BOOLEAN, closed : Values, cell : Cells]
           n == Len(frames)
<1>1. /\ TypeOK /\ Stacked /\ Running /\ InLoop /\ Listed /\ Owned /\ HasCells /\ LocalsKept
      /\ Closing /\ at <= N /\ InFrame(u)
      /\ upvalues' = [upvalues EXCEPT ![u].isClosed = TRUE, ![u].closed = v]
      /\ openUpvalues' = Front([openUpvalues EXCEPT ![at] = Last(openUpvalues)])
      /\ UNCHANGED <<stack, frames, fns, pc, making, at, acts, mem>>
  BY DEF IInv, CloseUpvalue, loops, history
<1>2. at \in Nat \ {0} /\ N \in Nat /\ DOMAIN openUpvalues = 1 .. N
  BY <1>1, UpvaluesAre DEF TypeOK, LoopTypes
<1>3. at \in 1 .. N
  <2> HIDE DEF N
  <2> QED BY <1>1, <1>2
<1>4. u \in DOMAIN upvalues /\ ~upvalues[u].isClosed
  BY <1>1, <1>2, <1>3, UpvaluesAre DEF Listed, Holds
<1>5. upvalues \in Seq(Ups) /\ upvalues[u] \in Ups /\ DOMAIN upvalues = 1 .. Len(upvalues)
  BY <1>1, <1>4, UpvaluesAre DEF TypeOK, UpvalueTypes
<1> HIDE DEF u
<1>6. upvalues[u].stackSlot + 1 \in 1 .. Len(stack) /\ v \in Values
  BY <1>1, <1>4, OpenIsOnStack, FramesAre
<1>7. new \in Ups /\ upvalues' = [upvalues EXCEPT ![u] = new]
  BY <1>1, <1>5, <1>6
<1>8. upvalues' \in Seq(Ups) /\ DOMAIN upvalues' = DOMAIN upvalues
  <2> HIDE DEF Ups, new
  <2> QED BY <1>4, <1>5, <1>7, ExceptSeq, LenProperties
<1>9. \A w \in DOMAIN upvalues :
        /\ upvalues'[w].stackSlot = upvalues[w].stackSlot
        /\ upvalues'[w].cell = upvalues[w].cell
        /\ upvalues'[w].isClosed <=> w = u \/ upvalues[w].isClosed
        /\ w # u => upvalues'[w].closed = upvalues[w].closed
        /\ w = u => upvalues'[w].closed = v
  BY <1>5, <1>7
<1> HIDE DEF v, new, Ups, N
<1>10. /\ openUpvalues' \in Seq(DOMAIN upvalues) /\ Len(openUpvalues') = N - 1
       /\ DOMAIN openUpvalues' = 1 .. N - 1
       /\ \A j \in 1 .. N - 1 : openUpvalues'[j] = IF j = at THEN openUpvalues[N] ELSE openUpvalues[j]
  <2>1. openUpvalues \in Seq(DOMAIN upvalues) /\ at \in 1 .. Len(openUpvalues)
    BY <1>1, <1>3 DEF TypeOK, UpvalueTypes, N
  <2>2. /\ openUpvalues' \in Seq(DOMAIN upvalues) /\ Len(openUpvalues') = N - 1
        /\ \A j \in 1 .. N - 1 : openUpvalues'[j] = IF j = at THEN openUpvalues[N] ELSE openUpvalues[j]
    BY <1>1, <2>1, SwapRemoved DEF N
  <2> QED BY <2>2, LenProperties
<1>11. /\ openUpvalues[at] = u
       /\ \A i, j \in 1 .. N : openUpvalues[i] = openUpvalues[j] => i = j
       /\ \A j \in 1 .. N : ~upvalues[openUpvalues[j]].isClosed
       /\ \A j \in 1 .. N : openUpvalues[j] \in DOMAIN upvalues
  BY <1>1, <1>2, UpvaluesAre DEF Listed, Holds, u
<1>12. StackType' /\ FrameTypes'
  <2>1. Values' = Values
    BY <1>1 DEF Values
  <2> QED BY <1>1, <2>1 DEF TypeOK, StackType, FrameTypes
<1>13. UpvalueTypes'
  <2>1. Values' = Values /\ Cells' = Cells
    BY <1>1 DEF Values, Cells
  <2> QED BY <1>8, <1>10, <2>1 DEF UpvalueTypes, Ups
<1>14. FnTypes' /\ LoopTypes'
  BY <1>1, <1>8 DEF TypeOK, FnTypes, LoopTypes
<1>15. MemTypes'
  <2>1. Values' = Values /\ Cells' = Cells
    BY <1>1 DEF Values, Cells
  <2> QED BY <1>1, <2>1 DEF TypeOK, MemTypes
<1>16. Stacked' /\ LocalsKept'
  BY <1>1 DEF Stacked, LocalsKept, End
<1>17. Running'
  BY <1>1, <1>8, <1>9 DEF Running
<1>18. InLoop'
  <2>1. ASSUME NEW i \in 1 .. N - 1, i < at
        PROVE  upvalues'[openUpvalues'[i]].stackSlot < frames[Len(frames)].base
    <3>1. i \in 1 .. N /\ i # at
      BY <1>2, <2>1
    <3>2. openUpvalues'[i] = openUpvalues[i]
      BY <1>10, <3>1
    <3>3. upvalues[openUpvalues[i]].stackSlot < frames[Len(frames)].base
      BY <1>1, <1>2, <2>1, <3>1 DEF InLoop
    <3> QED BY <1>9, <1>11, <3>1, <3>2, <3>3
  <2> QED BY <1>1, <1>10, <2>1 DEF InLoop, Closing
<1>19. Listed'
  <2>1. ASSUME NEW j \in 1 .. N - 1
        PROVE  \E i \in 1 .. N : openUpvalues'[j] = openUpvalues[i] /\ i # at
                                 /\ (j # at => i = j) /\ (j = at => i = N)
    <3>1. CASE j = at
      BY <1>2, <1>10, <2>1, <3>1
    <3>2. CASE j # at
      BY <1>2, <1>10, <2>1, <3>2
    <3> QED BY <3>1, <3>2
  <2>2. ASSUME NEW w \in DOMAIN upvalues, Holds(openUpvalues', w)
        PROVE  w # u /\ ~upvalues[w].isClosed
    <3>1. PICK j \in 1 .. N - 1 : openUpvalues'[j] = w
      BY <1>10, <2>2 DEF Holds
    <3>2. PICK i \in 1 .. N : w = openUpvalues[i] /\ i # at
      BY <2>1, <3>1
    <3> QED BY <1>3, <1>11, <3>2
  <2>3. ASSUME NEW w \in DOMAIN upvalues, w # u, ~upvalues[w].isClosed
        PROVE  Holds(openUpvalues', w)
    <3>1. PICK i \in 1 .. N : openUpvalues[i] = w
      BY <1>1, <1>2, <2>3 DEF Listed, Holds
    <3>2. i # at
      BY <1>11, <2>3, <3>1
    <3>3. CASE i = N
      <4>1. at \in 1 .. N - 1 /\ openUpvalues'[at] = w
        BY <1>2, <1>3, <1>10, <3>1, <3>2, <3>3
      <4> QED BY <1>10, <4>1 DEF Holds
    <3>4. CASE i # N
      <4>1. i \in 1 .. N - 1 /\ openUpvalues'[i] = w
        BY <1>2, <1>10, <3>1, <3>2, <3>4
      <4> QED BY <1>10, <4>1 DEF Holds
    <3> QED BY <3>3, <3>4
  <2>4. ASSUME NEW j \in 1 .. N - 1, NEW k \in 1 .. N - 1, openUpvalues'[j] = openUpvalues'[k]
        PROVE  j = k
    <3>1. PICK i \in 1 .. N : openUpvalues'[j] = openUpvalues[i] /\ (j # at => i = j) /\ (j = at => i = N)
      BY <2>1
    <3>2. PICK h \in 1 .. N : openUpvalues'[k] = openUpvalues[h] /\ (k # at => h = k) /\ (k = at => h = N)
      BY <2>1
    <3>3. i = h
      BY <1>11, <2>4, <3>1, <3>2
    <3>4. j # N /\ k # N
      BY <1>2, <2>4
    <3> QED BY <3>1, <3>2, <3>3, <3>4
  <2>5. \A w \in DOMAIN upvalues' : ~upvalues'[w].isClosed <=> Holds(openUpvalues', w)
    BY <1>8, <1>9, <2>2, <2>3
  <2>6. \A i, j \in DOMAIN openUpvalues' : openUpvalues'[i] = openUpvalues'[j] => i = j
    BY <1>10, <2>4
  <2> QED BY <2>5, <2>6 DEF Listed
<1>20. Owned'
  <2>1. ASSUME NEW w \in DOMAIN upvalues, ~upvalues'[w].isClosed
        PROVE  \E k \in DOMAIN frames : OwnedBy(w, k)'
    <3>1. PICK k \in DOMAIN frames : OwnedBy(w, k)
      BY <1>1, <1>9, <2>1 DEF Owned
    <3>2. OwnedBy(w, k)'
      BY <1>1, <1>9, <3>1 DEF OwnedBy
    <3> QED BY <3>2
  <2> QED BY <1>1, <1>8, <2>1 DEF Owned
<1>21. \A k \in DOMAIN frames : frames[k].act = upvalues[u].cell[1] => k = n
  <2>1. PICK k \in DOMAIN frames : OwnedBy(u, k)
    BY <1>1, <1>4 DEF Owned
  <2>2. /\ frames[k].base \in Nat /\ FrameSize[frames[k].proto] \in Nat
        /\ frames[n].base \in Nat /\ upvalues[u].stackSlot \in Nat /\ upvalues[u].cell[2] \in Nat
        /\ frame = frames[n] /\ DOMAIN frames = 1 .. n /\ n \in DOMAIN frames /\ n \in Nat
    BY <1>1, <1>4, <2>1, FramesAre, UpvaluesAre
  <2>3. upvalues[u].stackSlot >= frames[n].base
    BY <1>1, <2>2 DEF InFrame
  <2>4. k = n
    <3>1. SUFFICES ASSUME k # n PROVE FALSE
      OBVIOUS
    <3>2. k < n
      BY <2>1, <2>2, <3>1
    <3>3. frames[k].base + FrameSize[frames[k].proto] < frames[n].base
      BY <1>1, <2>1, <2>2, <3>2 DEF Stacked, End
    <3>4. /\ upvalues[u].stackSlot = frames[k].base + upvalues[u].cell[2]
          /\ upvalues[u].cell[2] < FrameSize[frames[k].proto]
      BY <2>1 DEF OwnedBy
    <3> DEFINE bk == frames[k].base
               bn == frames[n].base
               fk == FrameSize[frames[k].proto]
               c == upvalues[u].cell[2]
               slot == upvalues[u].stackSlot
    <3>5. bk \in Nat /\ bn \in Nat /\ fk \in Nat /\ c \in Nat /\ slot >= bn /\ bk + fk < bn /\ slot = bk + c /\ c < fk
      BY <2>2, <2>3, <3>3, <3>4
    <3> HIDE DEF bk, bn, fk, c, slot
    <3> QED BY <3>5
  <2> QED BY <1>1, <2>1, <2>4 DEF OwnedBy, Running
<1>22. Dead'
  <2>1. ASSUME NEW w \in DOMAIN upvalues, upvalues'[w].isClosed, NEW k \in DOMAIN frames,
               frames[k].act = upvalues[w].cell[1]
        PROVE  k = n
    <3>1. CASE w = u
      BY <1>21, <2>1, <3>1
    <3>2. CASE w # u
      BY <1>9, <2>1, <3>2 DEF IInv, Dead
    <3> QED BY <3>1, <3>2
  <2>2. Closing'
    BY <1>1 DEF Closing
  <2> QED BY <1>1, <1>8, <1>9, <2>1, <2>2 DEF Dead
<1>23. OneUpvaluePerVariable'
  BY <1>8, <1>9 DEF IInv, OneUpvaluePerVariable
<1>24. HasCells'
  BY <1>1, <1>8, <1>9 DEF HasCells
<1>25. ClosedKept'
  <2>1. v = mem[upvalues[u].cell]
    <3>1. PICK k \in DOMAIN frames :
            /\ upvalues[u].cell[2] \in 0 .. FrameSize[frames[k].proto] - 1
            /\ upvalues[u].stackSlot + 1 = frames[k].base + upvalues[u].cell[2] + 1
            /\ upvalues[u].cell = <<frames[k].act, upvalues[u].cell[2]>>
      BY <1>1, <1>4, OpenIsOnStack
    <3>2. stack[frames[k].base + upvalues[u].cell[2] + 1] = mem[<<frames[k].act, upvalues[u].cell[2]>>]
      BY <1>1, <3>1 DEF LocalsKept
    <3> QED BY <3>1, <3>2 DEF v
  <2>2. ASSUME NEW w \in DOMAIN upvalues, upvalues'[w].isClosed
        PROVE  upvalues'[w].closed = mem[upvalues[w].cell]
    <3>1. CASE w = u
      BY <1>9, <2>1, <2>2, <3>1
    <3>2. CASE w # u
      BY <1>9, <2>2, <3>2 DEF IInv, ClosedKept
    <3> QED BY <3>1, <3>2
  <2> QED BY <1>1, <1>8, <1>9, <2>2 DEF ClosedKept
<1> QED BY <1>12, <1>13, <1>14, <1>15, <1>16, <1>17, <1>18, <1>19, <1>20, <1>22, <1>23, <1>24, <1>25 DEF IInv, TypeOK

\* The returning frame's locals are dropped with it: no open upvalue points at them.
LEMMA PopFrameKeeps ==
  ASSUME IInv, PopFrame
  PROVE  IInv'
<1> DEFINE F == Len(frames)
           base == frames[F].base
           r == IF pc = "return value" THEN Peek ELSE Garbage
           below == Resize(stack, base - 1)
           Frames == [proto : Protos, base : Nat, function : 0 .. Len(fns), act : 0 .. acts - 1]
<1>1. /\ TypeOK /\ Stacked /\ Running /\ InLoop /\ Listed /\ Owned /\ HasCells /\ LocalsKept
      /\ Closing /\ at > Len(openUpvalues) /\ frame = frames[F] /\ F > 1
      /\ stack' = Append(Resize(stack, frame.base - 1), r)
      /\ frames' = Front(frames) /\ pc' = "fetch" /\ at' = 1
      /\ UNCHANGED <<upvalues, openUpvalues, fns, making, acts, mem>>
  BY FramesAre DEF IInv, PopFrame, heap, history, InLoop
<1>2. /\ F \in Nat \ {0} /\ DOMAIN frames = 1 .. F /\ F \in DOMAIN frames
      /\ base \in Nat /\ Len(stack) \in Nat
      /\ frames \in Seq(Frames) /\ frames # << >>
  BY <1>1, FramesAre DEF TypeOK, FrameTypes
<1>3. /\ F - 1 \in 1 .. F /\ F - 1 < F /\ F - 1 \in DOMAIN frames /\ F - 1 # 0
  <2>1. F > 1 /\ F \in Nat /\ DOMAIN frames = 1 .. F
    BY <1>1, <1>2
  <2> HIDE DEF F
  <2> QED BY <2>1
<1>4. End(F - 1) \in Nat /\ End(F - 1) < base
  BY <1>1, <1>2, <1>3, FramesAre DEF Stacked
<1> HIDE DEF F, base, Frames
<1>5. base - 1 \in Nat /\ End(F - 1) <= base - 1
  BY <1>2, <1>4
<1>6. base <= Len(stack)
  <2>1. base + FrameSize[frames[F].proto] <= Len(stack) /\ FrameSize[frames[F].proto] \in Nat
    BY <1>1, <1>2, FramesAre DEF Stacked, End, F, base
  <2> QED BY <1>2, <2>1
<1>7. stack \in Seq(Values) /\ Garbage \in Values
  BY <1>1 DEF TypeOK, StackType, Values
<1>8. r \in Values
  <2>1. stack # << >>
    BY <1>2, <1>4, <1>6, EmptySeq
  <2> QED BY <1>7, <2>1, FrontIsPrefix DEF Peek
<1>9. /\ below \in Seq(Values) /\ Len(below) = base - 1
      /\ \A s \in 1 .. base - 1 : below[s] = stack[s]
  <2>1. /\ below \in Seq(Values) /\ Len(below) = base - 1
        /\ \A s \in 1 .. base - 1 : below[s] = IF s <= Len(stack) THEN stack[s] ELSE Garbage
    BY ZenonT(60), <1>5, <1>7, ResizeIs
  <2>2. \A s \in 1 .. base - 1 : s <= Len(stack)
    BY <1>2, <1>6
  <2> QED BY <2>1, <2>2
<1>10. stack' = Append(below, r)
  BY <1>1 DEF base, F
<1> HIDE DEF r, below
<1>11. /\ stack' \in Seq(Values) /\ Len(stack') = base
       /\ \A s \in 1 .. base - 1 : stack'[s] = stack[s]
  BY <1>2, <1>8, <1>9, <1>10, AppendHolds
<1>12. /\ frames' \in Seq(Frames) /\ Len(frames') = F - 1 /\ DOMAIN frames' = 1 .. F - 1
       /\ \A k \in 1 .. F - 1 : frames'[k] = frames[k] /\ k \in DOMAIN frames /\ k # F
       /\ frames' # << >>
  <2>1. /\ frames' \in Seq(Frames) /\ Len(frames') = F - 1 /\ DOMAIN frames' = 1 .. F - 1
        /\ \A k \in 1 .. F - 1 : frames'[k] = frames[k]
    BY <1>1, <1>2, FrontIsPrefix DEF F
  <2>2. \A k \in 1 .. F - 1 : k \in 1 .. F /\ k # F
    BY <1>2
  <2>3. frames' # << >>
    BY <1>3, <2>1, EmptySeq
  <2> QED BY SMTT(30), <1>2, <2>1, <2>2, <2>3
<1>13. Values' = Values /\ Cells' = Cells /\ ~Closing'
  BY <1>1 DEF Values, Cells, Closing
<1>14. StackType' /\ FrameTypes'
  <2>1. acts \in Nat
    BY <1>1, FramesAre
  <2> QED BY <1>1, <1>11, <1>12, <1>13, <2>1 DEF StackType, FrameTypes, Frames
<1>15. UpvalueTypes' /\ FnTypes'
  BY <1>1, <1>13 DEF TypeOK, UpvalueTypes, FnTypes
<1>16. LoopTypes'
  <2>1. making' \in [proto : Protos, upvalues : Seq(DOMAIN upvalues')]
    BY <1>1 DEF TypeOK, LoopTypes
  <2> QED BY <1>1, <2>1 DEF LoopTypes
<1>17. MemTypes'
  BY <1>1, <1>13 DEF TypeOK, MemTypes
<1>18. Stacked'
  <2>1. \A i, j \in DOMAIN frames' : i < j =>
          frames'[i].base + FrameSize[frames'[i].proto] < frames'[j].base
    BY <1>1, <1>12 DEF Stacked, End
  <2>2. frames'[F - 1].base + FrameSize[frames'[F - 1].proto] = End(F - 1)
    <3>1. F - 1 \in 1 .. F - 1
      BY <1>2, <1>3
    <3> QED BY <1>12, <3>1 DEF End
  <2>3. frames'[Len(frames')].base + FrameSize[frames'[Len(frames')].proto] <= Len(stack')
    BY <1>2, <1>4, <1>11, <1>12, <2>2
  <2> QED BY <2>1, <2>3 DEF Stacked, End
<1>19. Running'
  <2>1. \A k \in DOMAIN frames' :
          \/ frames'[k].function = 0 /\ frames'[k].proto = Main
          \/ frames'[k].function \in DOMAIN fns /\ fns[frames'[k].function].proto = frames'[k].proto
    BY <1>1, <1>12 DEF Running
  <2>2. \A i, j \in DOMAIN frames' : frames'[i].act = frames'[j].act => i = j
    BY <1>1, <1>12 DEF Running
  <2> QED BY <1>1, <2>1, <2>2 DEF Running
<1>20. InLoop'
  BY <1>1, <1>13 DEF InLoop
<1>21. Listed' /\ OneUpvaluePerVariable'
  BY <1>1 DEF IInv, Listed, OneUpvaluePerVariable
<1>22. ASSUME NEW u \in DOMAIN upvalues, ~upvalues[u].isClosed
       PROVE  \E k \in 1 .. F - 1 : OwnedBy(u, k)
  <2>1. PICK j \in DOMAIN openUpvalues : openUpvalues[j] = u
    BY <1>1, <1>22 DEF Listed, Holds
  <2>2. j < at
    <3>1. /\ j \in 1 .. Len(openUpvalues) /\ Len(openUpvalues) \in Nat /\ at \in Nat
      BY <1>1, <2>1, UpvaluesAre DEF TypeOK, LoopTypes
    <3> QED BY <1>1, <3>1
  <2>3. upvalues[u].stackSlot < base
    BY <1>1, <2>1, <2>2 DEF InLoop, base, F
  <2>4. PICK k \in DOMAIN frames : OwnedBy(u, k)
    BY <1>1, <1>22 DEF Owned
  <2>5. k # F
    <3>1. SUFFICES ASSUME k = F PROVE FALSE
      OBVIOUS
    <3>2. upvalues[u].stackSlot = base + upvalues[u].cell[2] /\ upvalues[u].cell[2] \in Nat
      BY <1>1, <1>22, <2>4, <3>1, UpvaluesAre DEF OwnedBy, base
    <3> QED BY <1>2, <2>3, <3>2
  <2>6. k \in 1 .. F - 1
    BY <1>2, <2>4, <2>5
  <2> QED BY <2>4, <2>6
<1>23. Owned'
  <2>1. ASSUME NEW u \in DOMAIN upvalues, ~upvalues[u].isClosed
        PROVE  \E k \in DOMAIN frames' : OwnedBy(u, k)'
    <3>1. PICK k \in 1 .. F - 1 : OwnedBy(u, k)
      BY <1>22, <2>1
    <3>2. k \in DOMAIN frames' /\ frames'[k] = frames[k]
      BY <1>12, <3>1
    <3>3. OwnedBy(u, k)'
      BY <1>1, <3>1, <3>2 DEF OwnedBy
    <3> QED BY <3>2, <3>3
  <2> QED BY <1>1, <2>1 DEF Owned
<1>24. Dead'
  <2>1. ASSUME NEW u \in DOMAIN upvalues, upvalues[u].isClosed, NEW k \in DOMAIN frames'
        PROVE  frames'[k].act # upvalues[u].cell[1]
    <3>1. k \in DOMAIN frames /\ frames'[k] = frames[k] /\ k # F
      BY <1>12, <2>1
    <3> QED BY <2>1, <3>1 DEF IInv, Dead, F
  <2> QED BY <1>1, <2>1 DEF Dead
<1>25. HasCells'
  <2>1. \A k \in DOMAIN frames' : \A i \in 0 .. FrameSize[frames'[k].proto] - 1 : <<frames'[k].act, i>> \in DOMAIN mem
    BY <1>1, <1>12 DEF HasCells
  <2> QED BY <1>1, <2>1 DEF HasCells
<1>26. LocalsKept'
  <2>1. ASSUME NEW k \in 1 .. F - 1, NEW i \in 0 .. FrameSize[frames[k].proto] - 1
        PROVE  stack'[frames[k].base + i + 1] = mem[<<frames[k].act, i>>]
    <3>1. k \in DOMAIN frames
      BY <1>12
    <3>2. stack[frames[k].base + i + 1] = mem[<<frames[k].act, i>>]
      BY <1>1, <3>1 DEF LocalsKept
    <3>3. frames[k].base + i + 1 \in 1 .. base - 1
      <4>1. /\ frames[k].base \in Nat /\ FrameSize[frames[k].proto] \in Nat
            /\ End(k) = frames[k].base + FrameSize[frames[k].proto]
        BY <1>1, <3>1, FramesAre DEF End
      <4>2. End(k) < base
        <5>1. k < F
          BY <1>2
        <5> QED BY <1>1, <1>2, <3>1, <5>1 DEF Stacked, base
      <4> DEFINE b == frames[k].base
                 size == FrameSize[frames[k].proto]
      <4>3. b \in Nat /\ size \in Nat /\ b + size < base /\ i \in 0 .. size - 1
        BY <4>1, <4>2
      <4> HIDE DEF b, size
      <4>4. b + i + 1 \in 1 .. base - 1
        BY <1>2, <4>3
      <4> QED BY <4>4 DEF b
    <3> QED BY <1>11, <3>2, <3>3
  <2>2. \A k \in DOMAIN frames' : \A i \in 0 .. FrameSize[frames'[k].proto] - 1 :
          stack'[frames'[k].base + i + 1] = mem[<<frames'[k].act, i>>]
    <3> TAKE k \in DOMAIN frames'
    <3>1. k \in 1 .. F - 1 /\ frames'[k] = frames[k]
      BY <1>12
    <3> QED BY <2>1, <3>1
  <2> QED BY <1>1, <2>2 DEF LocalsKept
<1>27. ClosedKept'
  BY <1>1 DEF IInv, ClosedKept
<1> QED BY <1>14, <1>15, <1>16, <1>17, <1>18, <1>19, <1>20, <1>21, <1>23, <1>24, <1>25, <1>26, <1>27 DEF IInv, TypeOK

-----------------------------------------------------------------------------
(* The specification.                                                      *)

LEMMA InitEstablishes ==
  ASSUME Init
  PROVE  IInv
<1> DEFINE size == FrameSize[Main]
           first == [proto |-> Main, base |-> 0, function |-> 0, act |-> 0]
<1>1. /\ stack = Garbages(size) /\ frames = <<first>>
      /\ upvalues = << >> /\ openUpvalues = << >> /\ fns = << >>
      /\ pc = "fetch" /\ making = Nothing /\ at = 1 /\ acts = 1
      /\ mem = NewCells(0, 0, size, stack)
  BY DEF Init
<1>2. size \in Nat /\ Main \in Protos
  BY ProtosAssumption
<1>3. DOMAIN upvalues = {} /\ DOMAIN openUpvalues = {} /\ DOMAIN fns = {} /\ Len(fns) = 0
  BY <1>1, EmptyHolds, EmptySeq
<1> HIDE DEF size
<1>4. /\ stack \in Seq(Values) /\ Len(stack) = size
      /\ \A s \in 1 .. size : stack[s] \in Values
  <2>1. stack \in [1 .. size -> Values]
    BY <1>1, <1>2 DEF Garbages, Values
  <2> QED BY <1>2, <2>1, SeqDef, LenProperties
<1>5. DOMAIN frames = {1} /\ frames[1] = first /\ Len(frames) = 1 /\ frames # << >>
  BY <1>1
<1>6. StackType
  BY <1>4 DEF StackType
<1>7. FrameTypes
  <2> DEFINE Frames == [proto : Protos, base : Nat, function : 0 .. Len(fns), act : 0 .. acts - 1]
  <2>1. 0 \in 0 .. Len(fns) /\ 0 \in 0 .. acts - 1
    BY <1>1, <1>3
  <2>2. first \in Frames
    BY <1>2, <2>1
  <2> HIDE DEF first, Frames
  <2>3. frames \in Seq(Frames)
    BY <1>1, <2>2
  <2> QED BY <1>1, <1>5, <2>3 DEF FrameTypes, Frames
<1>8. UpvalueTypes /\ FnTypes
  BY <1>1, <1>3, EmptySeq DEF UpvalueTypes, FnTypes
<1>9. LoopTypes
  BY <1>1, <1>2, EmptySeq DEF LoopTypes, Nothing
<1>10. /\ DOMAIN mem = {0} \X (0 .. size - 1)
       /\ \A i \in 0 .. size - 1 : <<0, i>> \in DOMAIN mem /\ mem[<<0, i>>] = stack[0 + i + 1]
  BY <1>1, <1>2 DEF NewCells
<1>11. \A i \in 0 .. size - 1 : i \in Nat /\ 0 + i + 1 \in 1 .. size
  BY <1>2
<1>12. MemTypes
  <2>1. ASSUME NEW c \in DOMAIN mem
        PROVE  c \in Cells /\ mem[c] \in Values
    <3>1. PICK i \in 0 .. size - 1 : c = <<0, i>>
      BY <1>10, <2>1
    <3> QED BY <1>4, <1>10, <1>11, <3>1 DEF Cells
  <2> QED BY <2>1 DEF MemTypes
<1>13. Stacked
  <2>1. End(1) = size
    BY <1>2, <1>5 DEF End, size
  <2>2. \A i, j \in DOMAIN frames : ~(i < j)
    BY <1>5
  <2> QED BY <1>2, <1>4, <1>5, <2>1, <2>2 DEF Stacked
<1>14. Running
  BY <1>3, <1>5 DEF Running
<1>15. InLoop
  BY <1>1 DEF InLoop, Closing
<1>16. Listed /\ Owned /\ Dead /\ OneUpvaluePerVariable /\ ClosedKept
  BY <1>3 DEF Listed, Owned, Dead, OneUpvaluePerVariable, ClosedKept
<1>17. HasCells /\ LocalsKept
  <2>1. frames[1].act = 0 /\ frames[1].base = 0 /\ FrameSize[frames[1].proto] = size
    BY <1>5 DEF size
  <2> HIDE DEF first
  <2> QED BY <1>3, <1>5, <1>10, <2>1 DEF HasCells, LocalsKept
<1> QED BY <1>6, <1>7, <1>8, <1>9, <1>12, <1>13, <1>14, <1>15, <1>16, <1>17 DEF IInv, TypeOK

\* The invariant holds in every run of the machine.
THEOREM InvariantHolds == Spec => []IInv
<1>1. Init => IInv
  BY InitEstablishes
<1>2. ASSUME IInv, [Next]_vars
      PROVE  IInv'
  <2>1. CASE \E v \in Literals : PushConst(v)
    BY <1>2, <2>1, PushConstKeeps
  <2>2. CASE PopTop
    BY <1>2, <2>2, PopTopKeeps
  <2>3. CASE \E i \in 0 .. FrameSize[frame.proto] - 1 : LoadLocal(i) \/ StoreLocal(i)
    BY <1>2, <2>3, LoadLocalKeeps, StoreLocalKeeps
  <2>4. CASE \E k \in DOMAIN Captures[frame.proto] : LoadUpvalue(k) \/ StoreUpvalue(k)
    BY <1>2, <2>4, LoadUpvalueKeeps, StoreUpvalueKeeps
  <2>5. CASE \E p \in Protos \ {Main} : MakeClosure(p)
    BY <1>2, <2>5, MakeClosureKeeps
  <2>6. CASE \E j \in DOMAIN openUpvalues : CaptureOpen(j)
    BY <1>2, <2>6, CaptureOpenKeeps
  <2>7. CASE CaptureLocal
    BY <1>2, <2>7, CaptureLocalKeeps
  <2>8. CASE CaptureUpvalue
    BY <1>2, <2>8, CaptureUpvalueKeeps
  <2>9. CASE PushClosure
    BY <1>2, <2>9, PushClosureKeeps
  <2>10. CASE \E n \in 0 .. MaxTemps - 1 : Call(n) \/ \E c \in Consts : CallNative(n, c)
    BY <1>2, <2>10, CallKeeps, CallNativeKeeps
  <2>11. CASE \E instr \in {"return void", "return value"} : StartReturn(instr)
    BY <1>2, <2>11, StartReturnKeeps
  <2>12. CASE CloseUpvalue
    BY <1>2, <2>12, CloseUpvalueKeeps
  <2>13. CASE SkipUpvalue
    BY <1>2, <2>13, SkipUpvalueKeeps
  <2>14. CASE PopFrame
    BY <1>2, <2>14, PopFrameKeeps
  <2>15. CASE UNCHANGED vars
    BY <1>2, <2>15, StutterKeeps
  <2> QED
    BY <1>2, <2>1, <2>2, <2>3, <2>4, <2>5, <2>6, <2>7, <2>8, <2>9, <2>10, <2>11, <2>12,
       <2>13, <2>14, <2>15 DEF Next
<1> QED BY <1>1, <1>2, PTL DEF Spec

\* The stack, the frames and every reference among the machine's objects stay well formed.
THEOREM TypesHold == Spec => []TypeOK
<1>1. IInv => TypeOK
  BY DEF IInv
<1> QED BY <1>1, InvariantHolds, PTL

\* Every load yields what was last stored to the variable, for every program: while the
\* activation that declared it lives, during its return and when closures outlive it.
THEOREM ValuesAreKept == Spec => []VariablesKeepTheirValues
<1>1. ASSUME IInv
      PROVE  VariablesKeepTheirValues
  <2>1. TypeOK /\ Stacked /\ Owned /\ LocalsKept /\ ClosedKept
    BY <1>1 DEF IInv
  <2>2. ASSUME NEW u \in DOMAIN upvalues
        PROVE  mem[upvalues[u].cell] = IF upvalues[u].isClosed THEN upvalues[u].closed
                                                               ELSE stack[upvalues[u].stackSlot + 1]
    <3>1. CASE upvalues[u].isClosed
      BY <2>1, <3>1 DEF ClosedKept
    <3>2. CASE ~upvalues[u].isClosed
      <4>1. PICK k \in DOMAIN frames :
              /\ upvalues[u].cell[2] \in 0 .. FrameSize[frames[k].proto] - 1
              /\ upvalues[u].stackSlot + 1 = frames[k].base + upvalues[u].cell[2] + 1
              /\ upvalues[u].cell = <<frames[k].act, upvalues[u].cell[2]>>
        BY <2>1, <3>2, OpenIsOnStack
      <4>2. stack[frames[k].base + upvalues[u].cell[2] + 1] = mem[<<frames[k].act, upvalues[u].cell[2]>>]
        BY <2>1, <4>1 DEF LocalsKept
      <4> QED BY <3>2, <4>1, <4>2
    <3> QED BY <3>1, <3>2
  <2> QED BY <2>1, <2>2 DEF VariablesKeepTheirValues, LocalsKept
<1> QED BY <1>1, InvariantHolds, PTL

\* No open upvalue points past the locals of a live frame.
THEOREM OpenUpvaluesAreLocals == Spec => []OpenUpvaluesPointAtLocals
<1>1. ASSUME IInv
      PROVE  OpenUpvaluesPointAtLocals
  <2>1. TypeOK /\ Stacked /\ Owned /\ Listed
    BY <1>1 DEF IInv
  <2>2. ASSUME NEW j \in DOMAIN openUpvalues
        PROVE  \E k \in DOMAIN frames : upvalues[openUpvalues[j]].stackSlot \in Locals(frames[k])
    <3> DEFINE u == openUpvalues[j]
    <3>1. u \in DOMAIN upvalues /\ ~upvalues[u].isClosed
      BY <2>1, UpvaluesAre DEF Listed, Holds
    <3>2. PICK k \in DOMAIN frames : OwnedBy(u, k)
      BY <2>1, <3>1 DEF Owned
    <3> DEFINE b == frames[k].base
               size == FrameSize[frames[k].proto]
               c == upvalues[u].cell[2]
    <3>3. b \in Nat /\ size \in Nat /\ c \in Nat /\ c < size /\ upvalues[u].stackSlot = b + c
      BY <2>1, <3>1, <3>2, FramesAre, UpvaluesAre DEF OwnedBy
    <3>4. Locals(frames[k]) = b .. b + size - 1
      BY DEF Locals
    <3> HIDE DEF b, size, c
    <3>5. b + c \in b .. b + size - 1
      BY <3>3
    <3> QED BY <3>2, <3>3, <3>4, <3>5
  <2> QED BY <2>2 DEF OpenUpvaluesPointAtLocals
<1> QED BY <1>1, InvariantHolds, PTL

\* Two closures over one variable share one upvalue as long as it is open.
THEOREM UpvaluesAreShared == Spec => []OneUpvaluePerSlot
<1>1. ASSUME IInv
      PROVE  OneUpvaluePerSlot
  <2>1. TypeOK /\ Stacked /\ Owned /\ Listed /\ OneUpvaluePerVariable
    BY <1>1 DEF IInv
  <2>2. ASSUME NEW i \in DOMAIN openUpvalues, NEW j \in DOMAIN openUpvalues,
               upvalues[openUpvalues[i]].stackSlot = upvalues[openUpvalues[j]].stackSlot
        PROVE  i = j
    <3> DEFINE u == openUpvalues[i]
               v == openUpvalues[j]
    <3>1. u \in DOMAIN upvalues /\ ~upvalues[u].isClosed /\ v \in DOMAIN upvalues /\ ~upvalues[v].isClosed
      BY <2>1, UpvaluesAre DEF Listed, Holds
    <3> HIDE DEF u, v
    <3>2. PICK k \in DOMAIN frames :
            /\ OwnedBy(u, k)
            /\ upvalues[u].cell[2] \in 0 .. FrameSize[frames[k].proto] - 1
            /\ upvalues[u].cell = <<frames[k].act, upvalues[u].cell[2]>>
      BY <2>1, <3>1, OpenIsOnStack
    <3>3. PICK h \in DOMAIN frames :
            /\ OwnedBy(v, h)
            /\ upvalues[v].cell[2] \in 0 .. FrameSize[frames[h].proto] - 1
            /\ upvalues[v].cell = <<frames[h].act, upvalues[v].cell[2]>>
      BY <2>1, <3>1, OpenIsOnStack
    <3>4. frames[k].base + upvalues[u].cell[2] = frames[h].base + upvalues[v].cell[2]
      BY <2>2, <3>2, <3>3 DEF OwnedBy, u, v
    <3>5. k = h /\ upvalues[u].cell[2] = upvalues[v].cell[2]
      BY <2>1, <3>2, <3>3, <3>4, LocalsAreApart
    <3>6. upvalues[u].cell = upvalues[v].cell
      BY <3>2, <3>3, <3>5
    <3>7. u = v
      BY <2>1, <3>1, <3>6 DEF OneUpvaluePerVariable
    <3> QED BY <2>1, <3>7 DEF Listed, u, v
  <2> QED BY <2>2 DEF OneUpvaluePerSlot
<1> QED BY <1>1, InvariantHolds, PTL

\* closeUpvalues closes what the returning frame declared, all of it and nothing else.
THEOREM ClosedWhenDead == Spec => []ClosedExactlyWhenDead
<1>1. ASSUME IInv
      PROVE  ClosedExactlyWhenDead
  <2>1. Owned /\ Dead
    BY <1>1 DEF IInv
  <2>2. ASSUME pc \in {"fetch", "make"}, NEW u \in DOMAIN upvalues
        PROVE  upvalues[u].isClosed <=> \A k \in DOMAIN frames : frames[k].act # upvalues[u].cell[1]
    <3>1. ~Closing
      BY <2>2 DEF Closing
    <3>2. CASE upvalues[u].isClosed
      BY <2>1, <3>1, <3>2 DEF Dead
    <3>3. CASE ~upvalues[u].isClosed
      BY <2>1, <3>3 DEF Owned, OwnedBy
    <3> QED BY <3>2, <3>3
  <2> QED BY <2>2 DEF ClosedExactlyWhenDead
<1> QED BY <1>1, InvariantHolds, PTL
=============================================================================
