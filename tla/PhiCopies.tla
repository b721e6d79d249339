----------------------------- MODULE PhiCopies -----------------------------
(***************************************************************************)
(* Phi elimination: step 3 of MIRBuilder::lowerHIRFunc.  The phis of a     *)
(* function have been collected into one list of copies D <- S per         *)
(* predecessor block; each list stands for a parallel assignment and is    *)
(* turned into a sequence of MOVEs.  A copy is emitted once no other       *)
(* pending copy reads its destination; when only cycles are left, one      *)
(* source is saved in a fresh temporary and the search starts again.       *)
(*                                                                         *)
(* reg[b] is a history variable: what executing the MOVEs emitted so far   *)
(* for b leaves in every value, written as the SSA value whose content     *)
(* it is.  Only the properties read it.                                    *)
(***************************************************************************)
EXTENDS Integers, FiniteSets, Sequences, SequencesExt

CONSTANTS Blocks,      \* blocks with at least one phi in a successor
          HirValues,   \* hirFunc->lastValueId: SSA values are 0..HirValues-1
          MaxCopies,   \* bound on the copies of one block
          NoBlock      \* no list is being drained

ASSUME PhiCopiesAssumption ==
  /\ HirValues \in Nat
  /\ MaxCopies \in Nat
  /\ NoBlock \notin Blocks

VARIABLES
  original,      \* parallelCopies: block -> list of copies
  left,          \* blocks the outer loop has not reached
  cur,           \* blockWithCopies, or NoBlock between two lists
  copies,        \* the list being drained
  lastValueId,   \* next free value id, shared by the blocks of the function
  code,          \* MOVEs appended to each block
  mirLastValueId, \* mirFunc->lastValueId (the frame size); -1 until it is set
  reg            \* history: contents of the values at the end of each block

vars == <<original, left, cur, copies, lastValueId, code, mirLastValueId, reg>>

Ids == 0 .. HirValues - 1
INVALID_SLOT == -1

\* A phi is the only definition of its destination, so the destinations of
\* the copies collected for one predecessor differ.
Distinct(c) == \A i, j \in DOMAIN c : c[i].d = c[j].d => i = j

CopyLists ==
  {c \in UNION {[1..n -> [d : Ids, s : Ids]] : n \in 0..MaxCopies} : Distinct(c)}


Init ==
  /\ original \in [Blocks -> CopyLists]
  /\ left = Blocks
  /\ cur = NoBlock
  /\ copies = << >>
  /\ lastValueId = HirValues
  /\ code = [b \in Blocks |-> << >>]
  /\ mirLastValueId = INVALID_SLOT
  /\ reg = [b \in Blocks |-> [v \in Ids |-> v]]

-----------------------------------------------------------------------------
\* Mutants: plausible slips in the definitions that follow.
SafeAlways(i) == TRUE
SafeLooksForward(i) ==
  \A j \in DOMAIN copies : j > i => copies[j].s # copies[i].d
SafeCountsItself(i) ==
  \A j \in DOMAIN copies : copies[j].s # copies[i].d
SafeSourceUnwritten(i) ==
  \A j \in DOMAIN copies :
    j # i => copies[j].s # copies[i].d /\ copies[j].d # copies[i].s

\* The old value of copy i's destination is not needed by another copy.
Safe(i) ==
  \A j \in DOMAIN copies : j # i => copies[j].s # copies[i].d

\* code.push_back(MOVE dst <- src), and its effect when the block runs.
Move(dst, src) ==
  /\ code' = [code EXCEPT ![cur] = Append(@, [dst |-> dst, src |-> src])]
  /\ reg' = [reg EXCEPT ![cur] =
               [v \in DOMAIN @ \cup {dst} |-> IF v = dst THEN @[src] ELSE @[v]]]

TakeBlockResetsIds(b) ==
  /\ cur = NoBlock
  /\ b \in left
  /\ cur' = b
  /\ left' = left \ {b}
  /\ copies' = original[b]
  /\ lastValueId' = HirValues
  /\ UNCHANGED <<original, code, mirLastValueId, reg>>

\* The outer loop takes an unordered_map entry: any block, its list copied.
TakeBlock(b) ==
  /\ cur = NoBlock
  /\ b \in left
  /\ cur' = b
  /\ left' = left \ {b}
  /\ copies' = original[b]
  /\ UNCHANGED <<original, lastValueId, code, mirLastValueId, reg>>

\* The first safe copy is emitted and erased; the scan restarts.
EmitSafe ==
  /\ cur # NoBlock
  /\ \E i \in DOMAIN copies :
       /\ Safe(i)
       /\ \A j \in 1 .. i-1 : ~ Safe(j)
       /\ Move(copies[i].d, copies[i].s)
       /\ copies' = RemoveAt(copies, i)
  /\ UNCHANGED <<original, left, cur, lastValueId, mirLastValueId>>

BreakCycleSavesDest ==
  /\ cur # NoBlock
  /\ copies # << >>
  /\ \A i \in DOMAIN copies : ~ Safe(i)
  /\ Move(lastValueId, copies[1].d)
  /\ copies' = [copies EXCEPT ![1].s = lastValueId]
  /\ lastValueId' = lastValueId + 1
  /\ UNCHANGED <<original, left, cur, mirLastValueId>>
BreakCycleForgetsId ==
  /\ cur # NoBlock
  /\ copies # << >>
  /\ \A i \in DOMAIN copies : ~ Safe(i)
  /\ Move(lastValueId, copies[1].s)
  /\ copies' = [copies EXCEPT ![1].s = lastValueId]
  /\ UNCHANGED <<original, left, cur, lastValueId, mirLastValueId>>

\* Only cycles are left: the first copy's source is saved in a temporary.
\* The replacement loop compares each pending source with S, a reference to
\* the first copy's own source, so S already is the temporary when the loop
\* reaches the second copy: only the first copy changes.
BreakCycle ==
  /\ cur # NoBlock
  /\ copies # << >>
  /\ \A i \in DOMAIN copies : ~ Safe(i)
  /\ Move(lastValueId, copies[1].s)
  /\ copies' = [copies EXCEPT ![1].s = lastValueId]
  /\ lastValueId' = lastValueId + 1
  /\ UNCHANGED <<original, left, cur, mirLastValueId>>

FinishAtLastCopy ==
  /\ cur # NoBlock
  /\ Len(copies) = 1
  /\ cur' = NoBlock
  /\ copies' = << >>
  /\ UNCHANGED <<original, left, lastValueId, code, mirLastValueId, reg>>

\* The list is drained.
FinishBlock ==
  /\ cur # NoBlock
  /\ copies = << >>
  /\ cur' = NoBlock
  /\ UNCHANGED <<original, left, copies, lastValueId, code, mirLastValueId, reg>>

SetFrameToHirCount ==
  /\ cur = NoBlock
  /\ left = {}
  /\ mirLastValueId = INVALID_SLOT
  /\ mirLastValueId' = HirValues
  /\ UNCHANGED <<original, left, cur, copies, lastValueId, code, reg>>

\* Every block is done: the value count, temporaries included, becomes the
\* size of the function's stack frame.
SetFrame ==
  /\ cur = NoBlock
  /\ left = {}
  /\ mirLastValueId = INVALID_SLOT
  /\ mirLastValueId' = lastValueId
  /\ UNCHANGED <<original, left, cur, copies, lastValueId, code, reg>>

Next ==
  \/ \E b \in Blocks : TakeBlock(b)
  \/ EmitSafe
  \/ BreakCycle
  \/ FinishBlock
  \/ SetFrame

Spec == Init /\ [][Next]_vars

\* lowerHIRFunc runs to its end on one thread: while a step is possible the
\* loop takes it.
FairSpec == Spec /\ WF_vars(Next)

-----------------------------------------------------------------------------
PA == INSTANCE ParallelAssign WITH
        assign <- original,
        val <- [b \in Blocks |->
                  IF b \in left \/ b = cur THEN [v \in Ids |-> v]
                                           ELSE [v \in Ids |-> reg[b][v]]],
        left <- left \cup ({cur} \ {NoBlock})

TypeOK ==
  /\ original \in [Blocks -> CopyLists]
  /\ left \subseteq Blocks
  /\ cur \in Blocks \cup {NoBlock}
  /\ cur \notin left
  /\ lastValueId \in Nat
  /\ HirValues <= lastValueId
  /\ copies \in Seq([d : Ids, s : 0 .. lastValueId - 1])
  /\ code \in [Blocks -> Seq([dst : 0 .. lastValueId - 1, src : 0 .. lastValueId - 1])]
  /\ mirLastValueId \in {INVALID_SLOT} \cup Nat
  /\ DOMAIN reg = Blocks
  /\ \A b \in Blocks :
       /\ reg[b] \in [DOMAIN reg[b] -> Ids]
       /\ Ids \subseteq DOMAIN reg[b]
       /\ DOMAIN reg[b] \subseteq 0 .. lastValueId - 1

\* Every copy still pending can read the value it has to deliver: no MOVE
\* emitted so far, and no temporary, destroyed the last holder of it
\* (MIRBuilder's "D's old value is still needed").
NoLostValue ==
  cur # NoBlock =>
    \A i \in DOMAIN copies :
      /\ copies[i].s \in DOMAIN reg[cur]
      /\ reg[cur][copies[i].s] = PA!Target(original[cur], copies[i].d)

\* Executing the MOVEs of a finished block has the effect of performing all
\* its phi copies at once.
PhiSemantics ==
  \A b \in Blocks : (b \notin left /\ b # cur) =>
    \A v \in Ids : reg[b][v] = PA!Target(original[b], v)

\* A temporary is written once in the whole function and only read, in the
\* same block, after that write: two blocks never share one.
TempsPrivate ==
  \A b \in Blocks : \A i \in DOMAIN code[b] :
    /\ code[b][i].dst \notin Ids =>
         \A c \in Blocks : \A j \in DOMAIN code[c] :
           code[c][j].dst = code[b][i].dst => <<c, j>> = <<b, i>>
    /\ code[b][i].src \notin Ids =>
         \E j \in 1 .. i-1 : code[b][j].dst = code[b][i].src

\* Once the frame size is set every value the code names has a slot in it
\* (x86Builder addresses value v at [rbp-(v+1)*8] in a frame of
\* lastValueId*8 bytes).
FrameHoldsEveryValue ==
  mirLastValueId # INVALID_SLOT =>
    \A b \in Blocks : \A i \in DOMAIN code[b] :
      code[b][i].dst < mirLastValueId /\ code[b][i].src < mirLastValueId

\* The cycles of length two or more of the copies c, as sets of values.
CyclesOf(c) ==
  LET from[k \in Nat] ==    \* the value k copies upstream of each value
        [v \in Ids |-> IF k = 0 THEN v ELSE PA!Target(c, from[k-1][v])]
      onCycle == {v \in Ids : /\ from[1][v] # v
                             /\ \E k \in 1 .. Len(c) : from[k][v] = v}
  IN  {{from[k][v] : k \in 1 .. Len(c)} : v \in onCycle}

\* A finished block spent exactly one temporary per cycle of its copies, and
\* none on chains, on self copies or on values read several times.
OneTempPerCycle ==
  \A b \in Blocks : (b \notin left /\ b # cur) =>
    Cardinality({i \in DOMAIN code[b] : code[b][i].dst \notin Ids})
      = Cardinality(CyclesOf(original[b]))

\* A temporary is taken only when the pending copies permute SSA values, so
\* the saved source has a single reader: replacing the first copy's source
\* alone, which is what the loop over "any pending copy" does, is enough.
TempOnlyForPermutation ==
  [][lastValueId' # lastValueId =>
       /\ {copies[i].s : i \in DOMAIN copies} = {copies[i].d : i \in DOMAIN copies}
       /\ \A i \in DOMAIN copies : copies[i].s = copies[1].s => i = 1]_vars

\* The sequential MOVEs implement the parallel assignment.
ImplementsParallelAssign == PA!Spec

\* Every list is drained and the function gets its frame size.
Terminates == <>(mirLastValueId # INVALID_SLOT)
=============================================================================
