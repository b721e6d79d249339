-------------------------- MODULE NativeRunProofs --------------------------
(***************************************************************************)
(* Proofs about the building of blocks and the dominators computed from    *)
(* them.  Every statement, break, continue, short circuit and return       *)
(* leaves a graph whose edges are known at both ends and are those the     *)
(* terminators take, the iteration of computeDoms never loses a dominator  *)
(* and ends with nothing but dominators, and the graph, the analyses and   *)
(* the run of the source keep their types.                                 *)
(***************************************************************************)
EXTENDS NativeRun, SequenceFacts, FiniteSetTheorems, TLAPS

-----------------------------------------------------------------------------
(* The helpers that build blocks.                                          *)
Operand == {Ref(x) : x \in Vars} \union {Value(v) : v \in Nat}
Instruction ==
  [op : {"op", "param", "false", "true", "bind", "phi"}, dst : Nat, args : Seq(Operand),
   preds : Seq(Nat), sym : Vars \union {None}, at : Seq(Nat)]
Terminator ==
  {Open} \union
  [kind : {"jump", "branch", "return"}, args : Seq(Operand), targets : Seq(Nat), at : Seq(Nat)]
Block ==
  [code : Seq(Instruction), term : Terminator, preds : Seq(Nat), succs : Seq(Nat),
   defs : SUBSET Vars]
Function == [blocks : Seq(Block), curr : Nat, nextId : Nat]

Count(s, x) == Cardinality({i \in DOMAIN s : s[i] = x})
IsPhi(instruction) == instruction.op = "phi"
NoPhis(B) == \A k \in DOMAIN B.code : ~IsPhi(B.code[k])

EdgesInRange(f) ==
  \A b \in DOMAIN f.blocks :
    /\ \A i \in DOMAIN f.blocks[b].preds : f.blocks[b].preds[i] \in DOMAIN f.blocks
    /\ \A i \in DOMAIN f.blocks[b].succs : f.blocks[b].succs[i] \in DOMAIN f.blocks
SuccessorsAreTargets(f) ==
  \A b \in DOMAIN f.blocks : f.blocks[b].succs = f.blocks[b].term.targets
PhisMatchPredecessors(f) ==
  \A b \in DOMAIN f.blocks : \A k \in DOMAIN f.blocks[b].code :
    IsPhi(f.blocks[b].code[k]) => f.blocks[b].code[k].preds = f.blocks[b].preds
EdgesAtBothEnds(f) ==
  \A b, c \in DOMAIN f.blocks : Count(f.blocks[b].succs, c) = Count(f.blocks[c].preds, b)

HasEdges(f) ==
  /\ f \in Function
  /\ f.curr \in DOMAIN f.blocks
  /\ EdgesInRange(f)
  /\ PhisMatchPredecessors(f)
  /\ EdgesAtBothEnds(f)
IsGraph(f) == HasEdges(f) /\ SuccessorsAreTargets(f)

\* What is where after appending.
LEMMA AppendPlaces ==
  ASSUME NEW S, NEW s \in Seq(S), NEW e \in S
  PROVE  /\ Len(s) \in Nat
         /\ DOMAIN s = 1 .. Len(s)
         /\ DOMAIN Append(s, e) = 1 .. Len(s) + 1
         /\ \A i \in 1 .. Len(s) : Append(s, e)[i] = s[i]
         /\ Append(s, e)[Len(s) + 1] = e
         /\ \A k \in DOMAIN Append(s, e) :
              \/ k \in DOMAIN s /\ Append(s, e)[k] = s[k]
              \/ k = Len(s) + 1 /\ Append(s, e)[k] = e
<1> DEFINE n == Len(s)
<1>1. n \in Nat /\ DOMAIN s = 1 .. n
  BY LenProperties
<1>2. /\ DOMAIN Append(s, e) = 1 .. n + 1
      /\ \A i \in 1 .. n : Append(s, e)[i] = s[i]
      /\ Append(s, e)[n + 1] = e
  BY AppendHolds
<1> HIDE DEF n
<1>3. \A k \in 1 .. n + 1 : k \in 1 .. n \/ k = n + 1
  BY <1>1
<1> QED BY <1>1, <1>2, <1>3 DEF n

LEMMA OneAppended ==
  /\ \A x : Append(<< >>, x) = <<x>>
  /\ \A x, y : Append(<<x>>, y) = <<x, y>>
<1>1. ASSUME NEW x, NEW y
      PROVE  Append(<< >>, x) = <<x>> /\ Append(<<x>>, y) = <<x, y>>
  <2> DEFINE S == {x, y}
  <2>1. << >> \in Seq(S) /\ <<x>> \in Seq(S) /\ <<x, y>> \in Seq(S) /\ x \in S /\ y \in S
    OBVIOUS
  <2>2. /\ Len(<< >>) = 0 /\ Len(<<x>>) = 1 /\ Len(<<x, y>>) = 2
        /\ <<x>>[1] = x /\ <<x, y>>[1] = x /\ <<x, y>>[2] = y
    OBVIOUS
  <2>3. /\ Append(<< >>, x) \in Seq(S)
        /\ Len(Append(<< >>, x)) = 1
        /\ Append(<< >>, x)[1] = x
    <3> HIDE DEF S
    <3>1. Append(<< >>, x) \in Seq(S) /\ Len(Append(<< >>, x)) = Len(<< >>) + 1
          /\ Append(<< >>, x)[Len(<< >>) + 1] = x
      BY ONLY <2>1, AppendProperties
    <3> QED BY <2>2, <3>1
  <2>4. /\ Append(<<x>>, y) \in Seq(S)
        /\ Len(Append(<<x>>, y)) = 2
        /\ Append(<<x>>, y)[1] = x
        /\ Append(<<x>>, y)[2] = y
    <3> HIDE DEF S
    <3>1. /\ Append(<<x>>, y) \in Seq(S)
          /\ Len(Append(<<x>>, y)) = Len(<<x>>) + 1
          /\ \A i \in 1 .. Len(<<x>>) : Append(<<x>>, y)[i] = <<x>>[i]
          /\ Append(<<x>>, y)[Len(<<x>>) + 1] = y
      BY ONLY <2>1, AppendProperties
    <3> QED BY <2>2, <3>1
  <2> HIDE DEF S
  <2>5. Append(<< >>, x) = <<x>>
    BY ONLY <2>1, <2>2, <2>3, SeqEqual
  <2>6. Append(<<x>>, y) = <<x, y>>
    <3>1. \A i \in 1 .. 2 : i = 1 \/ i = 2
      OBVIOUS
    <3> QED BY ONLY <2>1, <2>2, <2>4, <3>1, SeqEqual
  <2> QED BY <2>5, <2>6
<1> QED BY <1>1

LEMMA CountGrows ==
  ASSUME NEW E, NEW s \in Seq(E), NEW y \in E, NEW x
  PROVE  /\ Count(s, x) \in Nat
         /\ Count(Append(s, y), x) = Count(s, x) + (IF x = y THEN 1 ELSE 0)
<1> DEFINE n == Len(s)
           S == {i \in DOMAIN s : s[i] = x}
           T == {i \in DOMAIN Append(s, y) : Append(s, y)[i] = x}
<1>1. /\ n \in Nat
      /\ DOMAIN s = 1 .. n
      /\ DOMAIN Append(s, y) = 1 .. n + 1
      /\ \A i \in 1 .. n : Append(s, y)[i] = s[i]
      /\ Append(s, y)[n + 1] = y
  BY AppendHolds, LenProperties
<1> HIDE DEF n
<1>2. S \subseteq 1 .. n /\ IsFiniteSet(S) /\ n + 1 \notin S
  <2>1. IsFiniteSet(1 .. n) /\ S \subseteq 1 .. n /\ n + 1 \notin 1 .. n
    BY <1>1, FS_Interval
  <2> QED BY <2>1, FS_Subset
<1>3. 1 .. n + 1 = (1 .. n) \union {n + 1}
  BY <1>1
<1>4. T = IF x = y THEN S \union {n + 1} ELSE S
  BY <1>1, <1>3
<1>5. Cardinality(S) \in Nat
  BY <1>2, FS_CardinalityType
<1>6. Cardinality(S \union {n + 1}) = Cardinality(S) + 1
  BY <1>2, FS_AddElement
<1>7. Cardinality(T) = Cardinality(S) + (IF x = y THEN 1 ELSE 0)
  <2> HIDE DEF S, T
  <2> QED BY <1>4, <1>5, <1>6
<1> QED BY <1>5, <1>7 DEF Count

LEMMA CountAppend ==
  ASSUME NEW s \in Seq(Nat), NEW y \in Nat, NEW x
  PROVE  /\ Count(s, x) \in Nat
         /\ Count(Append(s, y), x) = Count(s, x) + (IF x = y THEN 1 ELSE 0)
<1>1. Count(s, x) \in Nat
  BY CountGrows
<1>2. Count(Append(s, y), x) = Count(s, x) + (IF x = y THEN 1 ELSE 0)
  BY CountGrows
<1> QED BY <1>1, <1>2

\* An element occurs when it is counted.
LEMMA CountHolds ==
  ASSUME NEW s \in Seq(Nat), NEW x
  PROVE  Count(s, x) # 0 <=> Holds(s, x)
<1> DEFINE S == {i \in DOMAIN s : s[i] = x}
<1>1. IsFiniteSet(S)
  <2>1. IsFiniteSet(DOMAIN s)
    BY LenProperties, FS_Interval
  <2> QED BY <2>1, FS_Subset
<1>2. Cardinality(S) = 0 <=> S = {}
  <2> HIDE DEF S
  <2> QED BY <1>1, FS_EmptySet
<1> QED BY <1>2 DEF Count, Holds

\* What a block is replaced by, in a sequence of blocks.
LEMMA BlockReplaced ==
  ASSUME NEW blocks \in Seq(Block), NEW b \in DOMAIN blocks, NEW B \in Block
  PROVE  LET new == [blocks EXCEPT ![b] = B]
         IN  /\ new \in Seq(Block)
             /\ DOMAIN new = DOMAIN blocks
             /\ Len(new) = Len(blocks)
             /\ new[b] = B
             /\ \A c \in DOMAIN blocks : c # b => new[c] = blocks[c]
<1> DEFINE new == [blocks EXCEPT ![b] = B]
<1>1. /\ DOMAIN new = DOMAIN blocks
      /\ new[b] = B
      /\ \A c \in DOMAIN blocks : c # b => new[c] = blocks[c]
  OBVIOUS
<1>2. new \in Seq(Block) /\ Len(new) = Len(blocks)
  BY ExceptSeq
<1> QED BY <1>1, <1>2

\* A function that keeps its blocks' numbers, the block being filled and the
\* values made.
SameShape(f, g) ==
  /\ g.curr = f.curr
  /\ g.nextId = f.nextId
  /\ DOMAIN g.blocks = DOMAIN f.blocks
  /\ Len(g.blocks) = Len(f.blocks)
OnlyCurrChanged(f, g) ==
  \A b \in DOMAIN f.blocks : b # f.curr => g.blocks[b] = f.blocks[b]

\* Anything done to the block being filled that leaves its edges alone.
LEMMA CurrReplaced ==
  ASSUME NEW f, HasEdges(f), NEW C \in Block,
         C.preds = f.blocks[f.curr].preds,
         C.succs = f.blocks[f.curr].succs,
         \A k \in DOMAIN C.code : IsPhi(C.code[k]) => C.code[k].preds = C.preds
  PROVE  LET g == [f EXCEPT !.blocks = [f.blocks EXCEPT ![f.curr] = C]]
         IN  /\ HasEdges(g)
             /\ SameShape(f, g)
             /\ OnlyCurrChanged(f, g)
             /\ g.blocks[f.curr] = C
             /\ SuccessorsAreTargets(f) /\ C.term.targets = C.succs => SuccessorsAreTargets(g)
<1> DEFINE B == f.blocks[f.curr]
           new == [f.blocks EXCEPT ![f.curr] = C]
           g == [f EXCEPT !.blocks = new]
<1>1. f \in Function /\ f.curr \in DOMAIN f.blocks /\ B \in Block /\ f.blocks \in Seq(Block)
  BY ElementOfSeq DEF HasEdges, Function
<1>2. /\ new \in Seq(Block)
      /\ DOMAIN new = DOMAIN f.blocks
      /\ Len(new) = Len(f.blocks)
      /\ new[f.curr] = C
      /\ \A c \in DOMAIN f.blocks : c # f.curr => new[c] = f.blocks[c]
  BY <1>1, BlockReplaced
<1> HIDE DEF new
<1>3. /\ g \in Function
      /\ g.blocks = new
      /\ g.curr = f.curr
      /\ g.nextId = f.nextId
  BY <1>1, <1>2 DEF Function
<1> HIDE DEF g
<1>4. \A b \in DOMAIN f.blocks : /\ new[b].preds = f.blocks[b].preds
                                /\ new[b].succs = f.blocks[b].succs
  BY <1>2
<1>5. EdgesInRange(g) /\ EdgesAtBothEnds(g)
  BY <1>2, <1>3, <1>4 DEF HasEdges, EdgesInRange, EdgesAtBothEnds
<1>6. PhisMatchPredecessors(g)
  BY SMTT(30), <1>2, <1>3 DEF HasEdges, PhisMatchPredecessors
<1>7. SuccessorsAreTargets(f) /\ C.term.targets = C.succs => SuccessorsAreTargets(g)
  BY <1>2, <1>3 DEF SuccessorsAreTargets
<1> QED BY <1>1, <1>2, <1>3, <1>5, <1>6, <1>7 DEF HasEdges, SameShape, OnlyCurrChanged, g, new

\* An instruction at the end of the block being filled.
LEMMA emitBuilds ==
  ASSUME NEW f, IsGraph(f), NEW instruction \in Instruction,
         IsPhi(instruction) => instruction.preds = f.blocks[f.curr].preds
  PROVE  LET g == emit(f, instruction)
         IN  /\ IsGraph(g)
             /\ SameShape(f, g)
             /\ OnlyCurrChanged(f, g)
             /\ g.blocks[f.curr] = [f.blocks[f.curr] EXCEPT !.code = Append(@, instruction)]
<1> DEFINE g == emit(f, instruction)
           B == f.blocks[f.curr]
           C == [B EXCEPT !.code = Append(@, instruction)]
<1>1. f \in Function /\ f.curr \in DOMAIN f.blocks /\ B \in Block /\ f.blocks \in Seq(Block)
  BY ElementOfSeq DEF IsGraph, HasEdges, Function
<1>2. g = [f EXCEPT !.blocks = [f.blocks EXCEPT ![f.curr] = C]]
  BY <1>1 DEF emit, Function
<1>3. /\ C \in Block
      /\ C.preds = B.preds
      /\ C.succs = B.succs
      /\ C.term = B.term
      /\ C.code = Append(B.code, instruction)
  BY ZenonT(60), <1>1, AppendHolds DEF Block
<1>4. B.code \in Seq(Instruction) /\ instruction \in Instruction
  BY <1>1 DEF Block
<1> HIDE DEF C
<1>5. \A k \in DOMAIN C.code : IsPhi(C.code[k]) => C.code[k].preds = C.preds
  <2> SUFFICES ASSUME NEW k \in DOMAIN C.code, IsPhi(C.code[k])
               PROVE  C.code[k].preds = C.preds
    OBVIOUS
  <2>1. \/ k \in DOMAIN B.code /\ C.code[k] = B.code[k]
        \/ C.code[k] = instruction
    BY ONLY <1>3, <1>4, AppendPlaces, k \in DOMAIN C.code
  <2> QED BY <1>1, <1>3, <2>1 DEF IsGraph, HasEdges, PhisMatchPredecessors
<1>6. C.term.targets = C.succs
  BY <1>1, <1>3 DEF IsGraph, SuccessorsAreTargets
<1> HIDE DEF g
<1>7. HasEdges(g) /\ SameShape(f, g) /\ OnlyCurrChanged(f, g) /\ g.blocks[f.curr] = C
      /\ (SuccessorsAreTargets(f) /\ C.term.targets = C.succs => SuccessorsAreTargets(g))
  BY <1>2, <1>3, <1>5, CurrReplaced DEF IsGraph
<1> QED BY <1>6, <1>7 DEF IsGraph, C, g

\* Another terminator; the edges are up to the caller.
LEMMA SetTermBuilds ==
  ASSUME NEW f, HasEdges(f), NEW term \in Terminator
  PROVE  LET g == SetTerm(f, term)
         IN  /\ HasEdges(g)
             /\ SameShape(f, g)
             /\ OnlyCurrChanged(f, g)
             /\ g.blocks[f.curr] = [f.blocks[f.curr] EXCEPT !.term = term]
<1> DEFINE g == SetTerm(f, term)
           B == f.blocks[f.curr]
           C == [B EXCEPT !.term = term]
<1>1. f \in Function /\ f.curr \in DOMAIN f.blocks /\ B \in Block /\ f.blocks \in Seq(Block)
  BY ElementOfSeq DEF HasEdges, Function
<1>2. g = [f EXCEPT !.blocks = [f.blocks EXCEPT ![f.curr] = C]]
  BY <1>1 DEF SetTerm, Function
<1>3. /\ C \in Block
      /\ C.preds = B.preds
      /\ C.succs = B.succs
      /\ C.code = B.code
  BY <1>1 DEF Block
<1> HIDE DEF C, g
<1>4. \A k \in DOMAIN C.code : IsPhi(C.code[k]) => C.code[k].preds = C.preds
  BY <1>1, <1>3 DEF HasEdges, PhisMatchPredecessors
<1>5. HasEdges(g) /\ SameShape(f, g) /\ OnlyCurrChanged(f, g) /\ g.blocks[f.curr] = C
  BY <1>2, <1>3, <1>4, CurrReplaced
<1> QED BY <1>5 DEF C, g

\* A new edge, known at both its ends, into a block without phis.
EdgeAdded(f, g, from, to) ==
  /\ SameShape(f, g)
  /\ \A b \in DOMAIN f.blocks :
       /\ g.blocks[b].term = f.blocks[b].term
       /\ g.blocks[b].code = f.blocks[b].code
       /\ g.blocks[b].defs = f.blocks[b].defs
       /\ b # from => g.blocks[b].succs = f.blocks[b].succs
       /\ b # to => g.blocks[b].preds = f.blocks[b].preds
       /\ b \notin {from, to} => g.blocks[b] = f.blocks[b]
  /\ g.blocks[from].succs = Append(f.blocks[from].succs, to)
  /\ g.blocks[to].preds = Append(f.blocks[to].preds, from)

LEMMA connectBlockBuilds ==
  ASSUME NEW f, HasEdges(f), NEW from \in DOMAIN f.blocks, NEW to \in DOMAIN f.blocks,
         NoPhis(f.blocks[to])
  PROVE  LET g == connectBlock(f, from, to)
         IN  HasEdges(g) /\ EdgeAdded(f, g, from, to)
<1> DEFINE g == connectBlock(f, from, to)
           C == [f.blocks[from] EXCEPT !.succs = Append(@, to)]
           mid == [f.blocks EXCEPT ![from] = C]
           D == [mid[to] EXCEPT !.preds = Append(@, from)]
           new == [mid EXCEPT ![to] = D]
<1>1. /\ f \in Function /\ f.curr \in DOMAIN f.blocks /\ f.blocks \in Seq(Block)
      /\ DOMAIN f.blocks \subseteq Nat
      /\ from \in DOMAIN f.blocks /\ to \in DOMAIN f.blocks
      /\ \A b \in DOMAIN f.blocks : f.blocks[b] \in Block
  BY ElementOfSeq, LenProperties DEF HasEdges, Function
<1>2. g = [f EXCEPT !.blocks = new]
  BY ZenonT(60), <1>1 DEF connectBlock, Function
<1>3. /\ C \in Block
      /\ C.preds = f.blocks[from].preds
      /\ C.succs = Append(f.blocks[from].succs, to)
      /\ C.code = f.blocks[from].code
      /\ C.term = f.blocks[from].term
      /\ C.defs = f.blocks[from].defs
  <2>1. f.blocks[from] \in Block /\ f.blocks[from].succs \in Seq(Nat) /\ to \in Nat
    BY <1>1 DEF Block
  <2>2. Append(f.blocks[from].succs, to) \in Seq(Nat)
    BY ONLY <2>1, AppendHolds
  <2> QED BY <2>1, <2>2 DEF Block
<1> HIDE DEF C
<1>4. /\ mid \in Seq(Block)
      /\ DOMAIN mid = DOMAIN f.blocks
      /\ Len(mid) = Len(f.blocks)
      /\ mid[from] = C
      /\ \A c \in DOMAIN f.blocks : c # from => mid[c] = f.blocks[c]
  BY <1>1, <1>3, BlockReplaced
<1> HIDE DEF mid
<1>5. mid[to] \in Block
  BY <1>1, <1>3, <1>4
<1>6. /\ D \in Block
      /\ D.preds = Append(mid[to].preds, from)
      /\ D.succs = mid[to].succs
      /\ D.code = mid[to].code
      /\ D.term = mid[to].term
      /\ D.defs = mid[to].defs
  BY <1>1, <1>5, AppendHolds DEF Block
<1> HIDE DEF D
<1>7. /\ new \in Seq(Block)
      /\ DOMAIN new = DOMAIN f.blocks
      /\ Len(new) = Len(f.blocks)
      /\ new[to] = D
      /\ \A c \in DOMAIN f.blocks : c # to => new[c] = mid[c]
  BY <1>1, <1>4, <1>6, BlockReplaced
<1> HIDE DEF new
<1>8. /\ g \in Function
      /\ g.blocks = new
      /\ g.curr = f.curr
      /\ g.nextId = f.nextId
  BY <1>1, <1>2, <1>7 DEF Function
<1> HIDE DEF g
<1>9. /\ \A b \in DOMAIN f.blocks :
           /\ new[b].term = f.blocks[b].term
           /\ new[b].code = f.blocks[b].code
           /\ new[b].defs = f.blocks[b].defs
           /\ b # from => new[b].succs = f.blocks[b].succs
           /\ b # to => new[b].preds = f.blocks[b].preds
           /\ b \notin {from, to} => new[b] = f.blocks[b]
      /\ new[from].succs = Append(f.blocks[from].succs, to)
      /\ new[to].preds = Append(f.blocks[to].preds, from)
  BY ZenonT(60), <1>1, <1>3, <1>4, <1>6, <1>7
<1>10. PhisMatchPredecessors(g)
  <2> SUFFICES ASSUME NEW b \in DOMAIN f.blocks, NEW k \in DOMAIN new[b].code,
                      IsPhi(new[b].code[k])
               PROVE  new[b].code[k].preds = new[b].preds
    BY <1>7, <1>8 DEF PhisMatchPredecessors
  <2>1. new[b].code = f.blocks[b].code
    BY <1>9
  <2>2. b # to
    BY <2>1 DEF NoPhis
  <2> QED BY <1>9, <2>1, <2>2 DEF HasEdges, PhisMatchPredecessors
<1>11. \A b \in DOMAIN f.blocks : /\ f.blocks[b].preds \in Seq(Nat)
                                 /\ f.blocks[b].succs \in Seq(Nat)
  BY <1>1 DEF Block
<1>12. EdgesInRange(g)
  <2>1. \A i \in DOMAIN Append(f.blocks[from].succs, to) :
          Append(f.blocks[from].succs, to)[i] \in DOMAIN f.blocks
    <3>1. f.blocks[from].succs \in Seq(Nat) /\ to \in Nat
      BY <1>1, <1>11
    <3>2. \A k \in DOMAIN Append(f.blocks[from].succs, to) :
            \/ /\ k \in DOMAIN f.blocks[from].succs
               /\ Append(f.blocks[from].succs, to)[k] = f.blocks[from].succs[k]
            \/ Append(f.blocks[from].succs, to)[k] = to
      BY ONLY <3>1, AppendPlaces
    <3> QED BY <1>1, <3>2 DEF HasEdges, EdgesInRange
  <2>2. \A i \in DOMAIN Append(f.blocks[to].preds, from) :
          Append(f.blocks[to].preds, from)[i] \in DOMAIN f.blocks
    <3>1. f.blocks[to].preds \in Seq(Nat) /\ from \in Nat
      BY <1>1, <1>11
    <3>2. \A k \in DOMAIN Append(f.blocks[to].preds, from) :
            \/ /\ k \in DOMAIN f.blocks[to].preds
               /\ Append(f.blocks[to].preds, from)[k] = f.blocks[to].preds[k]
            \/ Append(f.blocks[to].preds, from)[k] = from
      BY ONLY <3>1, AppendPlaces
    <3> QED BY <1>1, <3>2 DEF HasEdges, EdgesInRange
  <2>3. ASSUME NEW b \in DOMAIN f.blocks
        PROVE  /\ \A i \in DOMAIN new[b].preds : new[b].preds[i] \in DOMAIN f.blocks
               /\ \A i \in DOMAIN new[b].succs : new[b].succs[i] \in DOMAIN f.blocks
    <3>1. \A i \in DOMAIN new[b].preds : new[b].preds[i] \in DOMAIN f.blocks
      BY ZenonT(60), <1>9, <2>2 DEF HasEdges, EdgesInRange
    <3>2. \A i \in DOMAIN new[b].succs : new[b].succs[i] \in DOMAIN f.blocks
      BY ZenonT(60), <1>9, <2>1 DEF HasEdges, EdgesInRange
    <3> QED BY <3>1, <3>2
  <2> QED BY <1>7, <1>8, <2>3 DEF EdgesInRange
<1>13. EdgesAtBothEnds(g)
  <2> SUFFICES ASSUME NEW b \in DOMAIN f.blocks, NEW c \in DOMAIN f.blocks
               PROVE  Count(new[b].succs, c) = Count(new[c].preds, b)
    BY <1>7, <1>8 DEF EdgesAtBothEnds
  <2>1. /\ f.blocks[from].succs \in Seq(Nat) /\ f.blocks[to].preds \in Seq(Nat)
        /\ from \in Nat /\ to \in Nat
    BY <1>1, <1>11
  <2>2. /\ Count(f.blocks[from].succs, c) \in Nat
        /\ Count(Append(f.blocks[from].succs, to), c)
             = Count(f.blocks[from].succs, c) + (IF c = to THEN 1 ELSE 0)
    BY ONLY <2>1, CountAppend
  <2>3. /\ Count(f.blocks[to].preds, b) \in Nat
        /\ Count(Append(f.blocks[to].preds, from), b)
             = Count(f.blocks[to].preds, b) + (IF b = from THEN 1 ELSE 0)
    BY ONLY <2>1, CountAppend
  <2>4. Count(f.blocks[b].succs, c) = Count(f.blocks[c].preds, b)
    BY DEF HasEdges, EdgesAtBothEnds
  <2>5. Count(new[b].succs, c) = IF b = from /\ c = to THEN Count(f.blocks[b].succs, c) + 1
                                 ELSE Count(f.blocks[b].succs, c)
    <3>1. CASE b = from
      <4>1. new[b].succs = Append(f.blocks[from].succs, to)
        BY <1>9, <3>1
      <4> QED BY <2>2, <3>1, <4>1
    <3>2. CASE b # from
      BY <1>9, <3>2
    <3> QED BY <3>1, <3>2
  <2>6. Count(new[c].preds, b) = IF b = from /\ c = to THEN Count(f.blocks[c].preds, b) + 1
                                 ELSE Count(f.blocks[c].preds, b)
    <3>1. CASE c = to
      <4>1. new[c].preds = Append(f.blocks[to].preds, from)
        BY <1>9, <3>1
      <4> QED BY <2>3, <3>1, <4>1
    <3>2. CASE c # to
      BY <1>9, <3>2
    <3> QED BY <3>1, <3>2
  <2> QED BY <2>4, <2>5, <2>6
<1> QED BY <1>1, <1>7, <1>8, <1>9, <1>10, <1>12, <1>13 DEF HasEdges, SameShape, EdgeAdded, g

\* No open block has successors yet.
IsOpen(f) == f.blocks[f.curr].term = Open

\* The block being filled ends, with edges to the blocks of `targets'.
Ended(f, g, targets) ==
  /\ IsGraph(g)
  /\ SameShape(f, g)
  /\ \A c \in DOMAIN f.blocks :
       /\ g.blocks[c].code = f.blocks[c].code
       /\ g.blocks[c].defs = f.blocks[c].defs
       /\ c # f.curr => g.blocks[c].term = f.blocks[c].term
       /\ c \notin targets => g.blocks[c].preds = f.blocks[c].preds
       /\ c \notin targets \union {f.curr} => g.blocks[c] = f.blocks[c]
  /\ g.blocks[f.curr].term # Open

\* What setting the terminator leaves alone.
TermSet(f, g, term) ==
  /\ HasEdges(g)
  /\ SameShape(f, g)
  /\ \A c \in DOMAIN f.blocks :
       /\ g.blocks[c].code = f.blocks[c].code
       /\ g.blocks[c].defs = f.blocks[c].defs
       /\ g.blocks[c].preds = f.blocks[c].preds
       /\ g.blocks[c].succs = f.blocks[c].succs
       /\ c # f.curr => g.blocks[c] = f.blocks[c]
  /\ g.blocks[f.curr].term = term

LEMMA SetTermSets ==
  ASSUME NEW f, HasEdges(f), NEW term \in Terminator
  PROVE  TermSet(f, SetTerm(f, term), term)
<1> DEFINE g == SetTerm(f, term)
<1>1. f.curr \in DOMAIN f.blocks /\ \A c \in DOMAIN f.blocks : f.blocks[c] \in Block
  BY ElementOfSeq DEF HasEdges, Function
<1>2. /\ HasEdges(g)
      /\ SameShape(f, g)
      /\ OnlyCurrChanged(f, g)
      /\ g.blocks[f.curr] = [f.blocks[f.curr] EXCEPT !.term = term]
  BY SetTermBuilds
<1> HIDE DEF g
<1>3. /\ g.blocks[f.curr].term = term
      /\ g.blocks[f.curr].code = f.blocks[f.curr].code
      /\ g.blocks[f.curr].defs = f.blocks[f.curr].defs
      /\ g.blocks[f.curr].preds = f.blocks[f.curr].preds
      /\ g.blocks[f.curr].succs = f.blocks[f.curr].succs
  BY <1>1, <1>2 DEF Block
<1>4. TermSet(f, g, term)
  BY <1>2, <1>3 DEF TermSet, OnlyCurrChanged
<1> QED BY <1>4 DEF g

\* An open block has no successors.
LEMMA OpenHasNoSuccessors ==
  ASSUME NEW f, IsGraph(f), IsOpen(f)
  PROVE  /\ f.curr \in DOMAIN f.blocks
         /\ DOMAIN f.blocks \subseteq Nat
         /\ f.blocks[f.curr].succs = << >>
<1>1. f.curr \in DOMAIN f.blocks
  BY DEF IsGraph, HasEdges
<1>2. DOMAIN f.blocks \subseteq Nat
  BY LenProperties DEF IsGraph, HasEdges, Function
<1>3. f.blocks[f.curr].succs = Open.targets
  BY <1>1 DEF IsGraph, SuccessorsAreTargets, IsOpen
<1> QED BY <1>1, <1>2, <1>3 DEF Open

LEMMA JumpToBuilds ==
  ASSUME NEW f, IsGraph(f), IsOpen(f), NEW b \in DOMAIN f.blocks, NoPhis(f.blocks[b])
  PROVE  LET g == JumpTo(f, b)
         IN  /\ Ended(f, g, {b})
             /\ g.blocks[b].preds = Append(f.blocks[b].preds, f.curr)
             /\ g.blocks[f.curr].term = Jump(b)
<1> DEFINE term == Jump(b)
           h == SetTerm(f, term)
           g == JumpTo(f, b)
<1>1. /\ f.curr \in DOMAIN f.blocks
      /\ DOMAIN f.blocks \subseteq Nat
      /\ f.blocks[f.curr].succs = << >>
  BY OpenHasNoSuccessors
<1>2. term \in Terminator /\ term # Open /\ term.targets = <<b>>
  <2>1. <<b>> \in Seq(Nat) /\ << >> \in Seq(Nat) /\ << >> \in Seq(Operand)
    BY <1>1
  <2>2. /\ Open \in [kind : {"open"}, args : Seq(Operand), targets : Seq(Nat), at : Seq(Nat)]
        /\ Open.kind = "open"
    BY DEF Open
  <2>3. term = [Open EXCEPT !.kind = "jump", !.targets = <<b>>]
    BY DEF Jump
  <2>4. /\ term \in [kind : {"jump", "branch", "return"}, args : Seq(Operand), targets : Seq(Nat), at : Seq(Nat)]
        /\ term.kind = "jump" /\ term.targets = <<b>>
    BY <2>1, <2>2, <2>3
  <2>5. term \in Terminator
    BY <2>4 DEF Terminator
  <2> QED BY <2>2, <2>4, <2>5
<1>3. g = connectBlock(h, f.curr, b)
  BY DEF JumpTo
<1> HIDE DEF term, g
<1>4. TermSet(f, h, term)
  BY <1>2, SetTermSets DEF IsGraph
<1> HIDE DEF h
<1>5. HasEdges(h) /\ b \in DOMAIN h.blocks /\ f.curr \in DOMAIN h.blocks /\ NoPhis(h.blocks[b])
  BY SMTT(30), <1>1, <1>4 DEF TermSet, SameShape, NoPhis
<1>6. HasEdges(g) /\ EdgeAdded(h, g, f.curr, b)
  BY <1>3, <1>5, connectBlockBuilds
<1>7. SameShape(f, g) /\ DOMAIN h.blocks = DOMAIN f.blocks
  BY <1>4, <1>6 DEF TermSet, EdgeAdded, SameShape
<1>8. g.blocks[f.curr].succs = <<b>> /\ g.blocks[f.curr].term = term
  <2>1. h.blocks[f.curr].succs = << >> /\ h.blocks[f.curr].term = term
    BY <1>1, <1>4 DEF TermSet
  <2>2. g.blocks[f.curr].succs = Append(h.blocks[f.curr].succs, b) /\ g.blocks[f.curr].term = term
    BY <1>1, <1>6, <1>7, <2>1 DEF EdgeAdded
  <2> QED BY <2>1, <2>2, OneAppended
<1>9. SuccessorsAreTargets(g)
  <2> SUFFICES ASSUME NEW c \in DOMAIN f.blocks
               PROVE  g.blocks[c].succs = g.blocks[c].term.targets
    BY <1>7 DEF SuccessorsAreTargets, SameShape
  <2>1. CASE c = f.curr
    BY <1>2, <1>8, <2>1
  <2>2. CASE c # f.curr
    <3>1. h.blocks[c].succs = f.blocks[c].succs /\ h.blocks[c].term = f.blocks[c].term
      BY SMTT(30), <1>4, <2>2 DEF TermSet
    <3>2. g.blocks[c].succs = h.blocks[c].succs /\ g.blocks[c].term = h.blocks[c].term
      BY <1>6, <1>7, <2>2 DEF EdgeAdded
    <3> QED BY <3>1, <3>2 DEF IsGraph, SuccessorsAreTargets
  <2> QED BY <2>1, <2>2
<1>10. ASSUME NEW c \in DOMAIN f.blocks
       PROVE  /\ g.blocks[c].code = f.blocks[c].code
              /\ g.blocks[c].defs = f.blocks[c].defs
              /\ c # f.curr => g.blocks[c].term = f.blocks[c].term
              /\ c \notin {b} => g.blocks[c].preds = f.blocks[c].preds
              /\ c \notin {b} \union {f.curr} => g.blocks[c] = f.blocks[c]
  <2>1. /\ h.blocks[c].code = f.blocks[c].code
        /\ h.blocks[c].defs = f.blocks[c].defs
        /\ h.blocks[c].preds = f.blocks[c].preds
        /\ c # f.curr => h.blocks[c] = f.blocks[c]
    BY <1>4 DEF TermSet
  <2>2. /\ g.blocks[c].term = h.blocks[c].term
        /\ g.blocks[c].code = h.blocks[c].code
        /\ g.blocks[c].defs = h.blocks[c].defs
        /\ c # b => g.blocks[c].preds = h.blocks[c].preds
        /\ c \notin {f.curr, b} => g.blocks[c] = h.blocks[c]
    <3>1. c \in DOMAIN h.blocks
      BY <1>7
    <3> QED BY ZenonT(60), <1>6, <3>1 DEF EdgeAdded
  <2> QED BY <2>1, <2>2
<1>11. g.blocks[b].preds = Append(f.blocks[b].preds, f.curr)
  BY <1>4, <1>6 DEF TermSet, EdgeAdded
<1>12. Ended(f, g, {b})
  BY <1>2, <1>6, <1>7, <1>8, <1>9, <1>10 DEF Ended, IsGraph
<1> QED BY <1>8, <1>11, <1>12 DEF g, term

LEMMA BranchToBuilds ==
  ASSUME NEW f, IsGraph(f), IsOpen(f), NEW o \in Operand, NEW where \in Seq(Nat),
         NEW t \in DOMAIN f.blocks, NEW e \in DOMAIN f.blocks, t # e,
         NoPhis(f.blocks[t]), NoPhis(f.blocks[e])
  PROVE  LET g == BranchTo(f, o, t, e, where)
         IN  Ended(f, g, {t, e}) /\ g.blocks[f.curr].term = Branch(o, t, e, where)
<1> DEFINE term == Branch(o, t, e, where)
           h == SetTerm(f, term)
           i == connectBlock(h, f.curr, t)
           g == BranchTo(f, o, t, e, where)
<1>1. /\ f.curr \in DOMAIN f.blocks
      /\ DOMAIN f.blocks \subseteq Nat
      /\ f.blocks[f.curr].succs = << >>
  BY OpenHasNoSuccessors
<1>2. term \in Terminator /\ term # Open /\ term.targets = <<t, e>>
  <2>1. <<o>> \in Seq(Operand) /\ <<t, e>> \in Seq(Nat)
    BY <1>1
  <2> QED BY <2>1 DEF Branch, Open, Terminator
<1>3. g = connectBlock(i, f.curr, e)
  BY DEF BranchTo
<1> HIDE DEF term, g
<1>4. TermSet(f, h, term)
  BY <1>2, SetTermSets DEF IsGraph
<1> HIDE DEF h
<1>5. /\ HasEdges(h) /\ t \in DOMAIN h.blocks /\ e \in DOMAIN h.blocks
      /\ f.curr \in DOMAIN h.blocks
      /\ NoPhis(h.blocks[t]) /\ NoPhis(h.blocks[e])
  BY <1>1, <1>4 DEF TermSet, SameShape, NoPhis
<1>6. HasEdges(i) /\ EdgeAdded(h, i, f.curr, t)
  BY <1>5, connectBlockBuilds
<1> HIDE DEF i
<1>7. e \in DOMAIN i.blocks /\ f.curr \in DOMAIN i.blocks /\ NoPhis(i.blocks[e])
  BY <1>5, <1>6 DEF EdgeAdded, SameShape, NoPhis
<1>8. HasEdges(g) /\ EdgeAdded(i, g, f.curr, e)
  BY SMTT(30), <1>3, <1>6, <1>7, connectBlockBuilds
<1>9. /\ SameShape(f, g)
      /\ DOMAIN h.blocks = DOMAIN f.blocks
      /\ DOMAIN i.blocks = DOMAIN f.blocks
  BY <1>4, <1>6, <1>8 DEF TermSet, EdgeAdded, SameShape
<1>10. g.blocks[f.curr].succs = <<t, e>> /\ g.blocks[f.curr].term = term
  <2>1. h.blocks[f.curr].succs = << >> /\ h.blocks[f.curr].term = term
    BY <1>1, <1>4 DEF TermSet
  <2>2. i.blocks[f.curr].succs = <<t>> /\ i.blocks[f.curr].term = term
    <3>1. i.blocks[f.curr].succs = Append(h.blocks[f.curr].succs, t) /\ i.blocks[f.curr].term = term
      BY <1>1, <1>6, <1>9, <2>1 DEF EdgeAdded
    <3> QED BY <2>1, <3>1, OneAppended
  <2>3. g.blocks[f.curr].succs = Append(i.blocks[f.curr].succs, e) /\ g.blocks[f.curr].term = term
    BY <1>1, <1>8, <1>9, <2>2 DEF EdgeAdded
  <2> QED BY <2>2, <2>3, OneAppended
<1>11. SuccessorsAreTargets(g)
  <2> SUFFICES ASSUME NEW c \in DOMAIN f.blocks
               PROVE  g.blocks[c].succs = g.blocks[c].term.targets
    BY <1>9 DEF SuccessorsAreTargets, SameShape
  <2>1. CASE c = f.curr
    BY <1>2, <1>10, <2>1
  <2>2. CASE c # f.curr
    <3>1. h.blocks[c].succs = f.blocks[c].succs /\ h.blocks[c].term = f.blocks[c].term
      BY <1>4, <2>2 DEF TermSet
    <3>2. i.blocks[c].succs = h.blocks[c].succs /\ i.blocks[c].term = h.blocks[c].term
      BY <1>6, <1>9, <2>2 DEF EdgeAdded
    <3>3. g.blocks[c].succs = i.blocks[c].succs /\ g.blocks[c].term = i.blocks[c].term
      BY <1>8, <1>9, <2>2 DEF EdgeAdded
    <3> QED BY <3>1, <3>2, <3>3 DEF IsGraph, SuccessorsAreTargets
  <2> QED BY <2>1, <2>2
<1>12. ASSUME NEW c \in DOMAIN f.blocks
       PROVE  /\ g.blocks[c].code = f.blocks[c].code
              /\ g.blocks[c].defs = f.blocks[c].defs
              /\ c # f.curr => g.blocks[c].term = f.blocks[c].term
              /\ c \notin {t, e} => g.blocks[c].preds = f.blocks[c].preds
              /\ c \notin {t, e} \union {f.curr} => g.blocks[c] = f.blocks[c]
  <2>1. /\ h.blocks[c].code = f.blocks[c].code
        /\ h.blocks[c].defs = f.blocks[c].defs
        /\ h.blocks[c].preds = f.blocks[c].preds
        /\ c # f.curr => h.blocks[c] = f.blocks[c]
    BY <1>4 DEF TermSet
  <2>2. /\ i.blocks[c].term = h.blocks[c].term
        /\ i.blocks[c].code = h.blocks[c].code
        /\ i.blocks[c].defs = h.blocks[c].defs
        /\ c # t => i.blocks[c].preds = h.blocks[c].preds
        /\ c \notin {f.curr, t} => i.blocks[c] = h.blocks[c]
    BY <1>6, <1>9 DEF EdgeAdded
  <2>3. /\ g.blocks[c].term = i.blocks[c].term
        /\ g.blocks[c].code = i.blocks[c].code
        /\ g.blocks[c].defs = i.blocks[c].defs
        /\ c # e => g.blocks[c].preds = i.blocks[c].preds
        /\ c \notin {f.curr, e} => g.blocks[c] = i.blocks[c]
    BY <1>8, <1>9 DEF EdgeAdded
  <2> QED BY <2>1, <2>2, <2>3
<1>13. Ended(f, g, {t, e})
  BY <1>2, <1>8, <1>9, <1>10, <1>11, <1>12 DEF Ended, IsGraph
<1> QED BY <1>10, <1>13 DEF g, term

\* New blocks are empty and without edges.
BlocksAdded(f, g, n) ==
  LET N == Len(f.blocks)
  IN  /\ IsGraph(g)
      /\ g.curr = f.curr
      /\ g.nextId = f.nextId
      /\ N \in Nat
      /\ DOMAIN f.blocks = 1 .. N
      /\ DOMAIN g.blocks = 1 .. N + n
      /\ Len(g.blocks) = N + n
      /\ \A b \in 1 .. N : g.blocks[b] = f.blocks[b]
      /\ \A b \in N + 1 .. N + n : g.blocks[b] = EmptyBlock

LEMMA makeBlocksBuilds ==
  ASSUME NEW f, IsGraph(f), NEW n \in Nat
  PROVE  BlocksAdded(f, makeBlocks(f, n), n)
<1> DEFINE g == makeBlocks(f, n)
           N == Len(f.blocks)
           fresh == [i \in 1 .. n |-> EmptyBlock]
           new == f.blocks \o fresh
<1>1. f \in Function /\ f.curr \in DOMAIN f.blocks /\ f.blocks \in Seq(Block)
  BY DEF IsGraph, HasEdges, Function
<1>2. /\ N \in Nat /\ DOMAIN f.blocks = 1 .. N
      /\ \A b \in DOMAIN f.blocks : f.blocks[b] \in Block
  BY <1>1, LenProperties, ElementOfSeq
<1>3. EmptyBlock \in Block
  BY DEF EmptyBlock, Block, Open, Terminator
<1>4. fresh \in Seq(Block) /\ Len(fresh) = n
  BY <1>3, IsASeq, LenProperties
<1>5. /\ new \in Seq(Block)
      /\ Len(new) = N + n
      /\ DOMAIN new = 1 .. N + n
      /\ \A i \in 1 .. N + n : new[i] = IF i <= N THEN f.blocks[i] ELSE fresh[i - N]
  <2> HIDE DEF fresh
  <2>1. new \in Seq(Block) /\ Len(new) = N + n
    BY <1>1, <1>4, ConcatProperties
  <2>2. \A i \in 1 .. N + n : new[i] = IF i <= N THEN f.blocks[i] ELSE fresh[i - N]
    BY <1>1, <1>4, ConcatProperties
  <2>3. DOMAIN new = 1 .. N + n
    <3> HIDE DEF new
    <3> QED BY <2>1, LenProperties
  <2> QED BY <2>1, <2>2, <2>3
<1> HIDE DEF N
<1>6. /\ \A b \in 1 .. N : b \in 1 .. N + n /\ new[b] = f.blocks[b]
      /\ \A b \in N + 1 .. N + n : b \in 1 .. N + n /\ new[b] = EmptyBlock
      /\ \A b \in 1 .. N + n : b \in 1 .. N \/ b \in N + 1 .. N + n
  <2>1. \A b \in 1 .. N : b \in 1 .. N + n /\ b <= N
    BY <1>2
  <2>2. \A b \in N + 1 .. N + n : b \in 1 .. N + n /\ ~(b <= N) /\ b - N \in 1 .. n
    BY <1>2
  <2>3. \A b \in 1 .. N + n : b \in 1 .. N \/ b \in N + 1 .. N + n
    BY <1>2
  <2> QED BY <1>5, <2>1, <2>2, <2>3
<1>7. g = [f EXCEPT !.blocks = new]
  BY DEF makeBlocks
<1> HIDE DEF new
<1>8. /\ g \in Function
      /\ g.blocks = new
      /\ g.curr = f.curr
      /\ g.nextId = f.nextId
  BY <1>1, <1>5, <1>7 DEF Function
<1> HIDE DEF g
<1>9. /\ EmptyBlock.preds = << >> /\ EmptyBlock.succs = << >> /\ EmptyBlock.code = << >>
      /\ EmptyBlock.term.targets = << >>
  BY DEF EmptyBlock, Open
<1>10. EdgesInRange(g)
  <2> SUFFICES ASSUME NEW b \in 1 .. N + n
               PROVE  /\ \A i \in DOMAIN new[b].preds : new[b].preds[i] \in 1 .. N + n
                      /\ \A i \in DOMAIN new[b].succs : new[b].succs[i] \in 1 .. N + n
    BY <1>5, <1>8 DEF EdgesInRange
  <2>1. CASE b \in 1 .. N
    BY <1>2, <1>6, <2>1 DEF IsGraph, HasEdges, EdgesInRange
  <2>2. CASE b \in N + 1 .. N + n
    BY <1>6, <1>9, <2>2, EmptyHolds
  <2> QED BY <1>6, <2>1, <2>2
<1>11. SuccessorsAreTargets(g)
  <2> SUFFICES ASSUME NEW b \in 1 .. N + n
               PROVE  new[b].succs = new[b].term.targets
    BY <1>5, <1>8 DEF SuccessorsAreTargets
  <2> QED BY <1>2, <1>6, <1>9 DEF IsGraph, SuccessorsAreTargets
<1>12. PhisMatchPredecessors(g)
  <2> SUFFICES ASSUME NEW b \in 1 .. N + n, NEW k \in DOMAIN new[b].code, IsPhi(new[b].code[k])
               PROVE  new[b].code[k].preds = new[b].preds
    BY <1>5, <1>8 DEF PhisMatchPredecessors
  <2>1. CASE b \in 1 .. N
    BY <1>2, <1>6, <2>1 DEF IsGraph, HasEdges, PhisMatchPredecessors
  <2>2. CASE b \in N + 1 .. N + n
    BY <1>6, <1>9, <2>2, EmptyHolds
  <2> QED BY <1>6, <2>1, <2>2
<1>13. EdgesAtBothEnds(g)
  <2> SUFFICES ASSUME NEW b \in 1 .. N + n, NEW c \in 1 .. N + n
               PROVE  Count(new[b].succs, c) = Count(new[c].preds, b)
    BY <1>5, <1>8 DEF EdgesAtBothEnds
  <2>1. \A x : Count(<< >>, x) = 0
    <3>1. << >> \in Seq(Nat)
      OBVIOUS
    <3> QED BY <3>1, CountHolds, EmptyHolds
  <2>2. ASSUME NEW x \in N + 1 .. N + n, NEW y \in 1 .. N
        PROVE  Count(f.blocks[y].succs, x) = 0 /\ Count(f.blocks[y].preds, x) = 0
    <3>1. f.blocks[y].succs \in Seq(Nat) /\ f.blocks[y].preds \in Seq(Nat)
      BY <1>2 DEF Block
    <3>2. x \notin 1 .. N
      BY <1>2
    <3>3. ~Holds(f.blocks[y].succs, x) /\ ~Holds(f.blocks[y].preds, x)
      BY <1>2, <3>2 DEF Holds, IsGraph, HasEdges, EdgesInRange
    <3> QED BY ONLY <3>1, <3>3, CountHolds
  <2>3. CASE b \in 1 .. N /\ c \in 1 .. N
    BY <1>2, <1>6, <2>3 DEF IsGraph, HasEdges, EdgesAtBothEnds
  <2>4. CASE b \in N + 1 .. N + n /\ c \in 1 .. N
    BY <1>6, <1>9, <2>1, <2>2, <2>4
  <2>5. CASE b \in 1 .. N /\ c \in N + 1 .. N + n
    BY <1>6, <1>9, <2>1, <2>2, <2>5
  <2>6. CASE b \in N + 1 .. N + n /\ c \in N + 1 .. N + n
    BY <1>6, <1>9, <2>1, <2>6
  <2> QED BY <1>6, <2>3, <2>4, <2>5, <2>6
<1>14. f.curr \in DOMAIN new
  BY <1>1, <1>2, <1>5, <1>6
<1> QED BY <1>2, <1>5, <1>6, <1>8, <1>10, <1>11, <1>12, <1>13, <1>14 DEF IsGraph, HasEdges, BlocksAdded, g, N

\* Another block to fill.
LEMMA AtBuilds ==
  ASSUME NEW f, IsGraph(f), NEW b \in DOMAIN f.blocks
  PROVE  LET g == At(f, b)
         IN  IsGraph(g) /\ g.curr = b /\ g.blocks = f.blocks /\ g.nextId = f.nextId
<1> DEFINE g == At(f, b)
<1>1. f \in Function /\ b \in Nat
  BY LenProperties DEF IsGraph, HasEdges, Function
<1>2. g \in Function /\ g.curr = b /\ g.blocks = f.blocks /\ g.nextId = f.nextId
  BY <1>1 DEF At, Function
<1> HIDE DEF g
<1>3. IsGraph(g)
  BY <1>2 DEF IsGraph, HasEdges, EdgesInRange, PhisMatchPredecessors, EdgesAtBothEnds,
              SuccessorsAreTargets
<1> QED BY <1>2, <1>3 DEF g

LEMMA makeValueBuilds ==
  ASSUME NEW f, IsGraph(f)
  PROVE  LET g == makeValue(f)
         IN  IsGraph(g) /\ g.curr = f.curr /\ g.blocks = f.blocks /\ f.nextId \in Nat
<1> DEFINE g == makeValue(f)
<1>1. f \in Function
  BY DEF IsGraph, HasEdges
<1>2. g \in Function /\ g.curr = f.curr /\ g.blocks = f.blocks /\ f.nextId \in Nat
  BY <1>1 DEF makeValue, Function
<1> HIDE DEF g
<1>3. IsGraph(g)
  BY <1>2 DEF IsGraph, HasEdges, EdgesInRange, PhisMatchPredecessors, EdgesAtBothEnds,
              SuccessorsAreTargets
<1> QED BY <1>2, <1>3 DEF g

-----------------------------------------------------------------------------
(* Expressions.                                                            *)
\* Instructions added to the block being filled.
Emits(f, g) ==
  /\ IsGraph(g)
  /\ g.curr = f.curr
  /\ DOMAIN g.blocks = DOMAIN f.blocks
  /\ OnlyCurrChanged(f, g)
  /\ g.blocks[f.curr].term = f.blocks[f.curr].term
  /\ g.blocks[f.curr].preds = f.blocks[f.curr].preds
  /\ NoPhis(f.blocks[f.curr]) => NoPhis(g.blocks[f.curr])

LEMMA EmitsTwice ==
  ASSUME NEW f, NEW g, NEW h, Emits(f, g), Emits(g, h)
  PROVE  Emits(f, h)
BY DEF Emits, OnlyCurrChanged

\* What is emitted while an expression is evaluated is no phi.
LEMMA emitEmits ==
  ASSUME NEW f, IsGraph(f), NEW instruction \in Instruction, ~IsPhi(instruction)
  PROVE  Emits(f, emit(f, instruction))
<1> DEFINE g == emit(f, instruction)
           B == f.blocks[f.curr]
<1>1. /\ IsGraph(g)
      /\ SameShape(f, g)
      /\ OnlyCurrChanged(f, g)
      /\ g.blocks[f.curr] = [B EXCEPT !.code = Append(@, instruction)]
  BY emitBuilds
<1>2. f.curr \in DOMAIN f.blocks /\ B \in Block
  BY ElementOfSeq DEF IsGraph, HasEdges, Function
<1>3. B.code \in Seq(Instruction) /\ instruction \in Instruction
  BY <1>2 DEF Block
<1> HIDE DEF g
<1>4. /\ g.blocks[f.curr].code = Append(B.code, instruction)
      /\ g.blocks[f.curr].term = B.term
      /\ g.blocks[f.curr].preds = B.preds
  BY <1>1, <1>2 DEF Block
<1>5. ASSUME NoPhis(B)
      PROVE  NoPhis(g.blocks[f.curr])
  <2> SUFFICES ASSUME NEW k \in DOMAIN Append(B.code, instruction)
               PROVE  ~IsPhi(Append(B.code, instruction)[k])
    BY <1>4 DEF NoPhis
  <2>1. \/ k \in DOMAIN B.code /\ Append(B.code, instruction)[k] = B.code[k]
        \/ Append(B.code, instruction)[k] = instruction
    BY ONLY <1>3, AppendPlaces, k \in DOMAIN Append(B.code, instruction)
  <2> QED BY <1>5, <2>1 DEF NoPhis
<1>6. Emits(f, g)
  BY <1>1, <1>4, <1>5 DEF Emits, SameShape
<1> QED BY <1>6 DEF g

\* A fresh value and the instruction that makes it.
LEMMA ValueEmits ==
  ASSUME NEW f, IsGraph(f), NEW instruction \in Instruction, ~IsPhi(instruction)
  PROVE  Emits(f, emit(makeValue(f), instruction))
<1> DEFINE g == makeValue(f)
<1>1. IsGraph(g) /\ g.curr = f.curr /\ g.blocks = f.blocks
  BY makeValueBuilds
<1> HIDE DEF g
<1>2. Emits(g, emit(g, instruction))
  BY <1>1, emitEmits
<1>3. Emits(f, emit(g, instruction))
  BY <1>1, <1>2 DEF Emits, OnlyCurrChanged
<1> QED BY <1>3 DEF g

LEMMA visitDecidedEmits ==
  ASSUME NEW f, IsGraph(f), NEW op \in ShortCircuitOps, NEW left \in Operand, NEW where \in Seq(Nat)
  PROVE  LET v == visitDecided(f, op, left, where)
         IN  Emits(f, v.f) /\ v.last \in Operand
<1> DEFINE instruction == Instr(IF op = "&&" THEN "false" ELSE "true",
                                f.nextId, << >>, << >>, None, where)
<1>1. f.nextId \in Nat
  BY makeValueBuilds
<1>2. instruction \in Instruction /\ ~IsPhi(instruction)
  BY <1>1 DEF Instr, Instruction, IsPhi
<1>3. Value(f.nextId) \in Operand
  BY <1>1 DEF Operand
<1> HIDE DEF instruction
<1>4. Emits(f, emit(makeValue(f), instruction))
  BY <1>2, ValueEmits
<1>5. CASE op = "??"
  <2>1. Emits(f, f)
    BY DEF Emits, OnlyCurrChanged
  <2> QED BY <1>5, <2>1 DEF visitDecided, Evaluated
<1>6. CASE op # "??"
  BY <1>3, <1>4, <1>6 DEF visitDecided, Evaluated, instruction
<1> QED BY <1>5, <1>6

LEMMA visitOperationEmits ==
  ASSUME NEW f, IsGraph(f), NEW args \in Seq(Operand), NEW where \in Seq(Nat)
  PROVE  LET v == visitOperation(f, args, where)
         IN  Emits(f, v.f) /\ v.last \in Operand
<1> DEFINE instruction == Instr("op", f.nextId, args, << >>, None, where)
<1>1. f.nextId \in Nat
  BY makeValueBuilds
<1>2. instruction \in Instruction /\ ~IsPhi(instruction)
  BY <1>1 DEF Instr, Instruction, IsPhi
<1>3. Value(f.nextId) \in Operand
  BY <1>1 DEF Operand
<1> HIDE DEF instruction
<1>4. Emits(f, emit(makeValue(f), instruction))
  BY <1>2, ValueEmits
<1> QED BY <1>3, <1>4 DEF visitOperation, Evaluated, instruction

\* A definition is a bind, or a name for what the last instruction made.
LEMMA bindLocalDefinitionEmits ==
  ASSUME NEW f, IsGraph(f), NEW x \in Vars, NEW value \in Operand
  PROVE  Emits(f, bindLocalDefinition(f, x, value))
<1> DEFINE B == f.blocks[f.curr]
           C == [B EXCEPT !.defs = @ \union {x}]
           f1 == [f EXCEPT !.blocks[f.curr].defs = @ \union {x}]
           n == Len(f.blocks[f.curr].code)
           g == [f1 EXCEPT !.blocks[f.curr].code[n].sym = x]
           bind == Instr("bind", 0, <<value>>, << >>, x, << >>)
<1>1. f \in Function /\ f.curr \in DOMAIN f.blocks /\ B \in Block /\ f.blocks \in Seq(Block)
  BY ElementOfSeq DEF IsGraph, HasEdges, Function
<1>2. f1 = [f EXCEPT !.blocks = [f.blocks EXCEPT ![f.curr] = C]]
  BY <1>1 DEF Function
<1>3. /\ C \in Block
      /\ C.preds = B.preds
      /\ C.succs = B.succs
      /\ C.term = B.term
      /\ C.code = B.code
  BY <1>1 DEF Block
<1>4. \A k \in DOMAIN C.code : IsPhi(C.code[k]) => C.code[k].preds = C.preds
  BY <1>1, <1>3 DEF IsGraph, HasEdges, PhisMatchPredecessors
<1>5. C.term.targets = C.succs
  BY <1>1, <1>3 DEF IsGraph, SuccessorsAreTargets
<1> HIDE DEF C, f1
<1>6. /\ IsGraph(f1)
      /\ SameShape(f, f1)
      /\ OnlyCurrChanged(f, f1)
      /\ f1.blocks[f.curr] = C
  <2>1. /\ HasEdges(f1)
        /\ SameShape(f, f1)
        /\ OnlyCurrChanged(f, f1)
        /\ f1.blocks[f.curr] = C
        /\ SuccessorsAreTargets(f) /\ C.term.targets = C.succs => SuccessorsAreTargets(f1)
    BY <1>2, <1>3, <1>4, CurrReplaced DEF IsGraph
  <2> QED BY <1>5, <2>1 DEF IsGraph
<1>7. Emits(f, f1)
  BY <1>3, <1>6 DEF Emits, SameShape, NoPhis
<1>8. CASE IsRef(value)
  <2>1. bind \in Instruction /\ ~IsPhi(bind)
    BY DEF Instr, Instruction, IsPhi
  <2> HIDE DEF bind
  <2>2. Emits(f1, emit(f1, bind))
    BY <1>6, <2>1, emitEmits
  <2>3. bindLocalDefinition(f, x, value) = emit(f1, bind)
    BY <1>8 DEF bindLocalDefinition, f1, bind
  <2> QED BY <1>7, <2>2, <2>3, EmitsTwice
<1>9. CASE ~IsRef(value)
  <2> DEFINE code == [C.code EXCEPT ![n] = [C.code[n] EXCEPT !.sym = x]]
             D == [C EXCEPT !.code = code]
  <2>1. C.code \in Seq(Instruction) /\ Len(C.code) = n
    BY <1>3 DEF Block
  <2>2. n \in Nat /\ DOMAIN C.code = 1 .. n
    BY <2>1, LenProperties
  <2>3. /\ code \in Seq(Instruction)
        /\ DOMAIN code = DOMAIN C.code
        /\ \A k \in DOMAIN code : /\ IsPhi(code[k]) <=> IsPhi(C.code[k])
                                  /\ code[k].preds = C.code[k].preds
    <3> HIDE DEF n
    <3>1. CASE n = 0
      <4>1. DOMAIN C.code = {} /\ C.code = << >>
        BY <2>1, <2>2, <3>1, EmptySeq
      <4>2. code = << >>
        BY <4>1
      <4> QED BY <2>1, <4>1, <4>2
    <3>2. CASE n # 0
      <4>1. n \in DOMAIN C.code
        BY <2>2, <3>2
      <4>2. C.code[n] \in Instruction
        BY <2>1, <4>1, ElementOfSeq
      <4>3. /\ [C.code[n] EXCEPT !.sym = x] \in Instruction
            /\ [C.code[n] EXCEPT !.sym = x].op = C.code[n].op
            /\ [C.code[n] EXCEPT !.sym = x].preds = C.code[n].preds
        BY <4>2 DEF Instruction
      <4>4. code \in Seq(Instruction)
        BY <2>1, <4>1, <4>3, ExceptSeq
      <4>5. /\ DOMAIN code = DOMAIN C.code
            /\ code[n] = [C.code[n] EXCEPT !.sym = x]
            /\ \A k \in DOMAIN C.code : k # n => code[k] = C.code[k]
        BY <4>1
      <4> HIDE DEF code
      <4> QED BY <4>3, <4>4, <4>5 DEF IsPhi
    <3> QED BY <3>1, <3>2
  <2>4. g = [f1 EXCEPT !.blocks = [f1.blocks EXCEPT ![f1.curr] = D]]
    <3>1. f1.curr = f.curr /\ f1 \in Function /\ f1.curr \in DOMAIN f1.blocks
      BY <1>6 DEF SameShape, IsGraph, HasEdges
    <3>2. f1.blocks[f.curr] = C
      BY <1>6
    <3> HIDE DEF n
    <3> QED BY <1>3, <3>1, <3>2 DEF Function, Block
  <2> HIDE DEF code
  <2>5. /\ D \in Block
        /\ D.preds = C.preds
        /\ D.succs = C.succs
        /\ D.term = C.term
        /\ D.code = code
    BY <1>3, <2>3 DEF Block
  <2> HIDE DEF D, g
  <2>6. /\ \A k \in DOMAIN D.code : IsPhi(D.code[k]) => D.code[k].preds = D.preds
        /\ NoPhis(C) => NoPhis(D)
    BY <1>4, <2>3, <2>5 DEF NoPhis
  <2>7. /\ HasEdges(g)
        /\ SameShape(f1, g)
        /\ OnlyCurrChanged(f1, g)
        /\ g.blocks[f1.curr] = D
        /\ SuccessorsAreTargets(f1) /\ D.term.targets = D.succs => SuccessorsAreTargets(g)
    <3>1. f1.blocks[f1.curr] = C /\ HasEdges(f1)
      BY <1>6 DEF SameShape, IsGraph
    <3> QED BY <2>4, <2>5, <2>6, <3>1, CurrReplaced
  <2>8. Emits(f1, g)
    <3>1. f1.curr = f.curr /\ f1.blocks[f.curr] = C /\ SuccessorsAreTargets(f1)
      BY <1>6 DEF SameShape, IsGraph
    <3> QED BY <1>5, <2>5, <2>6, <2>7, <3>1 DEF Emits, SameShape, IsGraph
  <2>9. bindLocalDefinition(f, x, value) = g
    BY <1>9 DEF bindLocalDefinition, f1, g
  <2> QED BY <1>7, <2>8, <2>9, EmitsTwice
<1> QED BY <1>8, <1>9

\* What evaluating an expression does to a function: it ends the block that
\* was being filled or goes on filling it, and closes every block it makes but
\* the one it leaves off in.
Extends(f, g) ==
  /\ IsGraph(g)
  /\ IsOpen(g)
  /\ DOMAIN f.blocks \subseteq DOMAIN g.blocks
  /\ OnlyCurrChanged(f, g)
  /\ NoPhis(f.blocks[f.curr]) => NoPhis(g.blocks[f.curr])
  /\ g.curr = f.curr \/ g.curr \notin DOMAIN f.blocks
  /\ \A b \in DOMAIN g.blocks :
       g.blocks[b].term = Open => b = g.curr \/ b \in DOMAIN f.blocks \ {f.curr}

LEMMA EmitsExtends ==
  ASSUME NEW f, NEW g, IsOpen(f), Emits(f, g)
  PROVE  Extends(f, g)
BY DEF Extends, Emits, IsOpen, OnlyCurrChanged

LEMMA ExtendsTwice ==
  ASSUME NEW f, NEW g, NEW h, f.curr \in DOMAIN f.blocks, Extends(f, g), Extends(g, h)
  PROVE  Extends(f, h)
<1>1. /\ IsGraph(h)
      /\ IsOpen(h)
      /\ DOMAIN f.blocks \subseteq DOMAIN h.blocks
      /\ h.curr = f.curr \/ h.curr \notin DOMAIN f.blocks
  BY DEF Extends
<1>2. \A b \in DOMAIN f.blocks : b # f.curr => b \in DOMAIN g.blocks /\ b # g.curr
  BY DEF Extends
<1>3. OnlyCurrChanged(f, h)
  BY <1>2 DEF Extends, OnlyCurrChanged
<1>4. ASSUME NoPhis(f.blocks[f.curr])
      PROVE  NoPhis(h.blocks[f.curr])
  <2>1. NoPhis(g.blocks[f.curr]) /\ f.curr \in DOMAIN g.blocks
    BY <1>4 DEF Extends
  <2>2. CASE g.curr = f.curr
    BY <2>1, <2>2 DEF Extends
  <2>3. CASE g.curr # f.curr
    BY <2>1, <2>3 DEF Extends, OnlyCurrChanged
  <2> QED BY <2>2, <2>3
<1>5. ASSUME NEW b \in DOMAIN h.blocks, h.blocks[b].term = Open, b # h.curr
      PROVE  b \in DOMAIN f.blocks \ {f.curr}
  <2>1. b \in DOMAIN g.blocks /\ b # g.curr
    BY <1>5 DEF Extends
  <2>2. g.blocks[b].term = Open
    BY <1>5, <2>1 DEF Extends, OnlyCurrChanged
  <2> QED BY <2>1, <2>2 DEF Extends
<1> QED BY <1>1, <1>3, <1>4, <1>5 DEF Extends

\* A short circuit up to its right operand: its three blocks are there, the
\* merge block is empty, and for && the false block is too.
Begun(f, s, op) ==
  LET n == Len(f.blocks)
      g == s.f
  IN  /\ n \in Nat /\ DOMAIN f.blocks = 1 .. n
      /\ IsGraph(g)
      /\ IsOpen(g)
      /\ s.trueBlock = n + 1
      /\ s.decided \in Operand
      /\ DOMAIN g.blocks = 1 .. n + 3
      /\ OnlyCurrChanged(f, g)
      /\ NoPhis(f.blocks[f.curr]) => NoPhis(g.blocks[f.curr])
      /\ g.blocks[f.curr].term # Open
      /\ g.blocks[n + 3].term = Open /\ g.blocks[n + 3].code = << >>
      /\ op = "&&" => /\ g.curr = n + 1
                      /\ g.blocks[n + 2].term = Open /\ g.blocks[n + 2].code = << >>
                      /\ g.blocks[n + 3].preds = << >>
      /\ op # "&&" => /\ g.curr = n + 2
                      /\ g.blocks[n + 1].term # Open
                      /\ g.blocks[n + 3].preds = <<n + 1>>

LEMMA EmptyHasNoPhis ==
  ASSUME NEW B, B.code = << >>
  PROVE  NoPhis(B)
BY EmptyHolds DEF NoPhis

LEMMA EmptyBlockIs ==
  /\ EmptyBlock.code = << >>
  /\ EmptyBlock.term = Open
  /\ EmptyBlock.preds = << >>
BY DEF EmptyBlock

LEMMA beginShortCircuitBegins ==
  ASSUME NEW f, IsGraph(f), IsOpen(f), NEW op \in ShortCircuitOps, NEW left \in Operand,
         NEW where \in Seq(Nat)
  PROVE  Begun(f, beginShortCircuit(f, op, left, where), op)
<1> DEFINE n == Len(f.blocks)
           t == n + 1
           fb == t + 1
           mb == t + 2
           made == makeBlocks(f, 3)
           split == BranchTo(made, left, t, fb, where)
           branched == At(split, t)
           decided == visitDecided(branched, op, left, where)
           joined == JumpTo(decided.f, mb)
           s == beginShortCircuit(f, op, left, where)
<1>1. /\ IsGraph(made)
      /\ made.curr = f.curr
      /\ n \in Nat
      /\ DOMAIN f.blocks = 1 .. n
      /\ DOMAIN made.blocks = 1 .. n + 3
      /\ \A b \in 1 .. n : made.blocks[b] = f.blocks[b]
      /\ \A b \in n + 1 .. n + 3 : made.blocks[b] = EmptyBlock
  <2>1. BlocksAdded(f, made, 3)
    BY makeBlocksBuilds
  <2> HIDE DEF made
  <2> QED BY <2>1 DEF BlocksAdded
<1>2. f.curr \in 1 .. n
  BY <1>1 DEF IsGraph, HasEdges
<1> HIDE DEF made
<1> HIDE DEF n
<1>3. /\ t = n + 1 /\ fb = n + 2 /\ mb = n + 3
      /\ t \in 1 .. n + 3 /\ fb \in 1 .. n + 3 /\ mb \in 1 .. n + 3
      /\ t \in n + 1 .. n + 3 /\ fb \in n + 1 .. n + 3 /\ mb \in n + 1 .. n + 3
      /\ t # fb /\ mb # t /\ mb # fb
      /\ t \notin 1 .. n /\ fb \notin 1 .. n /\ mb \notin 1 .. n
      /\ \A b \in 1 .. n : b \in 1 .. n + 3
  BY <1>1
<1> HIDE DEF t, fb, mb
<1>4. /\ IsOpen(made)
      /\ made.blocks[t] = EmptyBlock
      /\ made.blocks[fb] = EmptyBlock
      /\ made.blocks[mb] = EmptyBlock
      /\ NoPhis(made.blocks[t]) /\ NoPhis(made.blocks[fb])
  BY <1>1, <1>2, <1>3, EmptyHasNoPhis, EmptyBlockIs DEF IsOpen
<1>5. Ended(made, split, {t, fb})
  BY <1>1, <1>3, <1>4, BranchToBuilds
<1> HIDE DEF split
<1>6. /\ IsGraph(split)
      /\ DOMAIN split.blocks = 1 .. n + 3
      /\ split.blocks[t].code = << >> /\ split.blocks[t].term = Open
      /\ split.blocks[fb].code = << >> /\ split.blocks[fb].term = Open
      /\ split.blocks[mb] = EmptyBlock
      /\ split.blocks[f.curr].term # Open
      /\ split.blocks[f.curr].code = f.blocks[f.curr].code
      /\ \A b \in 1 .. n : b # f.curr => split.blocks[b] = f.blocks[b]
  <2>1. IsGraph(split) /\ DOMAIN split.blocks = 1 .. n + 3 /\ split.blocks[f.curr].term # Open
    BY <1>1, <1>5 DEF Ended, SameShape
  <2>2. \A b \in 1 .. n + 3 : /\ split.blocks[b].code = made.blocks[b].code
                              /\ b # f.curr => split.blocks[b].term = made.blocks[b].term
                              /\ b \notin {t, fb, f.curr} => split.blocks[b] = made.blocks[b]
    BY <1>1, <1>5 DEF Ended
  <2>3. f.curr \in 1 .. n + 3 /\ f.curr # t /\ f.curr # fb /\ f.curr # mb
    BY <1>2, <1>3
  <2>4. /\ split.blocks[t].code = << >> /\ split.blocks[t].term = Open
        /\ split.blocks[fb].code = << >> /\ split.blocks[fb].term = Open
    BY <1>3, <1>4, <2>2, <2>3, EmptyBlockIs
  <2>5. split.blocks[mb] = EmptyBlock
    BY <1>3, <1>4, <2>2, <2>3
  <2>6. split.blocks[f.curr].code = f.blocks[f.curr].code
    BY <1>1, <1>2, <2>2, <2>3
  <2>7. ASSUME NEW b \in 1 .. n, b # f.curr
        PROVE  split.blocks[b] = f.blocks[b]
    <3>1. b \in 1 .. n + 3 /\ b # t /\ b # fb
      BY <1>3
    <3> QED BY <1>1, <2>2, <2>7, <3>1
  <2> QED BY <2>1, <2>4, <2>5, <2>6, <2>7
<1>7. IsGraph(branched) /\ branched.curr = t /\ branched.blocks = split.blocks
  BY <1>3, <1>6, AtBuilds
<1> HIDE DEF branched
<1>8. IsOpen(branched)
  BY <1>6, <1>7 DEF IsOpen
<1>9. CASE op = "&&"
  <2>1. s = [f |-> branched, trueBlock |-> t, decided |-> left]
    BY <1>9 DEF beginShortCircuit, branched, split, made, t, fb, mb, n
  <2>2. s.f = branched /\ s.trueBlock = t /\ s.decided = left
    BY <2>1
  <2> HIDE DEF s
  <2>3. /\ OnlyCurrChanged(f, s.f)
        /\ NoPhis(f.blocks[f.curr]) => NoPhis(s.f.blocks[f.curr])
    BY <1>1, <1>6, <1>7, <2>2 DEF OnlyCurrChanged, NoPhis
  <2>4. Begun(f, s, op)
    BY <1>1, <1>3, <1>6, <1>7, <1>8, <1>9, <2>2, <2>3, EmptyBlockIs DEF Begun, n
  <2> QED BY <2>4 DEF s
<1>10. CASE op # "&&"
  <2>1. Emits(branched, decided.f) /\ decided.last \in Operand
    BY <1>7, visitDecidedEmits
  <2>2. s = [f |-> At(joined, fb), trueBlock |-> t, decided |-> decided.last]
    BY <1>10 DEF beginShortCircuit, joined, decided, branched, split, made, t, fb, mb, n
  <2>3. s.f = At(joined, fb) /\ s.trueBlock = t /\ s.decided = decided.last
    BY <2>2
  <2> HIDE DEF s, decided
  <2>4. /\ IsGraph(decided.f)
        /\ decided.f.curr = t
        /\ DOMAIN decided.f.blocks = 1 .. n + 3
        /\ \A b \in 1 .. n + 3 : b # t => decided.f.blocks[b] = split.blocks[b]
        /\ IsOpen(decided.f)
    BY <1>6, <1>7, <1>8, <2>1 DEF Emits, OnlyCurrChanged, IsOpen
  <2>5. NoPhis(decided.f.blocks[mb])
    BY <1>3, <1>6, <2>4, EmptyHasNoPhis, EmptyBlockIs
  <2>6. Ended(decided.f, joined, {mb}) /\ joined.blocks[mb].preds = Append(<< >>, t)
    <3>1. decided.f.blocks[mb].preds = << >>
      BY <1>3, <1>6, <2>4, EmptyBlockIs
    <3>2. mb \in DOMAIN decided.f.blocks
      BY <1>3, <2>4
    <3>3. Ended(decided.f, joined, {mb})
          /\ joined.blocks[mb].preds = Append(decided.f.blocks[mb].preds, decided.f.curr)
      BY <2>4, <2>5, <3>2, JumpToBuilds
    <3> QED BY <2>4, <3>1, <3>3
  <2> HIDE DEF joined
  <2>7. /\ IsGraph(joined)
        /\ DOMAIN joined.blocks = 1 .. n + 3
        /\ joined.blocks[t].term # Open
        /\ joined.blocks[fb].term = Open
        /\ joined.blocks[mb].code = << >> /\ joined.blocks[mb].term = Open
        /\ joined.blocks[mb].preds = <<t>>
        /\ joined.blocks[f.curr] = split.blocks[f.curr]
        /\ \A b \in 1 .. n : b # f.curr => joined.blocks[b] = f.blocks[b]
    <3>1. IsGraph(joined) /\ DOMAIN joined.blocks = 1 .. n + 3 /\ joined.blocks[t].term # Open
      BY <2>4, <2>6 DEF Ended, SameShape
    <3>2. \A b \in 1 .. n + 3 : b \notin {t, mb} => joined.blocks[b] = split.blocks[b]
      BY <2>4, <2>6 DEF Ended
    <3>3. joined.blocks[fb].term = Open
      BY <1>3, <1>6, <3>2
    <3>4. joined.blocks[mb].code = << >> /\ joined.blocks[mb].term = Open
      <4>1. decided.f.blocks[mb] = EmptyBlock /\ decided.f.curr # mb
        BY <1>3, <1>6, <2>4
      <4>2. mb \in DOMAIN decided.f.blocks
        BY <1>3, <2>4
      <4>3. /\ joined.blocks[mb].code = decided.f.blocks[mb].code
            /\ joined.blocks[mb].term = decided.f.blocks[mb].term
        BY <2>6, <4>1, <4>2 DEF Ended
      <4> QED BY <4>1, <4>3, EmptyBlockIs
    <3>5. joined.blocks[mb].preds = <<t>>
      BY <2>6, OneAppended
    <3> QED BY <1>2, <1>3, <1>6, <3>1, <3>2, <3>3, <3>4, <3>5
  <2>8. IsGraph(s.f) /\ s.f.curr = fb /\ s.f.blocks = joined.blocks
    <3>1. fb \in DOMAIN joined.blocks
      BY <1>3, <2>7
    <3>2. /\ IsGraph(At(joined, fb)) /\ At(joined, fb).curr = fb
          /\ At(joined, fb).blocks = joined.blocks
      BY <2>7, <3>1, AtBuilds
    <3> QED BY <2>3, <3>2
  <2>9. /\ OnlyCurrChanged(f, s.f)
        /\ NoPhis(f.blocks[f.curr]) => NoPhis(s.f.blocks[f.curr])
    <3>1. OnlyCurrChanged(f, s.f)
      BY <1>1, <2>7, <2>8 DEF OnlyCurrChanged
    <3>2. s.f.blocks[f.curr].code = f.blocks[f.curr].code
      BY <1>6, <2>7, <2>8
    <3> QED BY <3>1, <3>2 DEF NoPhis
  <2>10. Begun(f, s, op)
    BY <1>1, <1>3, <1>6, <1>10, <2>1, <2>3, <2>7, <2>8, <2>9 DEF Begun, IsOpen, n
  <2> QED BY <2>10 DEF s
<1> QED BY <1>9, <1>10

\* A short circuit with its right operand, whatever that emitted.
LEMMA endShortCircuitExtends ==
  ASSUME NEW f, IsGraph(f), IsOpen(f), NEW s, NEW op \in ShortCircuitOps, Begun(f, s, op),
         NEW right, Extends(s.f, right.f), right.last \in Operand, NEW where \in Seq(Nat)
  PROVE  LET v == endShortCircuit(s, right, op, where)
         IN  Extends(f, v.f) /\ v.last \in Operand
<1> DEFINE n == Len(f.blocks)
           t == s.trueBlock
           fb == t + 1
           mb == t + 2
           g == right.f
           joined == JumpTo(g, mb)
           atFalse == At(joined, fb)
           decided == visitDecided(atFalse, op, s.decided, where)
           merged == At(IF op = "&&" THEN JumpTo(decided.f, mb) ELSE joined, mb)
           phi == IF op = "&&"
                  THEN Instr("phi", merged.nextId, <<right.last, decided.last>>,
                             <<g.curr, fb>>, None, where)
                  ELSE Instr("phi", merged.nextId, <<s.decided, right.last>>,
                             <<t, g.curr>>, None, where)
           v == endShortCircuit(s, right, op, where)
           last == emit(makeValue(merged), phi)
<1>1. /\ n \in Nat /\ DOMAIN f.blocks = 1 .. n
      /\ IsGraph(s.f)
      /\ t = n + 1
      /\ s.decided \in Operand
      /\ DOMAIN s.f.blocks = 1 .. n + 3
      /\ OnlyCurrChanged(f, s.f)
      /\ NoPhis(f.blocks[f.curr]) => NoPhis(s.f.blocks[f.curr])
      /\ s.f.blocks[f.curr].term # Open
      /\ s.f.blocks[n + 3].term = Open /\ s.f.blocks[n + 3].code = << >>
  BY DEF Begun
<1>2. /\ op = "&&" => /\ s.f.curr = n + 1
                      /\ s.f.blocks[n + 2].term = Open /\ s.f.blocks[n + 2].code = << >>
                      /\ s.f.blocks[n + 3].preds = << >>
      /\ op # "&&" => /\ s.f.curr = n + 2
                      /\ s.f.blocks[n + 1].term # Open
                      /\ s.f.blocks[n + 3].preds = <<n + 1>>
  BY EmptyBlockIs DEF Begun
<1>3. v = [f |-> last, last |-> Value(merged.nextId)]
  BY DEF endShortCircuit, Evaluated
<1> HIDE DEF v
<1>4. f.curr \in 1 .. n
  BY <1>1 DEF IsGraph, HasEdges
<1> HIDE DEF n
<1>5. /\ t = n + 1 /\ fb = n + 2 /\ mb = n + 3
      /\ t \in 1 .. n + 3 /\ fb \in 1 .. n + 3 /\ mb \in 1 .. n + 3
      /\ t # fb /\ mb # t /\ mb # fb
      /\ t \notin 1 .. n /\ fb \notin 1 .. n /\ mb \notin 1 .. n
      /\ \A b \in 1 .. n : b \in 1 .. n + 3
      /\ \A b \in 1 .. n + 3 : b \in 1 .. n \/ b \in {t, fb, mb}
      /\ t \in Nat /\ fb \in Nat /\ mb \in Nat
  <2>1. n \in Nat /\ t = n + 1 /\ fb = n + 2 /\ mb = n + 3
    BY <1>1
  <2> HIDE DEF t, fb, mb
  <2> QED BY ONLY <2>1
<1>6. s.f.curr \in {t, fb}
  BY <1>2, <1>5
<1> HIDE DEF t, fb, mb, g
<1>7. /\ IsGraph(g) /\ IsOpen(g)
      /\ 1 .. n + 3 \subseteq DOMAIN g.blocks
      /\ \A b \in 1 .. n + 3 : b # s.f.curr => g.blocks[b] = s.f.blocks[b]
      /\ g.curr = s.f.curr \/ g.curr \notin 1 .. n + 3
      /\ g.curr \in DOMAIN g.blocks
      /\ \A b \in DOMAIN g.blocks :
           g.blocks[b].term = Open => b = g.curr \/ b \in 1 .. n + 3 \ {s.f.curr}
  BY <1>1 DEF Extends, OnlyCurrChanged, g, IsGraph, HasEdges
<1>8. /\ g.blocks[mb] = s.f.blocks[mb]
      /\ g.blocks[mb].term = Open /\ g.blocks[mb].code = << >>
      /\ mb \in DOMAIN g.blocks /\ fb \in DOMAIN g.blocks
      /\ g.curr # mb
  BY <1>1, <1>5, <1>6, <1>7
<1>9. /\ Ended(g, joined, {mb})
      /\ joined.blocks[mb].preds = Append(g.blocks[mb].preds, g.curr)
  <2>1. NoPhis(g.blocks[mb])
    BY <1>8, EmptyHasNoPhis
  <2> QED BY <1>7, <1>8, <2>1, JumpToBuilds
<1> HIDE DEF joined
<1>10. /\ IsGraph(joined)
       /\ DOMAIN joined.blocks = DOMAIN g.blocks
       /\ joined.blocks[g.curr].term # Open
       /\ joined.blocks[mb].code = << >> /\ joined.blocks[mb].term = Open
       /\ \A b \in DOMAIN g.blocks : b \notin {g.curr, mb} => joined.blocks[b] = g.blocks[b]
       /\ \A b \in DOMAIN g.blocks : joined.blocks[b].code = g.blocks[b].code
  <2>1. /\ IsGraph(joined) /\ DOMAIN joined.blocks = DOMAIN g.blocks
        /\ joined.blocks[g.curr].term # Open
    BY <1>9 DEF Ended, SameShape
  <2>2. joined.blocks[mb].code = << >> /\ joined.blocks[mb].term = Open
    BY <1>8, <1>9 DEF Ended
  <2>3. \A b \in DOMAIN g.blocks : b \notin {g.curr, mb} => joined.blocks[b] = g.blocks[b]
    BY <1>9 DEF Ended
  <2>4. \A b \in DOMAIN g.blocks : joined.blocks[b].code = g.blocks[b].code
    BY <1>9 DEF Ended
  <2> QED BY <2>1, <2>2, <2>3, <2>4
\* What comes before the phi.
<1> DEFINE Joined(h) ==
             /\ IsGraph(h)
             /\ h.curr = mb
             /\ DOMAIN h.blocks = DOMAIN g.blocks
             /\ h.blocks[mb].term = Open
             /\ \A b \in 1 .. n : h.blocks[b] = g.blocks[b]
             /\ \A b \in DOMAIN g.blocks : h.blocks[b].term = Open => b \in 1 .. n \/ b = mb
<1>11. /\ Joined(merged)
       /\ phi \in Instruction
       /\ phi.preds = merged.blocks[mb].preds
  <2>1. CASE op = "&&"
    <3>1. /\ s.f.curr = t
          /\ s.f.blocks[fb].term = Open /\ s.f.blocks[fb].code = << >>
          /\ s.f.blocks[mb].preds = << >>
      BY <1>2, <1>5, <2>1
    <3>2. fb # g.curr
      BY <1>5, <1>7, <3>1
    <3>3. IsGraph(atFalse) /\ atFalse.curr = fb /\ atFalse.blocks = joined.blocks
      BY <1>8, <1>10, AtBuilds
    <3> HIDE DEF atFalse
    <3>4. joined.blocks[fb] = s.f.blocks[fb]
      BY <1>5, <1>7, <1>8, <1>10, <3>1, <3>2
    <3>5. Emits(atFalse, decided.f) /\ decided.last \in Operand
      BY <1>1, <3>3, visitDecidedEmits
    <3> DEFINE h == decided.f
    <3>6. decided.last \in Operand /\ Emits(atFalse, h)
      BY <3>5
    <3> HIDE DEF decided, h
    <3>7. /\ IsGraph(h) /\ h.curr = fb
          /\ DOMAIN h.blocks = DOMAIN g.blocks
          /\ \A b \in DOMAIN g.blocks : b # fb => h.blocks[b] = joined.blocks[b]
          /\ IsOpen(h)
      BY <1>10, <3>1, <3>3, <3>4, <3>6 DEF Emits, OnlyCurrChanged, IsOpen
    <3>8. /\ h.blocks[mb] = joined.blocks[mb]
          /\ NoPhis(h.blocks[mb])
          /\ mb \in DOMAIN h.blocks
      BY <1>5, <1>8, <1>10, <3>7, EmptyHasNoPhis
    <3> DEFINE k == JumpTo(h, mb)
    <3>9. /\ Ended(h, k, {mb})
          /\ k.blocks[mb].preds = Append(h.blocks[mb].preds, fb)
      <4>1. /\ Ended(h, k, {mb})
            /\ k.blocks[mb].preds = Append(h.blocks[mb].preds, h.curr)
        BY <3>7, <3>8, JumpToBuilds
      <4> QED BY <3>7, <4>1
    <3> HIDE DEF k
    <3>10. /\ IsGraph(k) /\ DOMAIN k.blocks = DOMAIN g.blocks
           /\ k.blocks[fb].term # Open
           /\ k.blocks[mb].term = Open
           /\ \A b \in DOMAIN g.blocks : b \notin {fb, mb} => k.blocks[b] = joined.blocks[b]
      <4>1. IsGraph(k) /\ DOMAIN k.blocks = DOMAIN g.blocks /\ k.blocks[fb].term # Open
        BY <3>7, <3>9 DEF Ended, SameShape
      <4>2. k.blocks[mb].term = Open
        BY <1>5, <1>10, <3>7, <3>8, <3>9 DEF Ended
      <4>3. \A b \in DOMAIN g.blocks : b \notin {fb, mb} => k.blocks[b] = h.blocks[b]
        BY <3>7, <3>9 DEF Ended
      <4> QED BY <3>7, <4>1, <4>2, <4>3
    <3>11. k.blocks[mb].preds = <<g.curr, fb>>
      <4>1. joined.blocks[mb].preds = <<g.curr>>
        BY <1>8, <1>9, <3>1, OneAppended
      <4> QED BY <3>8, <3>9, <4>1, OneAppended
    <3>12. merged = At(k, mb)
      BY <2>1 DEF k, h, decided, atFalse
    <3> HIDE DEF merged
    <3>13. IsGraph(merged) /\ merged.curr = mb /\ merged.blocks = k.blocks
      <4>1. mb \in DOMAIN k.blocks
        BY <1>8, <3>10
      <4> QED BY <3>10, <3>12, <4>1, AtBuilds
    <3>14. \A b \in 1 .. n : k.blocks[b] = g.blocks[b]
      <4> SUFFICES ASSUME NEW b \in 1 .. n
                   PROVE  k.blocks[b] = g.blocks[b]
        OBVIOUS
      <4>1. b \in 1 .. n + 3 /\ b # fb /\ b # mb /\ b # t
        BY <1>5
      <4>2. b \in DOMAIN g.blocks /\ b # g.curr
        BY <1>7, <3>1, <4>1
      <4> QED BY <1>10, <3>10, <4>1, <4>2
    <3>15. ASSUME NEW b \in DOMAIN g.blocks, k.blocks[b].term = Open
           PROVE  b \in 1 .. n \/ b = mb
      <4>1. CASE b \notin {fb, mb, g.curr}
        <5>1. g.blocks[b].term = Open
          BY <1>10, <3>10, <3>15, <4>1
        <5>2. b \in 1 .. n + 3 /\ b # t
          BY <1>7, <3>1, <4>1, <5>1
        <5> QED BY <1>5, <4>1, <5>2
      <4>2. CASE b = g.curr
        BY <1>8, <1>10, <3>2, <3>10, <3>15, <4>2
      <4> QED BY <3>10, <3>15, <4>1, <4>2
    <3>16. Joined(merged)
      BY <3>10, <3>13, <3>14, <3>15
    <3>17. merged.nextId \in Nat /\ g.curr \in Nat
      <4>1. IsGraph(merged) /\ IsGraph(g)
        BY <1>7, <3>13
      <4> QED BY <4>1 DEF IsGraph, HasEdges, Function
    <3>18. phi = Instr("phi", merged.nextId, <<right.last, decided.last>>,
                       <<g.curr, fb>>, None, where)
      BY <2>1
    <3> HIDE DEF phi, Joined
    <3>19. phi \in Instruction /\ phi.preds = <<g.curr, fb>>
      BY <1>5, <3>6, <3>17, <3>18 DEF Instr, Instruction
    <3> QED BY <3>11, <3>13, <3>16, <3>19
  <2>2. CASE op # "&&"
    <3>1. /\ s.f.curr = fb
          /\ s.f.blocks[t].term # Open
          /\ s.f.blocks[mb].preds = <<t>>
      BY <1>2, <1>5, <2>2
    <3>2. merged = At(joined, mb)
      BY <2>2
    <3> HIDE DEF merged
    <3>3. IsGraph(merged) /\ merged.curr = mb /\ merged.blocks = joined.blocks
      <4>1. mb \in DOMAIN joined.blocks
        BY <1>8, <1>10
      <4> QED BY <1>10, <3>2, <4>1, AtBuilds
    <3>4. joined.blocks[mb].preds = <<t, g.curr>>
      BY <1>8, <1>9, <3>1, OneAppended
    <3>5. \A b \in 1 .. n : joined.blocks[b] = g.blocks[b]
      <4> SUFFICES ASSUME NEW b \in 1 .. n
                   PROVE  joined.blocks[b] = g.blocks[b]
        OBVIOUS
      <4>1. b \in 1 .. n + 3 /\ b # fb /\ b # mb
        BY <1>5
      <4>2. b \in DOMAIN g.blocks /\ b # g.curr
        BY <1>7, <3>1, <4>1
      <4> QED BY <1>10, <4>1, <4>2
    <3>6. ASSUME NEW b \in DOMAIN g.blocks, joined.blocks[b].term = Open
          PROVE  b \in 1 .. n \/ b = mb
      <4>1. CASE b \notin {mb, g.curr}
        <5>1. g.blocks[b].term = Open
          BY <1>10, <3>6, <4>1
        <5>2. b \in 1 .. n + 3 /\ b # fb
          BY <1>7, <3>1, <4>1, <5>1
        <5>3. b # t
          BY <1>5, <1>7, <3>1, <5>1
        <5> QED BY <1>5, <4>1, <5>2, <5>3
      <4>2. CASE b = g.curr
        BY <1>10, <3>6, <4>2
      <4> QED BY <4>1, <4>2
    <3>7. Joined(merged)
      BY <1>10, <3>3, <3>5, <3>6
    <3>8. merged.nextId \in Nat /\ g.curr \in Nat
      <4>1. IsGraph(merged) /\ IsGraph(g)
        BY <1>7, <3>3
      <4> QED BY <4>1 DEF IsGraph, HasEdges, Function
    <3>9. phi = Instr("phi", merged.nextId, <<s.decided, right.last>>,
                      <<t, g.curr>>, None, where)
      BY <2>2
    <3> HIDE DEF phi, Joined
    <3>10. phi \in Instruction /\ phi.preds = <<t, g.curr>>
      BY <1>1, <1>5, <3>8, <3>9 DEF Instr, Instruction
    <3> QED BY <3>3, <3>4, <3>7, <3>10
  <2> QED BY <2>1, <2>2
<1> HIDE DEF phi, merged
<1>12. /\ IsGraph(makeValue(merged)) /\ makeValue(merged).curr = mb
       /\ makeValue(merged).blocks = merged.blocks
       /\ merged.nextId \in Nat
  BY <1>11, makeValueBuilds
<1>13. /\ IsGraph(last)
       /\ last.curr = mb
       /\ DOMAIN last.blocks = DOMAIN g.blocks
       /\ \A b \in DOMAIN g.blocks : b # mb => last.blocks[b] = merged.blocks[b]
       /\ last.blocks[mb].term = Open
  <2> DEFINE m == makeValue(merged)
  <2> HIDE DEF m
  <2>1. /\ IsGraph(m) /\ m.curr = mb /\ m.blocks = merged.blocks
    BY <1>12 DEF m
  <2>2. /\ IsGraph(emit(m, phi))
        /\ SameShape(m, emit(m, phi))
        /\ OnlyCurrChanged(m, emit(m, phi))
        /\ emit(m, phi).blocks[m.curr] = [m.blocks[m.curr] EXCEPT !.code = Append(@, phi)]
    <3>1. phi \in Instruction /\ phi.preds = m.blocks[m.curr].preds
      BY <1>11, <2>1
    <3> QED BY <2>1, <3>1, emitBuilds
  <2>3. last = emit(m, phi)
    BY DEF m
  <2> HIDE DEF last
  <2>4. m.blocks[mb] \in Block
    BY <1>8, <1>11, <2>1, ElementOfSeq DEF IsGraph, HasEdges, Function
  <2>5. last.blocks[mb].term = m.blocks[mb].term
    BY <2>1, <2>2, <2>3, <2>4 DEF Block
  <2> QED BY <1>11, <2>1, <2>2, <2>3, <2>5 DEF SameShape, OnlyCurrChanged
<1> HIDE DEF last
<1>14. Extends(f, last)
  <2>1. ASSUME NEW b \in 1 .. n
        PROVE  /\ b \in DOMAIN last.blocks
               /\ last.blocks[b] = s.f.blocks[b]
    <3>1. b \in 1 .. n + 3 /\ b # mb /\ b # s.f.curr /\ b \in DOMAIN g.blocks
      BY <1>5, <1>6, <1>7
    <3>2. last.blocks[b] = g.blocks[b]
      BY <1>11, <1>13, <3>1
    <3> QED BY <1>7, <1>13, <3>1, <3>2
  <2>2. OnlyCurrChanged(f, last)
    BY <1>1, <2>1 DEF OnlyCurrChanged
  <2>3. NoPhis(f.blocks[f.curr]) => NoPhis(last.blocks[f.curr])
    BY <1>1, <1>4, <2>1
  <2>4. ASSUME NEW b \in DOMAIN last.blocks, last.blocks[b].term = Open, b # mb
        PROVE  b \in 1 .. n /\ b # f.curr
    <3>1. merged.blocks[b].term = Open /\ b \in DOMAIN g.blocks
      BY <1>13, <2>4
    <3>2. b \in 1 .. n
      BY <1>11, <2>4, <3>1
    <3> QED BY <1>1, <1>4, <2>1, <2>4, <3>2
  <2>5. IsOpen(last) /\ last.curr \notin 1 .. n
    BY <1>5, <1>13 DEF IsOpen
  <2> QED BY <1>1, <1>13, <2>1, <2>2, <2>3, <2>4, <2>5 DEF Extends
<1>15. Value(merged.nextId) \in Operand
  BY <1>12 DEF Operand
<1> QED BY <1>3, <1>14, <1>15 DEF v

\* The expressions a dialect can have.
ReadExpr == [kind : {"variable"}, left : Vars]
ShortExpr == [kind : {"short"}, op : ShortCircuitOps, left : Vars, right : ReadExpr]
NestedExpr == [kind : {"nested"}, op : ShortCircuitOps, left : Vars, right : ShortExpr]
Expr == [kind : {"constant"}] \union ReadExpr \union [kind : {"operation", "increment"}, left : Vars]
          \union [kind : {"assignment"}, left : Vars, right : Vars] \union ShortExpr \union NestedExpr

LEMMA RefIsOperand == \A x \in Vars : Ref(x) \in Operand
BY DEF Operand

LEMMA visitShortExtends ==
  ASSUME NEW f, IsGraph(f), IsOpen(f), NEW e \in ShortExpr, NEW where \in Seq(Nat)
  PROVE  LET v == visitShort(f, e, where)
         IN  Extends(f, v.f) /\ v.last \in Operand
<1> DEFINE s == beginShortCircuit(f, e.op, Ref(e.left), where)
           right == Evaluated(s.f, Ref(e.right.left))
<1>1. e.op \in ShortCircuitOps /\ Ref(e.left) \in Operand /\ Ref(e.right.left) \in Operand
  BY RefIsOperand DEF ShortExpr, ReadExpr
<1>2. Begun(f, s, e.op)
  BY <1>1, beginShortCircuitBegins
<1>3. right.f = s.f /\ right.last = Ref(e.right.left)
  BY DEF Evaluated
<1> HIDE DEF s
<1>4. Emits(s.f, s.f) /\ IsOpen(s.f)
  BY <1>2 DEF Begun, Emits, OnlyCurrChanged
<1>5. Extends(s.f, right.f) /\ right.last \in Operand
  BY <1>1, <1>3, <1>4, EmitsExtends
<1> HIDE DEF right
<1>6. LET v == endShortCircuit(s, right, e.op, where)
      IN  Extends(f, v.f) /\ v.last \in Operand
  BY <1>1, <1>2, <1>5, endShortCircuitExtends
<1> QED BY <1>6 DEF visitShort, s, right

LEMMA visitNestedExtends ==
  ASSUME NEW f, IsGraph(f), IsOpen(f), NEW e \in NestedExpr, NEW t \in Nat
  PROVE  LET v == visitNested(f, e, <<t, 1>>)
         IN  Extends(f, v.f) /\ v.last \in Operand
<1> DEFINE where == <<t, 1>>
           s == beginShortCircuit(f, e.op, Ref(e.left), where)
           right == visitShort(s.f, e.right, <<t, 3>>)
<1>1. e.op \in ShortCircuitOps /\ Ref(e.left) \in Operand /\ e.right \in ShortExpr
  BY RefIsOperand DEF NestedExpr
<1>2. where \in Seq(Nat) /\ <<t, 3>> \in Seq(Nat) /\ where[1] = t
  OBVIOUS
<1> HIDE DEF where
<1>3. Begun(f, s, e.op)
  BY <1>1, <1>2, beginShortCircuitBegins
<1> HIDE DEF s
<1>4. IsGraph(s.f) /\ IsOpen(s.f)
  BY <1>3 DEF Begun
<1>5. Extends(s.f, right.f) /\ right.last \in Operand
  BY <1>1, <1>2, <1>4, visitShortExtends
<1>6. visitNested(f, e, where) = endShortCircuit(s, right, e.op, where)
  BY <1>2 DEF visitNested, s, right
<1> HIDE DEF right
<1>7. LET v == endShortCircuit(s, right, e.op, where)
      IN  Extends(f, v.f) /\ v.last \in Operand
  BY <1>1, <1>2, <1>3, <1>5, endShortCircuitExtends
<1> QED BY <1>6, <1>7 DEF where

\* Evaluating any expression.
LEMMA lowerExtends ==
  ASSUME NEW f, IsGraph(f), IsOpen(f), NEW e \in Expr, NEW t \in Nat
  PROVE  LET v == lower(f, e, t)
         IN  Extends(f, v.f) /\ v.last \in Operand
<1> DEFINE v == lower(f, e, t)
<1>1. <<t, 1>> \in Seq(Nat) /\ << >> \in Seq(Operand)
  OBVIOUS
<1>2. CASE e \in [kind : {"constant"}]
  <2>1. v = visitOperation(f, << >>, <<t, 1>>)
    BY <1>2 DEF lower
  <2>2. Emits(f, v.f) /\ v.last \in Operand
    BY <1>1, <2>1, visitOperationEmits
  <2> QED BY <2>2, EmitsExtends
<1>3. CASE e \in ReadExpr
  <2>1. v = Evaluated(f, Ref(e.left)) /\ Ref(e.left) \in Operand
    BY <1>3, RefIsOperand DEF lower, ReadExpr
  <2>2. Emits(f, f)
    BY DEF Emits, OnlyCurrChanged
  <2>3. v.f = f /\ v.last = Ref(e.left)
    BY <2>1 DEF Evaluated
  <2> QED BY <2>1, <2>2, <2>3, EmitsExtends
<1>4. CASE e \in [kind : {"operation", "increment"}, left : Vars]
  <2> DEFINE u == visitOperation(f, <<Ref(e.left)>>, <<t, 1>>)
  <2>1. e.left \in Vars /\ Ref(e.left) \in Operand /\ <<Ref(e.left)>> \in Seq(Operand)
    BY <1>4, RefIsOperand
  <2>2. Emits(f, u.f) /\ u.last \in Operand
    BY <1>1, <2>1, visitOperationEmits
  <2>3. CASE e.kind = "operation"
    <3>1. v = u
      BY <2>3 DEF lower
    <3> QED BY <2>2, <3>1, EmitsExtends
  <2>4. CASE e.kind = "increment"
    <3>1. v = Evaluated(bindLocalDefinition(u.f, e.left, u.last), Ref(e.left))
      BY <2>4 DEF lower, visitPostIncrement
    <3>2. v.f = bindLocalDefinition(u.f, e.left, u.last) /\ v.last = Ref(e.left)
      BY <3>1 DEF Evaluated
    <3>3. Emits(u.f, v.f)
      <4>1. IsGraph(u.f)
        BY <2>2 DEF Emits
      <4> HIDE DEF u
      <4> QED BY <2>1, <2>2, <3>2, <4>1, bindLocalDefinitionEmits
    <3>4. Emits(f, v.f)
      BY <2>2, <3>3, EmitsTwice
    <3> QED BY <2>1, <3>2, <3>4, EmitsExtends
  <2> QED BY <1>4, <2>3, <2>4
<1>5. CASE e \in [kind : {"assignment"}, left : Vars, right : Vars]
  <2> DEFINE u == visitOperation(f, <<Ref(e.left)>>, <<t, 1>>)
  <2>1. e.right \in Vars /\ Ref(e.left) \in Operand /\ <<Ref(e.left)>> \in Seq(Operand)
    BY <1>5, RefIsOperand
  <2>2. Emits(f, u.f) /\ u.last \in Operand
    BY <1>1, <2>1, visitOperationEmits
  <2>3. v = Evaluated(bindLocalDefinition(u.f, e.right, u.last), u.last)
    BY <1>5 DEF lower, visitAssignment
  <2>4. v.f = bindLocalDefinition(u.f, e.right, u.last) /\ v.last = u.last
    BY <2>3 DEF Evaluated
  <2>5. Emits(u.f, v.f)
    <3>1. IsGraph(u.f)
      BY <2>2 DEF Emits
    <3> HIDE DEF u
    <3> QED BY <2>1, <2>2, <2>4, <3>1, bindLocalDefinitionEmits
  <2>6. Emits(f, v.f)
    BY <2>2, <2>5, EmitsTwice
  <2> QED BY <2>2, <2>4, <2>6, EmitsExtends
<1>6. CASE e \in ShortExpr
  <2>1. v = visitShort(f, e, <<t, 1>>)
    BY <1>6 DEF lower, ShortExpr
  <2> QED BY <1>1, <1>6, <2>1, visitShortExtends
<1>7. CASE e \in NestedExpr
  <2>1. v = visitNested(f, e, <<t, 1>>)
    BY <1>7 DEF lower, NestedExpr
  <2> QED BY <1>7, <2>1, visitNestedExtends
<1> QED BY <1>2, <1>3, <1>4, <1>5, <1>6, <1>7 DEF Expr

-----------------------------------------------------------------------------
(* The invariant of building.                                              *)
TokenKinds == {"assign", "expression", "if", "else", "end if", "while", "end while",
               "break", "continue", "return", "dead"}
Tokens ==
  [kind : TokenKinds, x : Vars \union {None}, e : Expr \union {<< >>}, end : Nat, alt : Nat, up : Nat,
   declares : SUBSET Vars, visible : BOOLEAN]
Construct == [kind : {"then", "last", "while"}, token : Nat, next : Nat, merge : Nat, cond : Nat]

\* The blocks an open construct will jump to or fill, none of which has a phi.
Target(c) == {c.merge} \union (IF c.kind = "while" THEN {c.cond} ELSE {})
Unfilled(c) == {c.merge} \union (IF c.kind = "then" THEN {c.next} ELSE {})

TargetsAwait(f, cs) ==
  \A i \in DOMAIN cs : /\ Target(cs[i]) \union Unfilled(cs[i]) \subseteq DOMAIN f.blocks
                       /\ \A b \in Target(cs[i]) : NoPhis(f.blocks[b])
OnlyUnfilledAreOpen(f, cs) ==
  \A b \in DOMAIN f.blocks :
    f.blocks[b].term = Open => b = f.curr \/ \E i \in DOMAIN cs : b \in Unfilled(cs[i])
Closed(f) == \A b \in DOMAIN f.blocks : f.blocks[b].term # Open

BuilderTypes ==
  /\ dialect \in Dialects
  /\ prog \in Seq(Tokens)
  /\ open \in Seq(Construct)
BuilderInv ==
  /\ BuilderTypes
  /\ phase \in {"build", "dominators", "phis"} => IsGraph(fn)
  /\ phase = "build" => TargetsAwait(fn, open) /\ OnlyUnfilledAreOpen(fn, open)
  /\ phase \in {"dominators", "phis"} => Closed(fn)

\* What a statement may do to the function: blocks keep what they have, and an
\* open one is the current one, was pending or is among `fresh'.
Advances(f, g, fresh) ==
  /\ IsGraph(g)
  /\ DOMAIN f.blocks \subseteq DOMAIN g.blocks
  /\ \A b \in DOMAIN f.blocks : NoPhis(f.blocks[b]) => NoPhis(g.blocks[b])
  /\ \A b \in DOMAIN g.blocks :
       g.blocks[b].term = Open =>
         \/ b = g.curr
         \/ b \in DOMAIN f.blocks /\ b # f.curr /\ f.blocks[b].term = Open
         \/ b \in fresh

LEMMA ExtendsAdvances ==
  ASSUME NEW f, f.curr \in DOMAIN f.blocks, NEW g, Extends(f, g)
  PROVE  Advances(f, g, {})
<1>1. ASSUME NEW b \in DOMAIN f.blocks, NoPhis(f.blocks[b])
      PROVE  NoPhis(g.blocks[b])
  BY <1>1 DEF Extends, OnlyCurrChanged
<1>2. ASSUME NEW b \in DOMAIN g.blocks, g.blocks[b].term = Open, b # g.curr
      PROVE  b \in DOMAIN f.blocks /\ b # f.curr /\ f.blocks[b].term = Open
  BY <1>2 DEF Extends, OnlyCurrChanged
<1> QED BY <1>1, <1>2 DEF Extends, Advances

LEMMA EndedAdvances ==
  ASSUME NEW f, f.curr \in DOMAIN f.blocks, NEW g, NEW targets, Ended(f, g, targets)
  PROVE  Advances(f, g, {})
<1>1. DOMAIN g.blocks = DOMAIN f.blocks /\ IsGraph(g)
  BY DEF Ended, SameShape
<1>2. ASSUME NEW b \in DOMAIN f.blocks, NoPhis(f.blocks[b])
      PROVE  NoPhis(g.blocks[b])
  BY <1>2 DEF Ended, NoPhis
<1>3. ASSUME NEW b \in DOMAIN f.blocks, g.blocks[b].term = Open
      PROVE  b # f.curr /\ f.blocks[b].term = Open
  BY <1>3 DEF Ended
<1> QED BY <1>1, <1>2, <1>3 DEF Advances

\* The constructs that stay open keep their blocks.
LEMMA AdvancesAwait ==
  ASSUME NEW f, NEW g, NEW fresh, NEW cs, Advances(f, g, fresh), TargetsAwait(f, cs)
  PROVE  TargetsAwait(g, cs)
<1> SUFFICES ASSUME NEW i \in DOMAIN cs
             PROVE  /\ Target(cs[i]) \union Unfilled(cs[i]) \subseteq DOMAIN g.blocks
                    /\ \A b \in Target(cs[i]) : NoPhis(g.blocks[b])
  BY DEF TargetsAwait
<1>1. /\ Target(cs[i]) \union Unfilled(cs[i]) \subseteq DOMAIN f.blocks
      /\ \A b \in Target(cs[i]) : NoPhis(f.blocks[b])
  BY DEF TargetsAwait
<1> QED BY <1>1 DEF Advances

LEMMA AdvancesUnfilled ==
  ASSUME NEW f, NEW g, NEW cs, Advances(f, g, {}), OnlyUnfilledAreOpen(f, cs)
  PROVE  OnlyUnfilledAreOpen(g, cs)
<1> SUFFICES ASSUME NEW b \in DOMAIN g.blocks, g.blocks[b].term = Open, b # g.curr
             PROVE  \E i \in DOMAIN cs : b \in Unfilled(cs[i])
  BY DEF OnlyUnfilledAreOpen
<1>1. b \in DOMAIN f.blocks /\ b # f.curr /\ f.blocks[b].term = Open
  BY DEF Advances
<1> QED BY <1>1 DEF OnlyUnfilledAreOpen

LEMMA AdvancesTwice ==
  ASSUME NEW f, NEW g, NEW h, NEW fresh, f.curr \in DOMAIN f.blocks,
         Advances(f, g, fresh), Advances(g, h, {}),
         g.curr = f.curr \/ g.curr \notin DOMAIN f.blocks
  PROVE  Advances(f, h, fresh)
<1>1. IsGraph(h) /\ DOMAIN f.blocks \subseteq DOMAIN h.blocks
  BY DEF Advances
<1>2. \A b \in DOMAIN f.blocks : NoPhis(f.blocks[b]) => NoPhis(h.blocks[b])
  BY DEF Advances
<1>3. ASSUME NEW b \in DOMAIN h.blocks, h.blocks[b].term = Open, b # h.curr, b \notin fresh
      PROVE  b \in DOMAIN f.blocks /\ b # f.curr /\ f.blocks[b].term = Open
  <2>1. b \in DOMAIN g.blocks /\ b # g.curr /\ g.blocks[b].term = Open
    BY <1>3 DEF Advances
  <2> QED BY <1>3, <2>1 DEF Advances
<1> QED BY <1>1, <1>2, <1>3 DEF Advances

-----------------------------------------------------------------------------
(* The source that is read.                                                *)
LEMMA DialectTyped ==
  ASSUME BuilderTypes
  PROVE  /\ dialect.params \in Seq(Vars)
         /\ dialect.locals \subseteq Vars
         /\ \A kind \in Kinds : dialect.forms[kind] \subseteq ExprKinds
         /\ dialect.ops \subseteq ShortCircuitOps
BY ControlFlowAssumption DEF BuilderTypes

LEMMA DeclaredTyped ==
  ASSUME BuilderTypes
  PROVE  Declared \subseteq Vars /\ Here \in Nat
<1>1. ToSet(dialect.params) \subseteq Vars
  <2>1. \A i \in DOMAIN dialect.params : dialect.params[i] \in Vars
    BY DialectTyped, ElementOfSeq
  <2> QED BY <2>1 DEF ToSet
<1>2. \A i \in DOMAIN prog : prog[i] \in Tokens
  BY ElementOfSeq DEF BuilderTypes
<1>3. \A i \in DOMAIN prog : prog[i].declares \subseteq Vars
  BY <1>2 DEF Tokens
<1>4. Here \in Nat
  BY LenProperties DEF Here, BuilderTypes
<1> QED BY <1>1, <1>3, <1>4 DEF Declared

LEMMA ExprsTyped ==
  ASSUME BuilderTypes, NEW kind \in Kinds, NEW e \in Exprs(kind)
  PROVE  e \in Expr
<1>1. PICK form \in dialect.forms[kind] : e \in OfForm(form)
  BY DEF Exprs
<1>2. form \in ExprKinds /\ dialect.ops \subseteq ShortCircuitOps /\ Declared \subseteq Vars
  BY DialectTyped, DeclaredTyped
<1> HIDE DEF Declared
<1>3. Variable \subseteq ReadExpr
  BY <1>2 DEF Variable, ReadExpr
<1>4. Short \subseteq ShortExpr
  BY <1>2, <1>3 DEF Short, ShortExpr
<1>5. Nested \subseteq NestedExpr
  BY <1>2, <1>4 DEF Nested, NestedExpr
<1>6. CASE form = "constant"
  BY <1>1, <1>6 DEF OfForm, Expr
<1>7. CASE form = "variable"
  BY <1>1, <1>2, <1>7 DEF OfForm, Expr, ReadExpr
<1>8. CASE form \in {"operation", "increment"}
  BY <1>1, <1>2, <1>8 DEF OfForm, Expr
<1>9. CASE form = "assignment"
  BY <1>1, <1>2, <1>9 DEF OfForm, Expr
<1>10. CASE form = "short"
  BY <1>1, <1>4, <1>10 DEF OfForm, Expr
<1>11. CASE form = "nested"
  BY <1>1, <1>5, <1>11 DEF OfForm, Expr
<1> QED BY <1>2, <1>6, <1>7, <1>8, <1>9, <1>10, <1>11 DEF ExprKinds

LEMMA TokenTyped ==
  ASSUME NEW kind \in TokenKinds
  PROVE  Token(kind) \in Tokens
BY DEF Token, Tokens

\* Ending a scope hides tokens, linking one changes its links.
LEMMA EndScopeTyped ==
  ASSUME NEW tokens \in Seq(Tokens), NEW from, NEW k, NEW n \in Nat
  PROVE  /\ [EndScope(tokens, from) EXCEPT ![k].end = n] \in Seq(Tokens)
         /\ [EndScope(tokens, from) EXCEPT ![k].alt = n] \in Seq(Tokens)
<1> DEFINE hidden == EndScope(tokens, from)
           N == Len(tokens)
<1>1. N \in Nat /\ DOMAIN tokens = 1 .. N /\ \A i \in 1 .. N : tokens[i] \in Tokens
  BY LenProperties, ElementOfSeq
<1> HIDE DEF N
<1>2. \A i \in 1 .. N : [tokens[i] EXCEPT !.visible = FALSE] \in Tokens
  BY <1>1 DEF Tokens
<1>3. hidden = [i \in 1 .. N |-> IF i > from THEN [tokens[i] EXCEPT !.visible = FALSE] ELSE tokens[i]]
  BY <1>1 DEF EndScope
<1>4. hidden \in [1 .. N -> Tokens]
  BY <1>1, <1>2, <1>3
<1> HIDE DEF hidden
<1>5. \A i \in 1 .. N : [hidden[i] EXCEPT !.end = n] \in Tokens /\ [hidden[i] EXCEPT !.alt = n] \in Tokens
  <2>1. \A i \in 1 .. N : hidden[i] \in Tokens
    BY <1>4
  <2> QED BY <2>1 DEF Tokens
<1>6. [hidden EXCEPT ![k] = [hidden[k] EXCEPT !.end = n]] \in [1 .. N -> Tokens]
  BY <1>4, <1>5
<1>7. [hidden EXCEPT ![k] = [hidden[k] EXCEPT !.alt = n]] \in [1 .. N -> Tokens]
  BY <1>4, <1>5
<1>8. \A s \in [1 .. N -> Tokens] : s \in Seq(Tokens)
  BY <1>1, IsASeq
<1> QED BY <1>6, <1>7, <1>8 DEF hidden

-----------------------------------------------------------------------------
(* Statements.                                                             *)
\* Once the block being filled has ended another one can be filled.
LEMMA AtAdvances ==
  ASSUME NEW f, NEW g, NEW fresh, Advances(f, g, fresh), g.blocks[g.curr].term # Open,
         NEW b \in DOMAIN g.blocks
  PROVE  Advances(f, At(g, b), fresh)
<1> DEFINE h == At(g, b)
<1>1. IsGraph(h) /\ h.curr = b /\ h.blocks = g.blocks
  BY AtBuilds DEF Advances
<1>2. ASSUME NEW c \in DOMAIN g.blocks, g.blocks[c].term = Open
      PROVE  c # g.curr
  BY <1>2
<1> HIDE DEF h
<1>3. \A c \in DOMAIN h.blocks :
        h.blocks[c].term = Open =>
          \/ c \in DOMAIN f.blocks /\ c # f.curr /\ f.blocks[c].term = Open
          \/ c \in fresh
  BY <1>1, <1>2 DEF Advances
<1>4. Advances(f, h, fresh)
  BY <1>1, <1>3 DEF Advances
<1> QED BY <1>4 DEF h

\* New blocks.
LEMMA makeBlocksAdvances ==
  ASSUME NEW f, IsGraph(f), NEW n \in Nat
  PROVE  Advances(f, makeBlocks(f, n), Len(f.blocks) + 1 .. Len(f.blocks) + n)
<1> DEFINE g == makeBlocks(f, n)
           N == Len(f.blocks)
<1>1. /\ IsGraph(g)
      /\ N \in Nat
      /\ DOMAIN f.blocks = 1 .. N
      /\ DOMAIN g.blocks = 1 .. N + n
      /\ g.curr = f.curr
      /\ \A b \in 1 .. N : g.blocks[b] = f.blocks[b]
  <2>1. BlocksAdded(f, g, n)
    BY makeBlocksBuilds
  <2> HIDE DEF g
  <2> QED BY <2>1 DEF BlocksAdded
<1> HIDE DEF g, N
<1>2. \A b \in 1 .. N + n : b \in 1 .. N \/ b \in N + 1 .. N + n
  BY <1>1
<1>3. \A b \in 1 .. N : b \in 1 .. N + n
  BY <1>1
<1>4. Advances(f, g, N + 1 .. N + n)
  BY <1>1, <1>2, <1>3 DEF Advances
<1> QED BY <1>4 DEF g, N

\* A block that may still be open falls through to `b'.
LEMMA FellThroughAdvances ==
  ASSUME NEW f, IsGraph(f), NEW b \in DOMAIN f.blocks, NoPhis(f.blocks[b])
  PROVE  LET g == FellThrough(f, b)
         IN  /\ Advances(f, g, {})
             /\ DOMAIN g.blocks = DOMAIN f.blocks
             /\ g.curr = f.curr
             /\ g.blocks[g.curr].term # Open
<1> DEFINE g == FellThrough(f, b)
<1>1. f.curr \in DOMAIN f.blocks
  BY DEF IsGraph, HasEdges
<1>2. CASE hasTerminator(f)
  <2>1. g = f /\ f.blocks[f.curr].term # Open
    BY <1>2 DEF FellThrough, hasTerminator
  <2> HIDE DEF g
  <2>2. Advances(f, g, {})
    BY <2>1 DEF Advances
  <2> QED BY <2>1, <2>2 DEF g
<1>3. CASE ~hasTerminator(f)
  <2>1. g = JumpTo(f, b) /\ IsOpen(f)
    BY <1>3 DEF FellThrough, hasTerminator, IsOpen
  <2> HIDE DEF g
  <2>2. Ended(f, g, {b})
    BY <2>1, JumpToBuilds
  <2>3. Advances(f, g, {})
    BY <1>1, <2>2, EndedAdvances
  <2> QED BY <2>2, <2>3 DEF g, Ended, SameShape
<1> QED BY <1>2, <1>3

\* Another construct around what is being filled.
LEMMA ConstructPushed ==
  ASSUME NEW g, NEW cs \in Seq(Construct), TargetsAwait(g, cs), NEW c \in Construct,
         Target(c) \union Unfilled(c) \subseteq DOMAIN g.blocks,
         \A b \in Target(c) : NoPhis(g.blocks[b]),
         \A b \in DOMAIN g.blocks :
           g.blocks[b].term = Open =>
             b = g.curr \/ b \in Unfilled(c) \/ \E i \in DOMAIN cs : b \in Unfilled(cs[i])
  PROVE  /\ Append(cs, c) \in Seq(Construct)
         /\ TargetsAwait(g, Append(cs, c))
         /\ OnlyUnfilledAreOpen(g, Append(cs, c))
<1> DEFINE new == Append(cs, c)
           N == Len(cs)
<1>1. /\ N \in Nat
      /\ DOMAIN cs = 1 .. N
      /\ DOMAIN new = 1 .. N + 1
      /\ \A i \in 1 .. N : new[i] = cs[i]
      /\ new[N + 1] = c
      /\ \A k \in DOMAIN new :
           \/ k \in DOMAIN cs /\ new[k] = cs[k]
           \/ k = N + 1 /\ new[k] = c
  <2>1. /\ Len(cs) \in Nat
        /\ DOMAIN cs = 1 .. Len(cs)
        /\ DOMAIN Append(cs, c) = 1 .. Len(cs) + 1
        /\ \A i \in 1 .. Len(cs) : Append(cs, c)[i] = cs[i]
        /\ Append(cs, c)[Len(cs) + 1] = c
        /\ \A k \in DOMAIN Append(cs, c) :
             \/ k \in DOMAIN cs /\ Append(cs, c)[k] = cs[k]
             \/ k = Len(cs) + 1 /\ Append(cs, c)[k] = c
    BY AppendPlaces
  <2> QED BY <2>1
<1>2. new \in Seq(Construct)
  BY AppendHolds
<1> HIDE DEF new, N
<1>3. N + 1 \in DOMAIN new /\ \A i \in DOMAIN cs : i \in DOMAIN new
  BY <1>1
<1>4. TargetsAwait(g, new)
  BY <1>1 DEF TargetsAwait
<1>5. ASSUME NEW b \in DOMAIN g.blocks, g.blocks[b].term = Open, b # g.curr
      PROVE  \E i \in DOMAIN new : b \in Unfilled(new[i])
  BY <1>1, <1>3, <1>5
<1>6. OnlyUnfilledAreOpen(g, new)
  BY <1>5 DEF OnlyUnfilledAreOpen
<1> QED BY <1>2, <1>4, <1>6 DEF new

\* A construct that opens brings the blocks it still has to fill.
LEMMA ConstructOpens ==
  ASSUME NEW f, NEW cs \in Seq(Construct), TargetsAwait(f, cs), OnlyUnfilledAreOpen(f, cs),
         NEW g, NEW fresh, Advances(f, g, fresh), NEW c \in Construct,
         Target(c) \union Unfilled(c) \subseteq DOMAIN g.blocks,
         \A b \in Target(c) : NoPhis(g.blocks[b]),
         fresh \subseteq Unfilled(c) \union {g.curr}
  PROVE  /\ Append(cs, c) \in Seq(Construct)
         /\ TargetsAwait(g, Append(cs, c))
         /\ OnlyUnfilledAreOpen(g, Append(cs, c))
<1>1. TargetsAwait(g, cs)
  BY AdvancesAwait
<1>2. ASSUME NEW b \in DOMAIN g.blocks, g.blocks[b].term = Open, b # g.curr, b \notin Unfilled(c)
      PROVE  \E i \in DOMAIN cs : b \in Unfilled(cs[i])
  <2>1. b \in DOMAIN f.blocks /\ b # f.curr /\ f.blocks[b].term = Open
    BY <1>2 DEF Advances
  <2> QED BY <2>1 DEF OnlyUnfilledAreOpen
<1> QED BY <1>1, <1>2, ConstructPushed

\* The innermost construct goes on with another of its blocks.
GoesOn(g, cs, next) ==
  /\ IsGraph(g)
  /\ Front(cs) \in Seq(Construct)
  /\ Last(cs) \in Construct
  /\ g.curr = next
  /\ TargetsAwait(g, Front(cs))
  /\ \A b \in DOMAIN g.blocks :
       g.blocks[b].term = Open =>
         b \in Unfilled(Last(cs)) \/ \E i \in DOMAIN Front(cs) : b \in Unfilled(Front(cs)[i])
  /\ Target(Last(cs)) \union Unfilled(Last(cs)) \subseteq DOMAIN g.blocks
  /\ \A b \in Target(Last(cs)) : NoPhis(g.blocks[b])
LEMMA ConstructGoesOn ==
  ASSUME NEW f, IsGraph(f), NEW cs \in Seq(Construct), cs # << >>,
         TargetsAwait(f, cs), OnlyUnfilledAreOpen(f, cs),
         NEW to \in Target(Last(cs)), NEW next \in Unfilled(Last(cs))
  PROVE  GoesOn(At(FellThrough(f, to), next), cs, next)
<1> DEFINE h == FellThrough(f, to)
           g == At(h, next)
           N == Len(cs)
           front == Front(cs)
<1>1. /\ N \in Nat \ {0} /\ DOMAIN cs = 1 .. N
      /\ front \in Seq(Construct)
      /\ DOMAIN front = 1 .. N - 1
      /\ \A i \in 1 .. N - 1 : front[i] = cs[i]
      /\ Last(cs) = cs[N] /\ Last(cs) \in Construct
  BY FrontIsPrefix
<1> HIDE DEF N, front
<1>2. /\ N \in DOMAIN cs
      /\ \A i \in DOMAIN front : i \in DOMAIN cs /\ front[i] = cs[i]
      /\ \A i \in DOMAIN cs : i # N => i \in DOMAIN front
  BY <1>1
<1>3. /\ Target(Last(cs)) \union Unfilled(Last(cs)) \subseteq DOMAIN f.blocks
      /\ \A b \in Target(Last(cs)) : NoPhis(f.blocks[b])
  BY <1>1, <1>2 DEF TargetsAwait
<1>4. to \in DOMAIN f.blocks /\ NoPhis(f.blocks[to]) /\ next \in DOMAIN f.blocks
  BY <1>3
<1>5. /\ Advances(f, h, {})
      /\ DOMAIN h.blocks = DOMAIN f.blocks
      /\ h.blocks[h.curr].term # Open
  BY <1>4, FellThroughAdvances
<1> HIDE DEF h
<1>6. /\ Advances(f, g, {})
      /\ IsGraph(g) /\ g.curr = next /\ g.blocks = h.blocks
  BY <1>4, <1>5, AtAdvances, AtBuilds DEF Advances
<1> HIDE DEF g
<1>7. TargetsAwait(g, cs)
  BY <1>6, AdvancesAwait
<1>8. TargetsAwait(g, front)
  BY <1>2, <1>7 DEF TargetsAwait
<1>9. /\ Target(Last(cs)) \union Unfilled(Last(cs)) \subseteq DOMAIN g.blocks
      /\ \A b \in Target(Last(cs)) : NoPhis(g.blocks[b])
  BY <1>1, <1>2, <1>7 DEF TargetsAwait
<1>10. OnlyUnfilledAreOpen(g, cs)
  BY <1>6, AdvancesUnfilled
<1>11. ASSUME NEW b \in DOMAIN g.blocks, g.blocks[b].term = Open, b \notin Unfilled(Last(cs))
       PROVE  \E i \in DOMAIN front : b \in Unfilled(front[i])
  <2>1. b # g.curr
    BY <1>6, <1>11
  <2>2. PICK i \in DOMAIN cs : b \in Unfilled(cs[i])
    BY <1>10, <1>11, <2>1 DEF OnlyUnfilledAreOpen
  <2>3. i # N
    BY <1>1, <1>11, <2>2
  <2> QED BY <1>2, <2>2, <2>3
<1>12. GoesOn(g, cs, next)
  BY <1>1, <1>6, <1>8, <1>9, <1>11 DEF GoesOn, front
<1> QED BY <1>12 DEF g, h

-----------------------------------------------------------------------------
(* Every statement keeps the invariant of building.                        *)
Built ==
  /\ BuilderTypes
  /\ IsGraph(fn)
  /\ TargetsAwait(fn, open)
  /\ OnlyUnfilledAreOpen(fn, open)

\* A token that is read.
LEMMA TokenRead ==
  ASSUME BuilderTypes, NEW t \in Tokens, dialect' = dialect, prog' = Append(prog, t),
         open' \in Seq(Construct)
  PROVE  BuilderTypes'
<1>1. Append(prog, t) \in Seq(Tokens)
  BY AppendHolds DEF BuilderTypes
<1> QED BY <1>1 DEF BuilderTypes

\* A statement that opens or closes no construct.
LEMMA StatementKeeps ==
  ASSUME Built, Advances(fn, fn', {}), UNCHANGED <<dialect, open>>,
         NEW t \in Tokens, prog' = Append(prog, t)
  PROVE  Built'
<1>1. BuilderTypes'
  BY TokenRead DEF Built, BuilderTypes
<1>2. TargetsAwait(fn', open)
  BY AdvancesAwait DEF Built
<1>3. OnlyUnfilledAreOpen(fn', open)
  BY AdvancesUnfilled DEF Built
<1> QED BY <1>1, <1>2, <1>3 DEF Built, Advances

LEMMA CurrIsBlock ==
  ASSUME Built
  PROVE  /\ fn.curr \in DOMAIN fn.blocks
         /\ Reachable => IsOpen(fn)
         /\ Here \in Nat
BY DeclaredTyped DEF Built, IsGraph, HasEdges, Reachable, hasTerminator, IsOpen

\* A value that is evaluated and then given a name.
LEMMA DefinitionAdvances ==
  ASSUME Built, Reachable, NEW e \in Expr, NEW x \in Vars
  PROVE  LET v == lower(fn, e, Here)
         IN  Advances(fn, bindLocalDefinition(v.f, x, v.last), {})
<1> DEFINE v == lower(fn, e, Here)
           g == bindLocalDefinition(v.f, x, v.last)
<1>1. fn.curr \in DOMAIN fn.blocks /\ IsOpen(fn) /\ Here \in Nat /\ IsGraph(fn)
  BY CurrIsBlock DEF Built
<1>2. Extends(fn, v.f) /\ v.last \in Operand
  BY <1>1, lowerExtends
<1> HIDE DEF v
<1>3. IsGraph(v.f) /\ IsOpen(v.f)
  BY <1>2 DEF Extends
<1>4. Emits(v.f, g)
  BY <1>2, <1>3, bindLocalDefinitionEmits
<1> HIDE DEF g
<1>5. Extends(v.f, g)
  BY <1>3, <1>4, EmitsExtends
<1>6. Extends(fn, g)
  BY <1>1, <1>2, <1>5, ExtendsTwice
<1>7. Advances(fn, g, {})
  BY <1>1, <1>6, ExtendsAdvances
<1> QED BY <1>7 DEF g, v

LEMMA SkipDeadStatementKeeps ==
  ASSUME Built, SkipDeadStatement
  PROVE  Built'
<1>1. Advances(fn, fn', {})
  BY DEF SkipDeadStatement, Advances, Built
<1>2. Token("dead") \in Tokens
  BY TokenTyped DEF TokenKinds
<1> QED BY <1>1, <1>2, StatementKeeps DEF SkipDeadStatement

LEMMA LetKeeps ==
  ASSUME Built, NEW e \in Exprs("let"), Let(e)
  PROVE  Built'
<1> DEFINE x == CHOOSE x \in Unused : TRUE
           v == lower(fn, e, Here)
           t == [Token("assign") EXCEPT !.x = x, !.e = e, !.declares = {x}]
<1>1. e \in Expr
  BY ExprsTyped DEF Built, Kinds
<1>2. x \in Vars
  BY DialectTyped DEF Let, Unused, Built
<1>3. /\ Reachable
      /\ fn' = bindLocalDefinition(v.f, x, v.last)
      /\ prog' = Append(prog, t)
      /\ UNCHANGED <<dialect, open>>
  BY DEF Let
<1> HIDE DEF x
<1>4. Advances(fn, fn', {})
  BY <1>1, <1>2, <1>3, DefinitionAdvances
<1>5. t \in Tokens
  BY <1>1, <1>2, TokenTyped DEF Tokens, TokenKinds
<1> HIDE DEF t
<1> QED BY <1>3, <1>4, <1>5, StatementKeeps

LEMMA AssignKeeps ==
  ASSUME Built, NEW x \in Vars, NEW e \in Exprs("assign"), Assign(x, e)
  PROVE  Built'
<1> DEFINE v == lower(fn, e, Here)
           t == [Token("assign") EXCEPT !.x = x, !.e = e]
<1>1. e \in Expr
  BY ExprsTyped DEF Built, Kinds
<1>2. /\ Reachable
      /\ fn' = bindLocalDefinition(v.f, x, v.last)
      /\ prog' = Append(prog, t)
      /\ UNCHANGED <<dialect, open>>
  BY DEF Assign
<1>3. Advances(fn, fn', {})
  BY <1>1, <1>2, DefinitionAdvances
<1>4. t \in Tokens
  BY <1>1, TokenTyped DEF Tokens, TokenKinds
<1> HIDE DEF t
<1> QED BY <1>2, <1>3, <1>4, StatementKeeps

LEMMA ExpressionKeeps ==
  ASSUME Built, NEW e \in Exprs("expression"), Expression(e)
  PROVE  Built'
<1> DEFINE t == [Token("expression") EXCEPT !.e = e]
<1>1. e \in Expr
  BY ExprsTyped DEF Built, Kinds
<1>2. /\ Reachable
      /\ fn' = lower(fn, e, Here).f
      /\ prog' = Append(prog, t)
      /\ UNCHANGED <<dialect, open>>
  BY DEF Expression
<1>3. Extends(fn, fn')
  BY <1>1, <1>2, CurrIsBlock, lowerExtends DEF Built
<1>4. Advances(fn, fn', {})
  BY <1>3, CurrIsBlock, ExtendsAdvances
<1>5. t \in Tokens
  BY <1>1, TokenTyped DEF Tokens, TokenKinds
<1> HIDE DEF t
<1> QED BY <1>2, <1>4, <1>5, StatementKeeps

\* A return closes the block its value was left in.
LEMMA ReturnAdvances ==
  ASSUME NEW f, IsGraph(f), IsOpen(f), NEW term \in Terminator, term.targets = << >>, term # Open
  PROVE  LET g == SetTerm(f, term)
         IN  /\ Advances(f, g, {})
             /\ SameShape(f, g)
             /\ \A b \in DOMAIN g.blocks : g.blocks[b].term = Open => b # f.curr /\ f.blocks[b].term = Open
<1> DEFINE g == SetTerm(f, term)
<1>1. /\ f.curr \in DOMAIN f.blocks
      /\ f.blocks[f.curr].succs = << >>
  BY OpenHasNoSuccessors
<1>2. TermSet(f, g, term)
  BY SetTermSets DEF IsGraph
<1> HIDE DEF g
<1>3. DOMAIN g.blocks = DOMAIN f.blocks
  BY <1>2 DEF TermSet, SameShape
<1>4. IsGraph(g)
  BY <1>1, <1>2, <1>3 DEF TermSet, IsGraph, SuccessorsAreTargets
<1>5. \A b \in DOMAIN f.blocks : NoPhis(f.blocks[b]) => NoPhis(g.blocks[b])
  BY <1>2 DEF TermSet, NoPhis
<1>6. \A b \in DOMAIN g.blocks : g.blocks[b].term = Open => b # f.curr /\ f.blocks[b].term = Open
  BY <1>2, <1>3 DEF TermSet
<1>7. Advances(f, g, {})
  BY <1>3, <1>4, <1>5, <1>6 DEF Advances
<1>8. SameShape(f, g)
  BY <1>2 DEF TermSet
<1> QED BY <1>6, <1>7, <1>8 DEF g

LEMMA ReturnTyped ==
  ASSUME NEW args \in Seq(Operand), NEW t \in Nat
  PROVE  /\ Return(args, <<t, 2>>) \in Terminator
         /\ Return(args, <<t, 2>>).targets = << >>
         /\ Return(args, <<t, 2>>) # Open
BY DEF Return, Terminator, Open

LEMMA ReturnValueKeeps ==
  ASSUME Built, NEW e \in Exprs("return"), ReturnValue(e)
  PROVE  Built'
<1> DEFINE v == lower(fn, e, Here)
           term == Return(<<v.last>>, <<Here, 2>>)
           t == [Token("return") EXCEPT !.e = e]
<1>1. e \in Expr
  BY ExprsTyped DEF Built, Kinds
<1>2. /\ Reachable
      /\ fn' = SetTerm(v.f, term)
      /\ prog' = Append(prog, t)
      /\ UNCHANGED <<dialect, open>>
  BY DEF ReturnValue
<1>3. fn.curr \in DOMAIN fn.blocks /\ IsOpen(fn) /\ Here \in Nat /\ IsGraph(fn)
  BY <1>2, CurrIsBlock DEF Built
<1>4. Extends(fn, v.f) /\ v.last \in Operand
  BY <1>1, <1>3, lowerExtends
<1> HIDE DEF v
<1>5. IsGraph(v.f) /\ IsOpen(v.f) /\ (v.f.curr = fn.curr \/ v.f.curr \notin DOMAIN fn.blocks)
  BY <1>4 DEF Extends
<1>6. term \in Terminator /\ term.targets = << >> /\ term # Open
  <2>1. <<v.last>> \in Seq(Operand)
    BY <1>4
  <2> QED BY <1>3, <2>1, ReturnTyped
<1> HIDE DEF term
<1>7. Advances(v.f, fn', {})
  BY <1>2, <1>5, <1>6, ReturnAdvances
<1>8. Advances(fn, v.f, {})
  BY <1>3, <1>4, ExtendsAdvances
<1>9. Advances(fn, fn', {})
  BY <1>3, <1>5, <1>7, <1>8, AdvancesTwice
<1>10. t \in Tokens
  BY <1>1, TokenTyped DEF Tokens, TokenKinds
<1> HIDE DEF t
<1> QED BY <1>2, <1>9, <1>10, StatementKeeps

\* The loop a break or a continue leaves is an open construct.
LEMMA InnermostLoopIsOpen ==
  ASSUME BuilderTypes, loopStack # {}
  PROVE  \E i \in DOMAIN open : innermostLoop = open[i] /\ open[i].kind = "while" /\ open[i] \in Construct
<1> DEFINE i == CHOOSE i \in loopStack : \A j \in loopStack : j <= i
<1>1. Len(open) \in Nat /\ DOMAIN open = 1 .. Len(open)
  BY LenProperties DEF BuilderTypes
<1>2. loopStack \subseteq Nat /\ \A j \in loopStack : j <= Len(open)
  BY <1>1 DEF loopStack
<1>3. \E m \in loopStack : \A j \in loopStack : j <= m
  BY <1>1, <1>2, GreatestNatural
<1>4. i \in loopStack
  BY <1>3
<1>5. innermostLoop = open[i]
  BY DEF innermostLoop
<1> HIDE DEF i
<1> QED BY <1>4, <1>5, ElementOfSeq DEF loopStack, BuilderTypes

LEMMA LeavingAdvances ==
  ASSUME Built, Reachable, loopStack # {}
  PROVE  /\ Advances(fn, JumpTo(fn, innermostLoop.merge), {})
         /\ Advances(fn, JumpTo(fn, innermostLoop.cond), {})
         /\ innermostLoop.token \in Nat
<1>1. PICK i \in DOMAIN open : innermostLoop = open[i] /\ open[i].kind = "while" /\ open[i] \in Construct
  BY InnermostLoopIsOpen DEF Built
<1>2. \A b \in Target(open[i]) : b \in DOMAIN fn.blocks /\ NoPhis(fn.blocks[b])
  BY DEF Built, TargetsAwait
<1>3. open[i].merge \in Target(open[i]) /\ open[i].cond \in Target(open[i])
  BY <1>1 DEF Target
<1>4. fn.curr \in DOMAIN fn.blocks /\ IsOpen(fn) /\ IsGraph(fn)
  BY CurrIsBlock DEF Built
<1>5. \A b \in Target(open[i]) : Advances(fn, JumpTo(fn, b), {})
  <2> TAKE b \in Target(open[i])
  <2>1. Ended(fn, JumpTo(fn, b), {b})
    BY <1>2, <1>4, JumpToBuilds
  <2> QED BY <1>4, <2>1, EndedAdvances
<1> QED BY <1>1, <1>3, <1>5 DEF Construct

LEMMA BreakKeeps ==
  ASSUME Built, Break
  PROVE  Built'
<1> DEFINE t == [Token("break") EXCEPT !.up = innermostLoop.token]
<1>1. Advances(fn, fn', {}) /\ innermostLoop.token \in Nat
  BY LeavingAdvances DEF Break
<1>2. t \in Tokens
  BY <1>1, TokenTyped DEF Tokens, TokenKinds
<1>3. prog' = Append(prog, t) /\ UNCHANGED <<dialect, open>>
  BY DEF Break
<1> HIDE DEF t
<1> QED BY <1>1, <1>2, <1>3, StatementKeeps

LEMMA ContinueKeeps ==
  ASSUME Built, Continue
  PROVE  Built'
<1> DEFINE t == [Token("continue") EXCEPT !.up = innermostLoop.token]
<1>1. Advances(fn, fn', {}) /\ innermostLoop.token \in Nat
  BY LeavingAdvances DEF Continue
<1>2. t \in Tokens
  BY <1>1, TokenTyped DEF Tokens, TokenKinds
<1>3. prog' = Append(prog, t) /\ UNCHANGED <<dialect, open>>
  BY DEF Continue
<1> HIDE DEF t
<1> QED BY <1>1, <1>2, <1>3, StatementKeeps

\* A branch on an operand to two blocks among those just made.
Branched(f, g, h, t, fresh) ==
  /\ Advances(f, h, fresh)
  /\ h.curr = t
  /\ DOMAIN h.blocks = DOMAIN g.blocks
  /\ \A b \in DOMAIN g.blocks : h.blocks[b].code = g.blocks[b].code
LEMMA BranchAdvances ==
  ASSUME NEW f, NEW fresh, NEW g, f.curr \in DOMAIN f.blocks, Advances(f, g, fresh), IsOpen(g),
         g.curr = f.curr \/ g.curr \notin DOMAIN f.blocks,
         NEW o \in Operand, NEW where \in Seq(Nat),
         NEW t \in DOMAIN g.blocks, NEW e \in DOMAIN g.blocks, t # e,
         NoPhis(g.blocks[t]), NoPhis(g.blocks[e])
  PROVE  Branched(f, g, At(BranchTo(g, o, t, e, where), t), t, fresh)
<1> DEFINE k == BranchTo(g, o, t, e, where)
           h == At(k, t)
<1>1. IsGraph(g) /\ g.curr \in DOMAIN g.blocks
  BY DEF Advances, IsGraph, HasEdges
<1>2. Ended(g, k, {t, e})
  BY <1>1, BranchToBuilds
<1> HIDE DEF k
<1>3. Advances(g, k, {})
  BY <1>1, <1>2, EndedAdvances
<1>4. /\ k.curr = g.curr
      /\ DOMAIN k.blocks = DOMAIN g.blocks
      /\ k.blocks[k.curr].term # Open
      /\ \A b \in DOMAIN g.blocks : k.blocks[b].code = g.blocks[b].code
  BY <1>2 DEF Ended, SameShape
<1>5. Advances(f, k, fresh)
  BY <1>3, AdvancesTwice
<1>6. Advances(f, h, fresh)
  BY <1>4, <1>5, AtAdvances
<1>7. h.curr = t /\ h.blocks = k.blocks
  BY <1>2, <1>4, AtBuilds DEF Ended
<1> HIDE DEF h
<1>8. Branched(f, g, h, t, fresh)
  BY <1>4, <1>6, <1>7 DEF Branched
<1> QED BY <1>8 DEF h, k

LEMMA BeginIfKeeps ==
  ASSUME Built, NEW e \in Exprs("if"), NEW hasElse \in BOOLEAN, BeginIf(e, hasElse)
  PROVE  Built'
<1> DEFINE N == Len(fn.blocks)
           n == IF hasElse THEN 3 ELSE 2
           made == makeBlocks(fn, n)
           thenBB == N + 1
           mergeBB == thenBB + 1
           elseBB == IF hasElse THEN mergeBB + 1 ELSE mergeBB
           v == lower(made, e, Here)
           c == [kind |-> IF hasElse THEN "then" ELSE "last", token |-> Here,
                 next |-> elseBB, merge |-> mergeBB, cond |-> 0]
           t == [Token("if") EXCEPT !.e = e]
           fresh == N + 1 .. N + n
<1>1. e \in Expr
  BY ExprsTyped DEF Built, Kinds
<1>2. /\ Reachable
      /\ fn' = At(BranchTo(v.f, v.last, thenBB, elseBB, <<Here, 2>>), thenBB)
      /\ open' = Append(open, c)
      /\ prog' = Append(prog, t)
      /\ UNCHANGED dialect
  BY DEF BeginIf
<1>3. fn.curr \in DOMAIN fn.blocks /\ IsOpen(fn) /\ Here \in Nat /\ IsGraph(fn)
  BY <1>2, CurrIsBlock DEF Built
<1>4. /\ IsGraph(made)
      /\ N \in Nat
      /\ DOMAIN fn.blocks = 1 .. N
      /\ DOMAIN made.blocks = 1 .. N + n
      /\ made.curr = fn.curr
      /\ \A b \in 1 .. N : made.blocks[b] = fn.blocks[b]
      /\ \A b \in fresh : made.blocks[b] = EmptyBlock
  <2>1. n \in Nat /\ IsGraph(fn)
    BY <1>3
  <2>2. fresh = N + 1 .. N + n
    OBVIOUS
  <2> HIDE DEF n, fresh
  <2>3. BlocksAdded(fn, made, n)
    BY <2>1, makeBlocksBuilds
  <2> HIDE DEF made
  <2> QED BY <2>2, <2>3 DEF BlocksAdded
<1>5. Advances(fn, made, fresh)
  BY <1>3, makeBlocksAdvances
<1> HIDE DEF made, N
<1>6. /\ thenBB \in fresh /\ mergeBB \in fresh /\ elseBB \in fresh
      /\ fresh \subseteq 1 .. N + n
      /\ thenBB # elseBB /\ thenBB # mergeBB
      /\ \A b \in fresh : b \notin 1 .. N /\ b \in Nat
      /\ \A b \in fresh : b \in {mergeBB, elseBB} \/ b = thenBB
  BY <1>4
<1>7. IsOpen(made)
  BY <1>3, <1>4 DEF IsOpen
<1>8. Extends(made, v.f) /\ v.last \in Operand
  BY <1>1, <1>3, <1>4, <1>7, lowerExtends
<1> HIDE DEF v, fresh, n, thenBB
<1>9. /\ \A b \in fresh : b \in DOMAIN v.f.blocks /\ NoPhis(v.f.blocks[b])
      /\ IsOpen(v.f)
      /\ v.f.curr = fn.curr \/ v.f.curr \notin DOMAIN fn.blocks
  <2>1. \A b \in fresh : b \in DOMAIN made.blocks /\ b # made.curr
    BY <1>3, <1>4, <1>6
  <2>2. \A b \in fresh : b \in DOMAIN v.f.blocks /\ v.f.blocks[b] = EmptyBlock
    BY <1>4, <1>8, <2>1 DEF Extends, OnlyCurrChanged
  <2>3. v.f.curr = made.curr \/ v.f.curr \notin DOMAIN made.blocks
    BY <1>8 DEF Extends
  <2> QED BY <1>4, <1>5, <1>8, <2>2, <2>3, EmptyBlockIs, EmptyHasNoPhis DEF Extends, Advances
<1>10. Advances(fn, v.f, fresh)
  <2>1. Advances(made, v.f, {})
    BY <1>3, <1>4, <1>5, <1>8, ExtendsAdvances DEF Advances
  <2> QED BY <1>3, <1>4, <1>5, <2>1, AdvancesTwice
<1>11. <<Here, 2>> \in Seq(Nat)
  BY <1>3
<1> HIDE DEF mergeBB, elseBB
<1>12. /\ Advances(fn, fn', fresh)
       /\ fn'.curr = thenBB
       /\ DOMAIN fn'.blocks = DOMAIN v.f.blocks
       /\ \A b \in DOMAIN v.f.blocks : fn'.blocks[b].code = v.f.blocks[b].code
  <2>1. /\ thenBB \in DOMAIN v.f.blocks /\ NoPhis(v.f.blocks[thenBB])
        /\ elseBB \in DOMAIN v.f.blocks /\ NoPhis(v.f.blocks[elseBB])
        /\ thenBB # elseBB
    BY <1>6, <1>9
  <2>2. Branched(fn, v.f, At(BranchTo(v.f, v.last, thenBB, elseBB, <<Here, 2>>), thenBB), thenBB, fresh)
    BY <1>3, <1>8, <1>9, <1>10, <1>11, <2>1, BranchAdvances
  <2>3. Branched(fn, v.f, fn', thenBB, fresh)
    BY <1>2, <2>2
  <2> QED BY <2>3 DEF Branched
<1>13. /\ \A b \in fresh : b \in DOMAIN fn'.blocks /\ NoPhis(fn'.blocks[b])
  BY <1>9, <1>12 DEF NoPhis
<1>14. c \in Construct /\ Target(c) = {mergeBB} /\ Unfilled(c) = {mergeBB, elseBB}
  <2>1. hasElse = FALSE => elseBB = mergeBB
    BY DEF elseBB
  <2>2. c \in Construct
    BY <1>3, <1>6 DEF Construct
  <2> QED BY <2>1, <2>2 DEF Target, Unfilled
<1> HIDE DEF c
<1>15. /\ Append(open, c) \in Seq(Construct)
       /\ TargetsAwait(fn', Append(open, c))
       /\ OnlyUnfilledAreOpen(fn', Append(open, c))
  <2>1. Target(c) \union Unfilled(c) \subseteq DOMAIN fn'.blocks /\ \A b \in Target(c) : NoPhis(fn'.blocks[b])
    BY <1>6, <1>13, <1>14
  <2>2. fresh \subseteq Unfilled(c) \union {fn'.curr}
    BY <1>6, <1>12, <1>14
  <2> QED BY <1>12, <1>14, <2>1, <2>2, ConstructOpens DEF Built, BuilderTypes
<1>16. t \in Tokens
  BY <1>1, TokenTyped DEF Tokens, TokenKinds
<1> HIDE DEF t
<1>17. BuilderTypes'
  BY <1>2, <1>15, <1>16, TokenRead DEF Built
<1> QED BY <1>2, <1>12, <1>15, <1>17 DEF Built, Advances

LEMMA BeginWhileKeeps ==
  ASSUME Built, NEW e \in Exprs("while"), BeginWhile(e)
  PROVE  Built'
<1> DEFINE N == Len(fn.blocks)
           made == makeBlocks(fn, 3)
           condBB == N + 1
           bodyBB == condBB + 1
           exitBB == bodyBB + 1
           jumped == JumpTo(made, condBB)
           cond == At(jumped, condBB)
           v == lower(cond, e, Here)
           c == [kind |-> "while", token |-> Here, next |-> exitBB, merge |-> exitBB, cond |-> condBB]
           t == [Token("while") EXCEPT !.e = e]
<1>1. e \in Expr
  BY ExprsTyped DEF Built, Kinds
<1>2. /\ Reachable
      /\ fn' = At(BranchTo(v.f, v.last, bodyBB, exitBB, <<Here, 2>>), bodyBB)
      /\ open' = Append(open, c)
      /\ prog' = Append(prog, t)
      /\ UNCHANGED dialect
  BY DEF BeginWhile
<1>3. fn.curr \in DOMAIN fn.blocks /\ IsOpen(fn) /\ Here \in Nat /\ IsGraph(fn)
  BY <1>2, CurrIsBlock DEF Built
<1>4. /\ IsGraph(made)
      /\ N \in Nat
      /\ DOMAIN fn.blocks = 1 .. N
      /\ DOMAIN made.blocks = 1 .. N + 3
      /\ made.curr = fn.curr
      /\ \A b \in 1 .. N : made.blocks[b] = fn.blocks[b]
      /\ \A b \in N + 1 .. N + 3 : made.blocks[b] = EmptyBlock
  <2>1. BlocksAdded(fn, made, 3)
    BY <1>3, makeBlocksBuilds
  <2> HIDE DEF made
  <2> QED BY <2>1 DEF BlocksAdded
<1>5. Advances(fn, made, N + 1 .. N + 3)
  BY <1>3, makeBlocksAdvances
<1> HIDE DEF made, N
<1>6. /\ N + 1 .. N + 3 = {condBB, bodyBB, exitBB}
      /\ condBB # bodyBB /\ condBB # exitBB /\ bodyBB # exitBB
      /\ \A b \in {condBB, bodyBB, exitBB} : b \notin 1 .. N /\ b \in Nat
      /\ {condBB, bodyBB, exitBB} \subseteq DOMAIN made.blocks
  BY <1>4
<1> HIDE DEF condBB, bodyBB, exitBB
<1>7. /\ \A b \in {condBB, bodyBB, exitBB} :
           made.blocks[b].code = << >> /\ made.blocks[b].term = Open /\ NoPhis(made.blocks[b])
      /\ IsOpen(made)
  BY <1>3, <1>4, <1>6, EmptyBlockIs, EmptyHasNoPhis DEF IsOpen
\* The condition's block is filled next.
<1>8. Ended(made, jumped, {condBB})
  BY <1>4, <1>6, <1>7, JumpToBuilds
<1> HIDE DEF jumped
<1>9. /\ DOMAIN jumped.blocks = DOMAIN made.blocks
      /\ jumped.curr = fn.curr
      /\ jumped.blocks[jumped.curr].term # Open
      /\ condBB # fn.curr
      /\ jumped.blocks[condBB].term = Open
      /\ \A b \in DOMAIN made.blocks : jumped.blocks[b].code = made.blocks[b].code
  BY <1>3, <1>4, <1>6, <1>7, <1>8 DEF Ended, SameShape
<1>10. /\ IsGraph(cond) /\ cond.curr = condBB /\ cond.blocks = jumped.blocks
  BY <1>6, <1>8, <1>9, AtBuilds DEF Ended
<1>11. Advances(fn, cond, {bodyBB, exitBB})
  <2>1. Advances(made, jumped, {})
    BY <1>3, <1>4, <1>5, <1>8, EndedAdvances DEF Advances
  <2>2. Advances(fn, jumped, {condBB, bodyBB, exitBB})
    BY <1>3, <1>4, <1>5, <1>6, <2>1, AdvancesTwice
  <2>3. Advances(fn, cond, {condBB, bodyBB, exitBB})
    BY <1>6, <1>9, <2>2, AtAdvances
  <2> QED BY <1>10, <2>3 DEF Advances
<1> HIDE DEF cond
<1>12. IsOpen(cond) /\ \A b \in {condBB, bodyBB, exitBB} : b \in DOMAIN cond.blocks /\ NoPhis(cond.blocks[b])
  BY <1>6, <1>7, <1>9, <1>10 DEF IsOpen, NoPhis
<1>13. Extends(cond, v.f) /\ v.last \in Operand
  BY <1>1, <1>3, <1>10, <1>12, lowerExtends
<1> HIDE DEF v
<1>14. /\ Advances(cond, v.f, {})
       /\ IsOpen(v.f)
       /\ v.f.curr = condBB \/ v.f.curr \notin DOMAIN cond.blocks
       /\ v.f.blocks[condBB].term = Open => v.f.curr = condBB
       /\ condBB \in DOMAIN v.f.blocks
  <2>1. condBB \in DOMAIN cond.blocks /\ cond.curr \in DOMAIN cond.blocks
    BY <1>10, <1>12
  <2> QED BY <1>10, <1>13, <2>1, ExtendsAdvances DEF Extends
<1>15. \A b \in {condBB, bodyBB, exitBB} : b \in DOMAIN v.f.blocks /\ NoPhis(v.f.blocks[b])
  BY <1>12, <1>14 DEF Advances
<1>16. v.f.curr = fn.curr \/ v.f.curr \notin DOMAIN fn.blocks
  <2>1. condBB \notin DOMAIN fn.blocks
    BY <1>4, <1>6
  <2>2. DOMAIN fn.blocks \subseteq DOMAIN cond.blocks
    BY <1>11 DEF Advances
  <2> QED BY <1>14, <2>1, <2>2
<1>17. Advances(fn, v.f, {bodyBB, exitBB})
  <2>1. cond.curr \notin DOMAIN fn.blocks
    BY <1>4, <1>6, <1>10
  <2> QED BY <1>3, <1>11, <1>14, <2>1, AdvancesTwice
<1>18. <<Here, 2>> \in Seq(Nat)
  BY <1>3
<1>19. /\ Advances(fn, fn', {bodyBB, exitBB})
       /\ fn'.curr = bodyBB
       /\ DOMAIN fn'.blocks = DOMAIN v.f.blocks
       /\ \A b \in DOMAIN v.f.blocks : fn'.blocks[b].code = v.f.blocks[b].code
  <2>1. Branched(fn, v.f, At(BranchTo(v.f, v.last, bodyBB, exitBB, <<Here, 2>>), bodyBB), bodyBB,
                 {bodyBB, exitBB})
    BY <1>3, <1>6, <1>13, <1>14, <1>15, <1>16, <1>17, <1>18, BranchAdvances
  <2>2. Branched(fn, v.f, fn', bodyBB, {bodyBB, exitBB})
    BY <1>2, <2>1
  <2> QED BY <2>2 DEF Branched
<1>20. \A b \in {condBB, bodyBB, exitBB} : b \in DOMAIN fn'.blocks /\ NoPhis(fn'.blocks[b])
  BY <1>15, <1>19 DEF NoPhis
<1>21. c \in Construct /\ Target(c) = {exitBB, condBB} /\ Unfilled(c) = {exitBB}
  <2>1. c \in Construct
    BY <1>3, <1>6 DEF Construct
  <2> QED BY <2>1 DEF Target, Unfilled
<1> HIDE DEF c
<1>22. /\ Append(open, c) \in Seq(Construct)
       /\ TargetsAwait(fn', Append(open, c))
       /\ OnlyUnfilledAreOpen(fn', Append(open, c))
  <2>1. Target(c) \union Unfilled(c) \subseteq DOMAIN fn'.blocks /\ \A b \in Target(c) : NoPhis(fn'.blocks[b])
    BY <1>20, <1>21
  <2>2. {bodyBB, exitBB} \subseteq Unfilled(c) \union {fn'.curr}
    BY <1>19, <1>21
  <2> QED BY <1>19, <1>21, <2>1, <2>2, ConstructOpens DEF Built, BuilderTypes
<1>23. t \in Tokens
  BY <1>1, TokenTyped DEF Tokens, TokenKinds
<1> HIDE DEF t
<1>24. BuilderTypes'
  BY <1>2, <1>22, <1>23, TokenRead DEF Built
<1> QED BY <1>2, <1>19, <1>22, <1>24 DEF Built, Advances

\* A token that ends a scope and is linked to the token that opened it.
LEMMA TokenLinked ==
  ASSUME BuilderTypes, NEW from, NEW k, NEW n \in Nat, NEW t \in Tokens, dialect' = dialect,
         \/ prog' = Append([EndScope(prog, from) EXCEPT ![k].end = n], t)
         \/ prog' = Append([EndScope(prog, from) EXCEPT ![k].alt = n], t),
         open' \in Seq(Construct)
  PROVE  BuilderTypes'
<1> DEFINE ends == [EndScope(prog, from) EXCEPT ![k].end = n]
           alts == [EndScope(prog, from) EXCEPT ![k].alt = n]
<1>1. ends \in Seq(Tokens) /\ alts \in Seq(Tokens)
  BY EndScopeTyped DEF BuilderTypes
<1>2. prog' = Append(ends, t) \/ prog' = Append(alts, t)
  OBVIOUS
<1> HIDE DEF ends, alts
<1> HIDE DEF Tokens
<1>3. Append(ends, t) \in Seq(Tokens) /\ Append(alts, t) \in Seq(Tokens)
  <2>1. t \in Tokens
    OBVIOUS
  <2> QED BY ONLY <1>1, <2>1, AppendHolds
<1>4. prog' \in Seq(Tokens)
  BY <1>2, <1>3
<1> QED BY <1>4 DEF BuilderTypes

LEMMA BeginElseKeeps ==
  ASSUME Built, BeginElse
  PROVE  Built'
<1> DEFINE c == [Innermost EXCEPT !.kind = "last"]
           t == [Token("else") EXCEPT !.up = Innermost.token]
<1>1. /\ open # << >> /\ Innermost.kind = "then"
      /\ fn' = At(FellThrough(fn, Innermost.merge), Innermost.next)
      /\ open' = Append(Front(open), c)
      /\ prog' = Append([EndScope(prog, Innermost.token) EXCEPT ![Innermost.token].alt = Here], t)
      /\ UNCHANGED dialect
  BY DEF BeginElse
<1>2. /\ Innermost.merge \in Target(Last(open))
      /\ Innermost.next \in Unfilled(Last(open))
      /\ Unfilled(Last(open)) = {Innermost.merge, Innermost.next}
      /\ Innermost.merge \in Unfilled(Last(open))
  BY <1>1 DEF Target, Unfilled, Innermost
<1>3. /\ IsGraph(fn')
      /\ Front(open) \in Seq(Construct)
      /\ Last(open) \in Construct
      /\ fn'.curr = Innermost.next
      /\ TargetsAwait(fn', Front(open))
      /\ \A b \in DOMAIN fn'.blocks :
           fn'.blocks[b].term = Open =>
             b \in Unfilled(Last(open)) \/ \E i \in DOMAIN Front(open) : b \in Unfilled(Front(open)[i])
      /\ Target(Last(open)) \union Unfilled(Last(open)) \subseteq DOMAIN fn'.blocks
      /\ \A b \in Target(Last(open)) : NoPhis(fn'.blocks[b])
  <2>1. GoesOn(fn', open, Innermost.next)
    BY <1>1, <1>2, ConstructGoesOn DEF Built, BuilderTypes
  <2> QED BY <2>1 DEF GoesOn
<1>4. /\ c \in Construct
      /\ Target(c) = {Innermost.merge}
      /\ Unfilled(c) = {Innermost.merge}
      /\ Innermost.token \in Nat
  BY <1>3 DEF Construct, Target, Unfilled, Innermost
<1> HIDE DEF c
<1>5. /\ Append(Front(open), c) \in Seq(Construct)
      /\ TargetsAwait(fn', Append(Front(open), c))
      /\ OnlyUnfilledAreOpen(fn', Append(Front(open), c))
  <2>1. Target(c) \union Unfilled(c) \subseteq DOMAIN fn'.blocks /\ \A b \in Target(c) : NoPhis(fn'.blocks[b])
    BY <1>2, <1>3, <1>4
  <2>2. \A b \in DOMAIN fn'.blocks :
          fn'.blocks[b].term = Open =>
            \/ b = fn'.curr
            \/ b \in Unfilled(c)
            \/ \E i \in DOMAIN Front(open) : b \in Unfilled(Front(open)[i])
    BY <1>2, <1>3, <1>4
  <2> QED BY <1>3, <1>4, <2>1, <2>2, ConstructPushed
<1>6. t \in Tokens
  BY <1>4, TokenTyped DEF Tokens, TokenKinds
<1> HIDE DEF t
<1>7. BuilderTypes'
  <2>1. Here \in Nat
    BY CurrIsBlock
  <2> QED BY <1>1, <1>5, <1>6, <2>1, TokenLinked DEF Built
<1> QED BY <1>1, <1>3, <1>5, <1>7 DEF Built

\* A construct that ends goes on with its merge block, the last it had to fill.
LEMMA ConstructEnds ==
  ASSUME Built, open # << >>, Innermost.kind # "then",
         NEW to \in Target(Innermost), fn' = At(FellThrough(fn, to), Innermost.merge),
         open' = Front(open), dialect' = dialect,
         NEW t \in Tokens,
         prog' = Append([EndScope(prog, Innermost.token) EXCEPT ![Innermost.token].end = Here], t)
  PROVE  Built'
<1>1. /\ to \in Target(Last(open))
      /\ Innermost.merge \in Unfilled(Last(open))
      /\ Unfilled(Last(open)) = {Innermost.merge}
  BY DEF Unfilled, Innermost
<1>2. /\ IsGraph(fn')
      /\ Front(open) \in Seq(Construct)
      /\ fn'.curr = Innermost.merge
      /\ TargetsAwait(fn', Front(open))
      /\ \A b \in DOMAIN fn'.blocks :
           fn'.blocks[b].term = Open =>
             b \in Unfilled(Last(open)) \/ \E i \in DOMAIN Front(open) : b \in Unfilled(Front(open)[i])
  <2>1. GoesOn(fn', open, Innermost.merge)
    BY <1>1, ConstructGoesOn DEF Built, BuilderTypes
  <2> QED BY <2>1 DEF GoesOn
<1>3. OnlyUnfilledAreOpen(fn', Front(open))
  BY <1>1, <1>2 DEF OnlyUnfilledAreOpen
<1>4. BuilderTypes'
  <2>1. Here \in Nat
    BY CurrIsBlock
  <2> QED BY <1>2, <2>1, TokenLinked DEF Built
<1> QED BY <1>2, <1>3, <1>4 DEF Built

LEMMA EndIfKeeps ==
  ASSUME Built, EndIf
  PROVE  Built'
<1> DEFINE t == [Token("end if") EXCEPT !.up = Innermost.token]
<1>1. open # << >> /\ Innermost.kind # "then" /\ Innermost.merge \in Target(Innermost)
  BY DEF EndIf, Target
<1>2. Innermost \in Construct
  BY <1>1, FrontIsPrefix DEF Built, BuilderTypes, Innermost
<1>3. t \in Tokens
  BY <1>2, TokenTyped DEF Tokens, TokenKinds, Construct
<1>4. /\ fn' = At(FellThrough(fn, Innermost.merge), Innermost.merge)
      /\ open' = Front(open) /\ dialect' = dialect
      /\ prog' = Append([EndScope(prog, Innermost.token) EXCEPT ![Innermost.token].end = Here], t)
  BY DEF EndIf
<1> HIDE DEF t
<1> QED BY <1>1, <1>3, <1>4, ConstructEnds

LEMMA EndWhileKeeps ==
  ASSUME Built, EndWhile
  PROVE  Built'
<1> DEFINE t == [Token("end while") EXCEPT !.up = Innermost.token]
<1>1. open # << >> /\ Innermost.kind # "then" /\ Innermost.cond \in Target(Innermost)
  BY DEF EndWhile, Target
<1>2. Innermost \in Construct
  BY <1>1, FrontIsPrefix DEF Built, BuilderTypes, Innermost
<1>3. t \in Tokens
  BY <1>2, TokenTyped DEF Tokens, TokenKinds, Construct
<1>4. /\ fn' = At(FellThrough(fn, Innermost.cond), Innermost.merge)
      /\ open' = Front(open) /\ dialect' = dialect
      /\ prog' = Append([EndScope(prog, Innermost.token) EXCEPT ![Innermost.token].end = Here], t)
  BY DEF EndWhile
<1> HIDE DEF t
<1> QED BY <1>1, <1>3, <1>4, ConstructEnds

\* At the end of the body no block is left open.
LEMMA FinishFunctionCloses ==
  ASSUME Built, FinishFunction
  PROVE  BuilderTypes' /\ IsGraph(fn') /\ Closed(fn') /\ phase' = "dominators"
<1> DEFINE term == Return(<< >>, <<Here, 2>>)
<1>1. /\ open = << >>
      /\ phase' = "dominators"
      /\ fn' = IF hasTerminator(fn) THEN fn ELSE SetTerm(fn, term)
      /\ UNCHANGED <<dialect, open, prog>>
  BY DEF FinishFunction
<1>2. BuilderTypes'
  BY <1>1 DEF Built, BuilderTypes
<1>3. \A b \in DOMAIN fn.blocks : fn.blocks[b].term = Open => b = fn.curr
  BY <1>1, EmptyHolds DEF Built, OnlyUnfilledAreOpen
<1>4. CASE hasTerminator(fn)
  BY <1>1, <1>2, <1>3, <1>4 DEF Built, Closed, hasTerminator
<1>5. CASE ~hasTerminator(fn)
  <2>1. IsOpen(fn) /\ IsGraph(fn) /\ Here \in Nat
    BY <1>5, CurrIsBlock DEF hasTerminator, IsOpen, Built
  <2>2. term \in Terminator /\ term.targets = << >> /\ term # Open
    <3>1. << >> \in Seq(Operand)
      OBVIOUS
    <3> QED BY <2>1, <3>1, ReturnTyped
  <2> HIDE DEF term
  <2>3. /\ Advances(fn, fn', {})
        /\ \A b \in DOMAIN fn'.blocks : fn'.blocks[b].term = Open => b # fn.curr /\ fn.blocks[b].term = Open
        /\ SameShape(fn, fn')
    BY <1>1, <1>5, <2>1, <2>2, ReturnAdvances
  <2> QED BY <1>1, <1>2, <1>3, <2>3 DEF Advances, Closed, SameShape
<1> QED BY <1>4, <1>5

-----------------------------------------------------------------------------
(* What every step of building keeps.                                      *)
\* A function starts as its entry, which the parameters are defined in.
LEMMA WithParamsBuilds ==
  ASSUME NEW params \in Seq(Vars)
  PROVE  LET f == WithParams(params)
         IN  /\ IsGraph(f) /\ DOMAIN f.blocks = {1} /\ f.curr = 1
             /\ f.blocks[1].code =
                  [i \in DOMAIN params |-> Instr("param", i - 1, << >>, << >>, params[i], <<i>>)]
             /\ f.blocks[1].term = Open /\ f.blocks[1].defs = ToSet(params)
<1> DEFINE f == WithParams(params)
           code == [i \in DOMAIN params |-> Instr("param", i - 1, << >>, << >>, params[i], <<i>>)]
           B == [EmptyBlock EXCEPT !.code = code, !.defs = ToSet(params)]
           n == Len(params)
<1>1. n \in Nat /\ DOMAIN params = 1 .. n /\ \A i \in 1 .. n : params[i] \in Vars
  BY LenProperties, ElementOfSeq
<1> HIDE DEF n
<1>2. \A i \in 1 .. n : /\ Instr("param", i - 1, << >>, << >>, params[i], <<i>>) \in Instruction
                        /\ ~IsPhi(Instr("param", i - 1, << >>, << >>, params[i], <<i>>))
  BY <1>1 DEF Instr, Instruction, IsPhi
<1>3. /\ code \in Seq(Instruction)
      /\ \A k \in DOMAIN code : ~IsPhi(code[k])
  <2>1. code \in [1 .. n -> Instruction]
    BY <1>1, <1>2
  <2> QED BY <1>1, <1>2, <2>1, IsASeq
<1> HIDE DEF code
<1>4. ToSet(params) \subseteq Vars
  BY <1>1 DEF ToSet
<1>5. /\ f.blocks = <<B>> /\ f.curr = 1 /\ f.nextId = n
      /\ \A S : S = {<<B>>} => f \in [blocks : S, curr : {1}, nextId : {n}]
  <2> DEFINE parameters == ToSet(params)
             C == [EmptyBlock EXCEPT !.code = code]
             D == [C EXCEPT !.defs = parameters]
             g == [NewFunction EXCEPT !.nextId = n]
             h == [g EXCEPT !.blocks = [g.blocks EXCEPT ![1] = [g.blocks[1] EXCEPT !.code = code]]]
             k == [h EXCEPT !.blocks = [h.blocks EXCEPT ![1] = [h.blocks[1] EXCEPT !.defs = parameters]]]
  <2>1. f = k
    BY DEF WithParams, n, code
  <2>2. B = D
    OBVIOUS
  <2> HIDE DEF parameters, f, B
  <2>3. \A x, y : [<<x>> EXCEPT ![1] = y] = <<y>> /\ <<x>>[1] = x
    OBVIOUS
  <2>4. g \in [blocks : {<<EmptyBlock>>}, curr : {1}, nextId : {n}]
    BY DEF NewFunction
  <2> HIDE DEF g
  <2>5. h \in [blocks : {<<C>>}, curr : {1}, nextId : {n}]
    BY <2>3, <2>4
  <2> HIDE DEF h, C
  <2>6. k \in [blocks : {<<D>>}, curr : {1}, nextId : {n}]
    BY <2>3, <2>5
  <2> QED BY <2>1, <2>2, <2>6
<1>6. /\ B.code = code /\ B.preds = << >> /\ B.succs = << >> /\ B.term = Open
      /\ B \in [code : {code}, term : {Open}, preds : {<< >>}, succs : {<< >>}, defs : {ToSet(params)}]
  <2> DEFINE parameters == ToSet(params)
  <2> HIDE DEF parameters
  <2>1. EmptyBlock \in [code : {<< >>}, term : {Open}, preds : {<< >>}, succs : {<< >>}, defs : {{}}]
    BY DEF EmptyBlock
  <2>2. [EmptyBlock EXCEPT !.code = code, !.defs = parameters]
          \in [code : {code}, term : {Open}, preds : {<< >>}, succs : {<< >>}, defs : {parameters}]
    BY <2>1
  <2>3. B \in [code : {code}, term : {Open}, preds : {<< >>}, succs : {<< >>}, defs : {parameters}]
    BY <2>2 DEF parameters
  <2> QED BY <2>3 DEF parameters
<1> HIDE DEF B, f
<1>7. B \in Block
  <2> DEFINE parameters == ToSet(params)
  <2>1. parameters \in SUBSET Vars
    BY <1>4
  <2>2. B \in [code : {code}, term : {Open}, preds : {<< >>}, succs : {<< >>}, defs : {parameters}]
    BY <1>6
  <2>3. Open \in Terminator /\ << >> \in Seq(Nat)
    BY DEF Terminator
  <2> HIDE DEF parameters, Terminator
  <2> QED BY <1>3, <2>1, <2>2, <2>3 DEF Block
<1>8. <<B>> \in Seq(Block) /\ DOMAIN <<B>> = {1} /\ <<B>>[1] = B
  BY <1>7
<1>9. f \in Function
  <2> DEFINE bs == <<B>>
  <2>1. f \in [blocks : {bs}, curr : {1}, nextId : {n}] /\ bs \in Seq(Block) /\ n \in Nat
    BY <1>1, <1>5, <1>8
  <2> HIDE DEF bs
  <2>2. f \in [blocks : Seq(Block), curr : Nat, nextId : Nat]
    BY <2>1
  <2> QED BY <2>2 DEF Function
<1>10. DOMAIN f.blocks = {1} /\ f.blocks[1] = B
  BY <1>5, <1>8
<1>11. DOMAIN << >> = {} /\ Open.targets = << >>
  BY EmptySeq DEF Open
<1>12. EdgesInRange(f) /\ PhisMatchPredecessors(f) /\ SuccessorsAreTargets(f)
  BY <1>3, <1>6, <1>10, <1>11 DEF EdgesInRange, PhisMatchPredecessors, SuccessorsAreTargets
<1>13. EdgesAtBothEnds(f)
  BY <1>6, <1>10 DEF EdgesAtBothEnds
<1>14. f.blocks[1].code = code /\ f.blocks[1].term = Open /\ f.blocks[1].defs = ToSet(params)
  BY <1>6, <1>10
<1>15. IsGraph(f) /\ DOMAIN f.blocks = {1} /\ f.curr = 1
  BY <1>5, <1>9, <1>10, <1>12, <1>13 DEF IsGraph, HasEdges
<1> QED BY <1>1, <1>14, <1>15 DEF f, code

LEMMA BuilderInvHolds == Init => BuilderInv
<1> SUFFICES ASSUME Init PROVE BuilderInv
  OBVIOUS
<1>1. dialect \in Dialects /\ phase = "build" /\ fn = WithParams(dialect.params) /\ open = << >> /\ prog = << >>
  BY DEF Init, BuilderInit
<1>2. BuilderTypes
  BY <1>1 DEF BuilderTypes
<1>3. IsGraph(fn) /\ DOMAIN fn.blocks = {1} /\ fn.curr = 1
  BY <1>1, <1>2, DialectTyped, WithParamsBuilds
<1>4. TargetsAwait(fn, open) /\ OnlyUnfilledAreOpen(fn, open)
  BY <1>1, <1>3, EmptySeq DEF TargetsAwait, OnlyUnfilledAreOpen
<1> QED BY <1>1, <1>2, <1>3, <1>4 DEF BuilderInv

LEMMA BuildPhases ==
  ASSUME Build
  PROVE  phase = "build" /\ phase' \in {"build", "dominators"}
<1>1. phase = "build"
  BY DEF Build
<1>2. CASE SkipDeadStatement \/ BeginElse \/ EndIf \/ EndWhile \/ Break \/ Continue \/ FinishFunction
  BY <1>1, <1>2 DEF SkipDeadStatement, BeginElse, EndIf, EndWhile, Break, Continue, FinishFunction
<1>3. ASSUME NEW e, Let(e) \/ Expression(e) \/ BeginWhile(e) \/ ReturnValue(e)
      PROVE  phase' = phase
  BY <1>3 DEF Let, Expression, BeginWhile, ReturnValue
<1>4. ASSUME NEW x, NEW e, Assign(x, e)
      PROVE  phase' = phase
  BY <1>4 DEF Assign
<1>5. ASSUME NEW hasElse, NEW e, BeginIf(e, hasElse)
      PROVE  phase' = phase
  BY <1>5 DEF BeginIf
<1> QED BY <1>1, <1>2, <1>3, <1>4, <1>5 DEF Build

LEMMA BuildKeeps ==
  ASSUME BuilderInv, Build
  PROVE  BuilderInv'
<1>1. phase = "build" /\ Built
  BY DEF Build, BuilderInv, Built
<1>2. ASSUME Built', phase' = "build"
      PROVE  BuilderInv'
  BY <1>2 DEF Built, BuilderInv
<1>3. CASE SkipDeadStatement
  BY SMTT(30), <1>1, <1>2, <1>3, SkipDeadStatementKeeps DEF SkipDeadStatement
<1>4. ASSUME NEW e \in Exprs("let"), Let(e) PROVE BuilderInv'
  BY <1>1, <1>2, <1>4, LetKeeps DEF Let
<1>5. ASSUME NEW x \in Vars, NEW e \in Exprs("assign"), Assign(x, e) PROVE BuilderInv'
  BY <1>1, <1>2, <1>5, AssignKeeps DEF Assign
<1>6. ASSUME NEW e \in Exprs("expression"), Expression(e) PROVE BuilderInv'
  BY <1>1, <1>2, <1>6, ExpressionKeeps DEF Expression
<1>7. ASSUME NEW e \in Exprs("if"), NEW hasElse \in BOOLEAN, BeginIf(e, hasElse) PROVE BuilderInv'
  BY <1>1, <1>2, <1>7, BeginIfKeeps DEF BeginIf
<1>8. CASE BeginElse
  BY <1>1, <1>2, <1>8, BeginElseKeeps DEF BeginElse
<1>9. CASE EndIf
  BY <1>1, <1>2, <1>9, EndIfKeeps DEF EndIf
<1>10. ASSUME NEW e \in Exprs("while"), BeginWhile(e) PROVE BuilderInv'
  BY <1>1, <1>2, <1>10, BeginWhileKeeps DEF BeginWhile
<1>11. CASE EndWhile
  BY <1>1, <1>2, <1>11, EndWhileKeeps DEF EndWhile
<1>12. CASE Break
  BY <1>1, <1>2, <1>12, BreakKeeps DEF Break
<1>13. CASE Continue
  BY <1>1, <1>2, <1>13, ContinueKeeps DEF Continue
<1>14. ASSUME NEW e \in Exprs("return"), ReturnValue(e) PROVE BuilderInv'
  BY <1>1, <1>2, <1>14, ReturnValueKeeps DEF ReturnValue
<1>15. CASE FinishFunction
  BY <1>1, <1>15, FinishFunctionCloses DEF BuilderInv
<1> QED BY <1>3, <1>4, <1>5, <1>6, <1>7, <1>8, <1>9, <1>10, <1>11, <1>12, <1>13, <1>14, <1>15 DEF Build

\* SSA construction leaves the function alone until it inserts phis.
LEMMA BuildSSAPhases ==
  ASSUME BuildSSA
  PROVE  /\ UNCHANGED <<dialect, open, prog>>
         /\ phase \in {"dominators", "phis", "rename"}
         /\ phase' \in {"dominators", "phis", "rename", "renamed", "assertion failed", "no reaching definition"}
         /\ phase' \in {"dominators", "phis"} => fn' = fn /\ phase \in {"dominators", "phis"}
<1>1. CASE StartDominators
  BY <1>1 DEF StartDominators, builder
<1>2. CASE AssertionFails
  BY <1>2 DEF AssertionFails, builder
<1>3. CASE VisitBlock
  BY <1>3 DEF VisitBlock, builder
<1>4. CASE EndSweep
  BY <1>4 DEF EndSweep, builder
<1>5. ASSUME NEW x \in Vars, NEW b \in Blocks, PlacePhis(x, b)
      PROVE  UNCHANGED <<phase, builder>> /\ phase = "phis"
  BY <1>5 DEF PlacePhis
<1>6. CASE InsertPhis
  BY SMTT(30), <1>6 DEF InsertPhis
<1>7. CASE Rename
  BY <1>7 DEF Rename
<1>8. ASSUME NEW c \in Blocks, RenameChild(c)
      PROVE  UNCHANGED builder /\ phase = "rename" /\ phase' = "rename"
  BY <1>8 DEF RenameChild
<1>9. CASE LeaveBlock
  BY <1>9 DEF LeaveBlock, builder
<1> QED BY <1>1, <1>2, <1>3, <1>4, <1>5, <1>6, <1>7, <1>8, <1>9 DEF BuildSSA, builder

LEMMA BuildSSAKeeps ==
  ASSUME BuilderInv, BuildSSA
  PROVE  BuilderInv'
<1>1. UNCHANGED <<dialect, open, prog>>
  BY BuildSSAPhases
<1>2. \/ phase' \notin {"build", "dominators", "phis"}
      \/ fn' = fn /\ phase \in {"dominators", "phis"} /\ phase' \in {"dominators", "phis"}
  BY BuildSSAPhases
<1> QED BY <1>1, <1>2 DEF BuilderInv, BuilderTypes

\* Neither do the runs.
LEMMA RunKeeps ==
  ASSUME \/ Start
         \/ SourceStep
         \/ NativeStep
         \/ Operate
         \/ \E taken \in BOOLEAN : Decide(taken)
         \/ ReturnBoth
         \/ Stopped
  PROVE  /\ UNCHANGED <<builder, ssa>>
         /\ \/ phase' = phase
            \/ phase \in {"renamed", "run"} /\ phase' \in {"run", "returned"}
<1>1. CASE Start
  BY <1>1 DEF Start
<1>2. CASE SourceStep
  BY <1>2 DEF SourceStep
<1>3. CASE NativeStep
  BY <1>3 DEF NativeStep
<1>4. ASSUME Operate
      PROVE  UNCHANGED <<phase, builder, ssa>>
  BY <1>4 DEF Operate
<1>5. ASSUME NEW taken \in BOOLEAN, Decide(taken)
      PROVE  UNCHANGED <<phase, builder, ssa>>
  BY <1>5 DEF Decide
<1>6. CASE ReturnBoth
  BY <1>6 DEF ReturnBoth, Meet
<1>7. ASSUME Stopped
      PROVE  UNCHANGED <<phase, builder, ssa>>
  BY <1>7 DEF Stopped, vars
<1> QED BY <1>1, <1>2, <1>3, <1>4, <1>5, <1>6, <1>7

LEMMA BuilderInvKept == BuilderInv /\ [Next]_vars => BuilderInv'
<1> SUFFICES ASSUME BuilderInv, [Next]_vars PROVE BuilderInv'
  OBVIOUS
<1>1. CASE Build
  BY <1>1, BuildKeeps
<1>2. CASE BuildSSA
  BY <1>2, BuildSSAKeeps
<1>3. CASE UNCHANGED builder /\ (phase' = phase \/ phase' \in {"run", "returned"})
  BY <1>3 DEF builder, BuilderInv, BuilderTypes
<1>4. CASE UNCHANGED vars
  BY <1>3, <1>4 DEF vars
<1> QED BY <1>1, <1>2, <1>3, <1>4, RunKeeps DEF Next

\* What building promises dominance and renaming holds of every run.
THEOREM BuilderInvariant == Spec => []BuilderInv
BY BuilderInvHolds, BuilderInvKept, PTL DEF Spec

\* Every edge is known at both its ends, to the terminator and to the phis.
THEOREM EdgesMatch == Spec => []EdgesMatchTerminators
<1>1. BuilderInv => EdgesMatchTerminators
  <2> SUFFICES ASSUME BuilderInv, phase = "dominators", NEW b \in Blocks
               PROVE  /\ fn.blocks[b].succs = fn.blocks[b].term.targets
                      /\ \A k \in DOMAIN fn.blocks[b].code :
                           fn.blocks[b].code[k].op = "phi" => fn.blocks[b].code[k].preds = fn.blocks[b].preds
                      /\ \A c \in Blocks : Count(fn.blocks[b].succs, c) = Count(fn.blocks[c].preds, b)
    BY DEF EdgesMatchTerminators, Count
  <2>1. IsGraph(fn)
    BY DEF BuilderInv
  <2> QED BY <2>1 DEF IsGraph, HasEdges, SuccessorsAreTargets, PhisMatchPredecessors, EdgesAtBothEnds,
                      Blocks, IsPhi
<1> QED BY <1>1, BuilderInvariant, PTL

-----------------------------------------------------------------------------
(* Dominators.                                                             *)
\* The blocks of the smallest set that holds the entry and what its blocks lead
\* to, but for d.
LeadsOn(f, d, C) ==
  /\ {1} \ {d} \subseteq C
  /\ \A c \in C : ToSet(f.blocks[c].succs) \ {d} \subseteq C
LeastReached(f, d) ==
  {b \in DOMAIN f.blocks : \A C \in SUBSET DOMAIN f.blocks : LeadsOn(f, d, C) => b \in C}

\* A predecessor is a block that leads here.
LEMMA PredecessorsLead ==
  ASSUME NEW f, IsGraph(f), NEW b \in DOMAIN f.blocks, NEW c \in DOMAIN f.blocks
  PROVE  c \in ToSet(f.blocks[b].preds) <=> b \in ToSet(f.blocks[c].succs)
<1>1. f.blocks[b] \in Block /\ f.blocks[c] \in Block
  BY ElementOfSeq DEF IsGraph, HasEdges, Function
<1>2. f.blocks[b].preds \in Seq(Nat) /\ f.blocks[c].succs \in Seq(Nat)
  BY <1>1 DEF Block
<1>3. Count(f.blocks[c].succs, b) = Count(f.blocks[b].preds, c)
  BY DEF IsGraph, HasEdges, EdgesAtBothEnds
<1>4. Holds(f.blocks[c].succs, b) <=> Holds(f.blocks[b].preds, c)
  BY <1>2, <1>3, CountHolds
<1> QED BY <1>4 DEF Holds, ToSet

LEMMA GraphBlocks ==
  ASSUME NEW f, IsGraph(f)
  PROVE  /\ Len(f.blocks) \in Nat
         /\ DOMAIN f.blocks = 1 .. Len(f.blocks)
         /\ 1 \in DOMAIN f.blocks
         /\ \A b \in DOMAIN f.blocks : /\ ToSet(f.blocks[b].succs) \subseteq DOMAIN f.blocks
                                       /\ ToSet(f.blocks[b].preds) \subseteq DOMAIN f.blocks
<1>1. Len(f.blocks) \in Nat /\ DOMAIN f.blocks = 1 .. Len(f.blocks) /\ f.curr \in DOMAIN f.blocks
  BY LenProperties DEF IsGraph, HasEdges, Function
<1>2. \A b \in DOMAIN f.blocks : /\ ToSet(f.blocks[b].succs) \subseteq DOMAIN f.blocks
                                 /\ ToSet(f.blocks[b].preds) \subseteq DOMAIN f.blocks
  BY DEF IsGraph, HasEdges, EdgesInRange, ToSet
<1> QED BY <1>1, <1>2

\* The smallest set leads on itself.
LEMMA LeastReachedLeadsOn ==
  ASSUME NEW f, IsGraph(f), NEW d
  PROVE  LeadsOn(f, d, LeastReached(f, d))
<1>1. {1} \ {d} \subseteq LeastReached(f, d)
  BY GraphBlocks DEF LeastReached, LeadsOn
<1>2. ASSUME NEW c \in LeastReached(f, d), NEW s \in ToSet(f.blocks[c].succs) \ {d}
      PROVE  s \in LeastReached(f, d)
  <2>1. c \in DOMAIN f.blocks /\ s \in DOMAIN f.blocks
    BY <1>2, GraphBlocks DEF LeastReached
  <2>2. ASSUME NEW C \in SUBSET DOMAIN f.blocks, LeadsOn(f, d, C)
        PROVE  s \in C
    <3>1. c \in C
      BY <1>2, <2>2 DEF LeastReached
    <3> QED BY <1>2, <2>2, <3>1 DEF LeadsOn
  <2> QED BY <2>1, <2>2 DEF LeastReached
<1> QED BY <1>1, <1>2 DEF LeadsOn

\* Following the edges as many times as there are blocks finds it.
LEMMA ReachedIsLeast ==
  ASSUME IsGraph(fn), NEW d
  PROVE  ReachedWithout(d) = LeastReached(fn, d)
<1> DEFINE More(T) == T \union ((UNION {ToSet(fn.blocks[c].succs) : c \in T}) \ {d})
           step == [T \in SUBSET Blocks |-> More(T)]
           start == {entry} \ {d}
           reached == CHOOSE r : r = [n \in Nat |->
                        IF n = 0 THEN {entry} \ {d}
                        ELSE LET before == r[n - 1]
                             IN  before \union ((UNION {ToSet(fn.blocks[c].succs) : c \in before}) \ {d})]
           N == Len(fn.blocks)
<1>1. /\ N \in Nat /\ Blocks = 1 .. N /\ entry \in Blocks
      /\ \A b \in Blocks : ToSet(fn.blocks[b].succs) \subseteq Blocks
  BY GraphBlocks DEF Blocks, entry
<1>2. ReachedWithout(d) = reached[N]
  BY DEF ReachedWithout
<1>3. step \in [SUBSET Blocks -> SUBSET Blocks] /\ start \in SUBSET Blocks
  <2>1. ASSUME NEW T \in SUBSET Blocks
        PROVE  More(T) \in SUBSET Blocks
    BY ZenonT(60), <1>1
  <2>2. start \in SUBSET Blocks
    BY <1>1
  <2> HIDE DEF More, start
  <2> QED BY <2>1, <2>2
<1>4. PICK g \in [Nat -> SUBSET Blocks] : g[0] = start /\ \A n \in Nat : g[n + 1] = step[g[n]]
  <2> DEFINE S == SUBSET Blocks
  <2>1. start \in S /\ step \in [S -> S]
    BY <1>3
  <2> HIDE DEF step, start, S
  <2>2. \E g \in [Nat -> S] : g[0] = start /\ \A n \in Nat : g[n + 1] = step[g[n]]
    BY ONLY <2>1, IterationExists
  <2> QED BY <2>2 DEF S
<1>5. \A n \in Nat : g[n + 1] = More(g[n])
  BY <1>4
<1>6. reached = [n \in Nat |->
                   IF n = 0 THEN {entry} \ {d}
                   ELSE LET before == reached[n - 1]
                        IN  before \union ((UNION {ToSet(fn.blocks[c].succs) : c \in before}) \ {d})]
  <2> DEFINE body(r) == [n \in Nat |-> IF n = 0 THEN start ELSE More(r[n - 1])]
  <2>1. g = body(g)
    <3>1. ASSUME NEW n \in Nat
          PROVE  g[n] = IF n = 0 THEN start ELSE More(g[n - 1])
      <4>1. CASE n = 0
        BY <1>4, <4>1
      <4>2. CASE n # 0
        <5>1. n - 1 \in Nat /\ (n - 1) + 1 = n
          BY <4>2
        <5>2. g[n] = More(g[n - 1])
          <6> HIDE DEF More
          <6> QED BY <1>5, <5>1
        <5> QED BY <4>2, <5>2
      <4> QED BY <4>1, <4>2
    <3> HIDE DEF More, start
    <3> QED BY <1>4, <3>1
  <2> QED BY <2>1
<1> HIDE DEF reached
<1>7. /\ reached[0] = start
      /\ \A n \in Nat : reached[n + 1] = More(reached[n])
  <2>1. reached[0] = start
    BY <1>6
  <2>2. ASSUME NEW n \in Nat
        PROVE  reached[n + 1] = More(reached[n])
    <3>1. n + 1 \in Nat /\ n + 1 # 0 /\ (n + 1) - 1 = n
      OBVIOUS
    <3>2. reached[n + 1] = IF n + 1 = 0 THEN start ELSE More(reached[(n + 1) - 1])
      BY <1>6, <3>1
    <3> HIDE DEF More
    <3> QED BY <3>1, <3>2
  <2> QED BY <2>1, <2>2
<1>8. \A n \in Nat : reached[n] \in SUBSET Blocks
  <2> DEFINE T == {n \in Nat : reached[n] \in SUBSET Blocks}
  <2>1. 0 \in T
    BY <1>3, <1>7
  <2>2. ASSUME NEW n \in Nat, n \in T
        PROVE  n + 1 \in T
    <3>1. More(reached[n]) \in SUBSET Blocks
      BY <1>1, <2>2
    <3> QED BY <1>7, <3>1
  <2>3. \A n \in Nat : n \in T
    <3> HIDE DEF T
    <3> QED BY <2>1, <2>2, SetInduction
  <2> QED BY <2>3
\* Nothing but what is reached is found.
<1>9. \A n \in Nat : reached[n] \subseteq LeastReached(fn, d)
  <2> DEFINE T == {n \in Nat : reached[n] \subseteq LeastReached(fn, d)}
  <2>1. LeadsOn(fn, d, LeastReached(fn, d))
    BY LeastReachedLeadsOn
  <2>2. 0 \in T
    BY <1>7, <2>1 DEF LeadsOn, entry
  <2>3. ASSUME NEW n \in Nat, n \in T
        PROVE  n + 1 \in T
    <3>1. \A c \in reached[n] : ToSet(fn.blocks[c].succs) \ {d} \subseteq LeastReached(fn, d)
      BY <2>1, <2>3 DEF LeadsOn
    <3>2. More(reached[n]) \subseteq LeastReached(fn, d)
      BY <2>3, <3>1
    <3> QED BY <1>7, <3>2
  <2>4. \A n \in Nat : n \in T
    <3> HIDE DEF T
    <3> QED BY <2>2, <2>3, SetInduction
  <2> QED BY <2>4
\* What is found leads on.
<1>10. reached[N + 1] = reached[N]
  <2> DEFINE h == [n \in Nat |-> reached[n]]
  <2>1. IsFiniteSet(Blocks) /\ Cardinality(Blocks) = N
    <3>1. N \in Nat /\ N # 0 /\ Blocks = 1 .. N
      BY <1>1
    <3> HIDE DEF N
    <3>2. IsFiniteSet(1 .. N) /\ Cardinality(1 .. N) = N
      BY ONLY <3>1, FS_Interval
    <3> QED BY <3>1, <3>2
  <2>2. h \in [Nat -> SUBSET Blocks]
    BY <1>8
  <2>3. \A n \in Nat : h[n] = reached[n] /\ h[n + 1] = reached[n + 1] /\ h[n + 2] = reached[n + 2]
    OBVIOUS
  <2>4. \A n \in Nat : reached[n] \subseteq reached[n + 1]
    BY <1>7
  <2>5. \A n \in Nat : reached[n + 1] = reached[n] => reached[n + 2] = reached[n + 1]
    <3> TAKE n \in Nat
    <3>1. n + 1 \in Nat /\ (n + 1) + 1 = n + 2
      OBVIOUS
    <3> HIDE DEF More
    <3>2. reached[n + 2] = More(reached[n + 1]) /\ reached[n + 1] = More(reached[n])
      BY <1>7, <3>1
    <3> QED BY <3>2
  <2> HIDE DEF h
  <2>6. h[N + 1] = h[N]
    <3> DEFINE S == Blocks
    <3>1. /\ IsFiniteSet(S)
          /\ h \in [Nat -> SUBSET S]
          /\ \A n \in Nat : h[n] \subseteq h[n + 1]
          /\ \A n \in Nat : h[n + 1] = h[n] => h[n + 2] = h[n + 1]
      BY <2>1, <2>2, <2>3, <2>4, <2>5
    <3> HIDE DEF S
    <3>2. h[Cardinality(S) + 1] = h[Cardinality(S)]
      BY ONLY <3>1, GrowthStops
    <3> QED BY <2>1, <3>2 DEF S
  <2> QED BY <1>1, <2>3, <2>6
<1>11. LeadsOn(fn, d, reached[N])
  <2>1. start \subseteq reached[N]
    <3> DEFINE T == {n \in Nat : start \subseteq reached[n]}
    <3>1. 0 \in T
      BY <1>7
    <3>2. ASSUME NEW n \in Nat, n \in T PROVE n + 1 \in T
      BY <1>7, <3>2
    <3>3. \A n \in Nat : n \in T
      <4> HIDE DEF T
      <4> QED BY <3>1, <3>2, SetInduction
    <3> QED BY <1>1, <3>3
  <2>2. reached[N] = More(reached[N])
    <3> HIDE DEF More
    <3> QED BY <1>1, <1>7, <1>10
  <2>3. \A c \in reached[N] : ToSet(fn.blocks[c].succs) \ {d} \subseteq reached[N]
    <3> DEFINE R == reached[N]
    <3>1. R = More(R)
      BY <2>2
    <3> HIDE DEF R
    <3>2. \A c \in R : ToSet(fn.blocks[c].succs) \ {d} \subseteq R
      BY <3>1
    <3> QED BY <3>2 DEF R
  <2> QED BY <2>1, <2>3 DEF LeadsOn, entry
<1>12. LeastReached(fn, d) \subseteq reached[N]
  BY <1>1, <1>8, <1>11 DEF LeastReached, Blocks
<1>13. reached[N] \subseteq LeastReached(fn, d)
  BY <1>1, <1>9
<1> HIDE DEF N
<1> QED BY <1>2, <1>12, <1>13 DEF reached

\* What computeDoms keeps while it iterates: it has ruled out d for b only where
\* b is reached without d, and what it has passed without a change agrees with
\* its predecessors.
RuledOutAreReached == \A b, d \in Blocks : d \notin dom[b] => b \in LeastReached(fn, d)
Settled(b) == b # entry => NewDom(b) = dom[b]
Iterating == phase = "dominators" /\ visiting # 0
DominatorInv ==
  /\ phase = "build" => visiting = 0
  /\ phase = "dominators" => visiting \in Nat
  /\ Iterating \/ phase = "phis" =>
       /\ dom \in [Blocks -> SUBSET Blocks]
       /\ dom[entry] = {entry}
       /\ RuledOutAreReached
  /\ Iterating /\ ~changed => \A b \in Blocks : b < visiting => Settled(b)
  /\ phase = "phis" => \A b \in Blocks : Settled(b)

\* A block that some predecessor is reached without d is reached without it.
LEMMA NewDomIsReached ==
  ASSUME IsGraph(fn), RuledOutAreReached, NEW b \in Blocks, NEW d \in Blocks, d \notin NewDom(b)
  PROVE  b \in LeastReached(fn, d)
<1>1. d # b /\ \E p \in Preds(b) : d \notin dom[p]
  BY DEF NewDom
<1>2. PICK p \in Preds(b) : d \notin dom[p]
  BY <1>1
<1>3. p \in Blocks
  BY GraphBlocks DEF Preds, Blocks
<1>4. p \in LeastReached(fn, d)
  BY <1>2, <1>3 DEF RuledOutAreReached
<1>5. b \in ToSet(fn.blocks[p].succs)
  BY <1>3, PredecessorsLead DEF Preds, Blocks
<1> QED BY <1>1, <1>4, <1>5, LeastReachedLeadsOn DEF LeadsOn

\* Where dominators agree with those of the predecessors, no d is kept for a
\* block reached without it.
LEMMA SettledIsReached ==
  ASSUME IsGraph(fn), dom \in [Blocks -> SUBSET Blocks], dom[entry] = {entry},
         \A b \in Blocks : Settled(b),
         NEW d \in Blocks, NEW b \in LeastReached(fn, d)
  PROVE  d \notin dom[b]
<1> DEFINE C == {c \in Blocks : d \notin dom[c]}
<1>1. {1} \ {d} \subseteq C
  BY GraphBlocks DEF Blocks, entry
<1>2. ASSUME NEW c \in C, NEW s \in ToSet(fn.blocks[c].succs) \ {d}
      PROVE  s \in C
  <2>1. s \in Blocks /\ c \in Blocks
    BY GraphBlocks DEF Blocks
  <2>2. CASE s = entry
    BY <2>1, <2>2
  <2>3. CASE s # entry
    <3>1. c \in Preds(s)
      BY <2>1, PredecessorsLead DEF Preds, Blocks
    <3>2. dom[s] = {s} \union {x \in Blocks : \A p \in Preds(s) : x \in dom[p]}
      BY <2>1, <2>3 DEF Settled, NewDom
    <3> QED BY <2>1, <3>1, <3>2
  <2> QED BY <2>2, <2>3
<1>3. LeadsOn(fn, d, C)
  BY <1>1, <1>2 DEF LeadsOn
<1>4. C \in SUBSET DOMAIN fn.blocks
  BY DEF Blocks
<1> HIDE DEF C
<1>5. b \in C
  BY <1>3, <1>4 DEF LeastReached
<1> QED BY <1>5 DEF C

LEMMA DominatorInvHolds == Init => DominatorInv
BY DEF Init, BuilderInit, SSAInit, DominatorInv, Iterating

\* At first everything but the entry may dominate a block.
LEMMA StartDominatorsKeeps ==
  ASSUME IsGraph(fn), StartDominators
  PROVE  DominatorInv'
<1>1. /\ phase' = "dominators" /\ fn' = fn
      /\ dom' = [b \in Blocks |-> IF b = entry THEN {entry} ELSE Blocks]
      /\ visiting' = 1
      /\ Blocks' = Blocks /\ entry \in Blocks
      /\ Blocks \subseteq Nat /\ \A b \in Blocks : ~(b < 1)
  BY GraphBlocks DEF StartDominators, builder, Blocks, entry
<1>2. dom' \in [Blocks -> SUBSET Blocks] /\ dom'[entry] = {entry}
  BY <1>1
<1>3. ASSUME NEW b \in Blocks, NEW d \in Blocks, d \notin dom'[b]
      PROVE  b \in LeastReached(fn, d)
  <2>1. b = entry /\ d # entry
    BY <1>1, <1>3
  <2>2. LeadsOn(fn, d, LeastReached(fn, d))
    BY LeastReachedLeadsOn
  <2> QED BY <2>1, <2>2 DEF LeadsOn, entry
<1>4. RuledOutAreReached'
  BY <1>1, <1>3 DEF RuledOutAreReached
<1> QED BY <1>1, <1>2, <1>4 DEF DominatorInv, Iterating

LEMMA VisitBlockKeeps ==
  ASSUME IsGraph(fn), DominatorInv, VisitBlock
  PROVE  DominatorInv'
<1>1. /\ phase = "dominators" /\ phase' = "dominators" /\ fn' = fn /\ Blocks' = Blocks
      /\ visiting \in Blocks /\ visiting' = visiting + 1
      /\ entry \in Blocks /\ Blocks \subseteq Nat /\ 0 \notin Blocks
  BY GraphBlocks DEF VisitBlock, builder, Blocks, entry
<1>2. /\ dom \in [Blocks -> SUBSET Blocks] /\ dom[entry] = {entry} /\ RuledOutAreReached
      /\ ~changed => \A b \in Blocks : b < visiting => Settled(b)
  BY <1>1 DEF DominatorInv, Iterating
<1>3. visiting' \in Nat /\ visiting' # 0 /\ visiting \in Nat
  BY <1>1
<1>4. CASE visiting # entry /\ NewDom(visiting) # dom[visiting]
  <2>1. dom' = [dom EXCEPT ![visiting] = NewDom(visiting)] /\ changed' = TRUE
    BY <1>4 DEF VisitBlock
  <2>2. NewDom(visiting) \in SUBSET Blocks
    BY <1>1 DEF NewDom
  <2>3. dom' \in [Blocks -> SUBSET Blocks] /\ dom'[entry] = {entry}
    BY <1>1, <1>2, <1>4, <2>1, <2>2
  <2>4. ASSUME NEW b \in Blocks, NEW d \in Blocks, d \notin dom'[b]
        PROVE  b \in LeastReached(fn, d)
    <3>1. CASE b = visiting
      <4>1. d \notin NewDom(b)
        BY <1>2, <2>1, <2>4, <3>1
      <4> QED BY <1>2, <4>1, NewDomIsReached
    <3>2. CASE b # visiting
      <4>1. d \notin dom[b]
        BY <1>2, <2>1, <2>4, <3>2
      <4> QED BY <1>2, <4>1 DEF RuledOutAreReached
    <3> QED BY <3>1, <3>2
  <2>5. RuledOutAreReached'
    BY <1>1, <2>4 DEF RuledOutAreReached
  <2> QED BY <1>1, <1>3, <2>1, <2>3, <2>5 DEF DominatorInv, Iterating
<1>5. CASE ~(visiting # entry /\ NewDom(visiting) # dom[visiting])
  <2>1. UNCHANGED <<dom, changed>>
    BY <1>5 DEF VisitBlock
  <2>2. Settled(visiting)
    BY <1>5 DEF Settled
  <2>3. \A b \in Blocks : b < visiting + 1 => b < visiting \/ b = visiting
    BY <1>1, <1>3
  <2>4. ~changed => \A b \in Blocks : b < visiting' => Settled(b)
    BY <1>1, <1>2, <2>2, <2>3
  <2>5. \A b \in Blocks : Settled(b) => Settled(b)'
    BY <1>1, <2>1 DEF Settled, NewDom, Preds
  <2>6. ~changed' => \A b \in Blocks' : b < visiting' => Settled(b)'
    BY <1>1, <2>1, <2>4, <2>5
  <2>7. RuledOutAreReached'
    BY <1>1, <1>2, <2>1 DEF RuledOutAreReached
  <2>8. phase' # "phis" /\ phase' # "build"
    BY <1>1
  <2> QED BY <1>1, <1>2, <1>3, <2>1, <2>6, <2>7, <2>8 DEF DominatorInv, Iterating
<1> QED BY <1>4, <1>5

\* A sweep without a change has passed every block.
LEMMA EndSweepKeeps ==
  ASSUME IsGraph(fn), DominatorInv, EndSweep
  PROVE  DominatorInv'
<1>1. /\ phase = "dominators" /\ fn' = fn /\ dom' = dom /\ Blocks' = Blocks
      /\ visiting = Len(fn.blocks) + 1
      /\ Len(fn.blocks) \in Nat /\ Blocks = 1 .. Len(fn.blocks)
  BY GraphBlocks DEF EndSweep, builder, Blocks
<1>2. /\ dom \in [Blocks -> SUBSET Blocks] /\ dom[entry] = {entry} /\ RuledOutAreReached
      /\ ~changed => \A b \in Blocks : b < visiting => Settled(b)
  BY <1>1 DEF DominatorInv, Iterating
<1>3. RuledOutAreReached' /\ \A b \in Blocks : Settled(b) => Settled(b)'
  BY <1>1, <1>2 DEF RuledOutAreReached, Settled, NewDom, Preds
<1>4. CASE changed
  <2>1. phase' = "dominators" /\ visiting' = 1 /\ changed' = FALSE
    BY <1>1, <1>4 DEF EndSweep
  <2>2. \A b \in Blocks' : ~(b < visiting')
    BY <1>1, <2>1
  <2> QED BY <1>1, <1>2, <1>3, <2>1, <2>2 DEF DominatorInv, Iterating
<1>5. CASE ~changed
  <2>1. phase' = "phis"
    BY <1>5 DEF EndSweep
  <2>2. \A b \in Blocks : b < visiting
    BY <1>1
  <2>3. \A b \in Blocks' : Settled(b)'
    BY <1>1, <1>2, <1>3, <1>5, <2>2
  <2> QED BY <1>1, <1>2, <1>3, <2>1, <2>3 DEF DominatorInv, Iterating
<1> QED BY <1>4, <1>5

LEMMA DominatorInvKept == BuilderInv /\ DominatorInv /\ [Next]_vars => DominatorInv'
<1> SUFFICES ASSUME BuilderInv, DominatorInv, [Next]_vars PROVE DominatorInv'
  OBVIOUS
<1>1. phase \in {"dominators", "phis"} => IsGraph(fn)
  BY DEF BuilderInv
<1>2. ASSUME phase' \notin {"build", "dominators", "phis"}
      PROVE  DominatorInv'
  BY <1>2 DEF DominatorInv, Iterating
<1>3. ASSUME fn' = fn, UNCHANGED doms, phase' = phase
      PROVE  DominatorInv'
  <2>1. Blocks' = Blocks /\ dom' = dom /\ visiting' = visiting /\ changed' = changed
    BY <1>3 DEF Blocks, doms
  <2>2. RuledOutAreReached => RuledOutAreReached'
    BY <1>3, <2>1 DEF RuledOutAreReached
  <2>3. \A b \in Blocks : Settled(b) => Settled(b)'
    BY <1>3, <2>1 DEF Settled, NewDom, Preds
  <2> QED BY <1>3, <2>1, <2>2, <2>3 DEF DominatorInv, Iterating
<1>4. CASE Build /\ UNCHANGED ssa
  <2>1. phase = "build" /\ phase' \in {"build", "dominators"} /\ visiting' = visiting
    BY <1>4, BuildPhases DEF ssa
  <2>2. visiting' = 0
    BY <2>1 DEF DominatorInv
  <2> QED BY <2>1, <2>2 DEF DominatorInv, Iterating
<1>5. CASE StartDominators
  BY <1>1, <1>5, StartDominatorsKeeps DEF StartDominators
<1>6. CASE AssertionFails
  BY <1>2, <1>6 DEF AssertionFails
<1>7. CASE VisitBlock
  BY <1>1, <1>7, VisitBlockKeeps DEF VisitBlock
<1>8. CASE EndSweep
  BY <1>1, <1>8, EndSweepKeeps DEF EndSweep
<1>9. ASSUME NEW x \in Vars, NEW b \in Blocks, PlacePhis(x, b)
      PROVE  DominatorInv'
  BY <1>3, <1>9 DEF PlacePhis, builder
<1>10. CASE InsertPhis
  BY <1>2, <1>10 DEF InsertPhis
<1>11. CASE Rename \/ LeaveBlock \/ \E c \in Blocks : RenameChild(c)
  <2>1. phase' \in {"rename", "renamed", "no reaching definition"}
    BY <1>11 DEF Rename, LeaveBlock, RenameChild
  <2> QED BY ZenonT(60), <1>2, <2>1
<1>12. CASE UNCHANGED <<builder, ssa>> /\ phase' = phase
  BY <1>3, <1>12 DEF builder, ssa, doms
<1>13. CASE phase' \in {"run", "returned"}
  BY <1>2, <1>13
<1>14. CASE UNCHANGED vars
  BY <1>12, <1>14 DEF vars
<1> QED BY <1>4, <1>5, <1>6, <1>7, <1>8, <1>9, <1>10, <1>11, <1>12, <1>13, <1>14, RunKeeps DEF Next, BuildSSA

\* computeDoms starts from all blocks and takes one away from dom[b] only when a path
\* reaches b without it; a sweep that changes nothing has left dom a solution.
THEOREM DominatorInvariant == Spec => []DominatorInv
<1>1. Init => BuilderInv /\ DominatorInv
  BY BuilderInvHolds, DominatorInvHolds
<1>2. BuilderInv /\ DominatorInv /\ [Next]_vars => (BuilderInv /\ DominatorInv)'
  BY BuilderInvKept, DominatorInvKept
<1> QED BY <1>1, <1>2, PTL DEF Spec

\* A block dominates exactly the blocks that no path reaches without it.
THEOREM DominanceIsExact == Spec => []DominatorsAreExact
<1>1. BuilderInv /\ DominatorInv => DominatorsAreExact
  <2> SUFFICES ASSUME BuilderInv, DominatorInv, phase = "phis", NEW d \in Blocks
               PROVE  {b \in Blocks : d \in dom[b]} = Blocks \ ReachedWithout(d)
    BY DEF DominatorsAreExact
  <2>1. /\ IsGraph(fn)
        /\ dom \in [Blocks -> SUBSET Blocks] /\ dom[entry] = {entry}
        /\ RuledOutAreReached /\ \A b \in Blocks : Settled(b)
    BY DEF BuilderInv, DominatorInv
  <2>2. ReachedWithout(d) = LeastReached(fn, d)
    BY <2>1, ReachedIsLeast
  <2>3. \A b \in Blocks : d \notin dom[b] => b \in LeastReached(fn, d)
    BY <2>1 DEF RuledOutAreReached
  <2>4. \A b \in LeastReached(fn, d) : d \notin dom[b]
    BY <2>1, SettledIsReached
  <2> QED BY <2>2, <2>3, <2>4
<1> QED BY <1>1, BuilderInvariant, DominatorInvariant, PTL

-----------------------------------------------------------------------------
(* Inserting phis and renaming leave the graph.                            *)
BlockFields == {"code", "term", "preds", "succs", "defs"}
TermFields == {"kind", "args", "targets", "at"}
HasFields(B) == DOMAIN B = BlockFields /\ DOMAIN B.term = TermFields

\* B is A with other code and other operands.
SameExits(A, B) ==
  /\ B.preds = A.preds /\ B.succs = A.succs /\ B.defs = A.defs
  /\ B.term.kind = A.term.kind /\ B.term.targets = A.term.targets
SameGraph(f, g) ==
  /\ g.curr = f.curr /\ DOMAIN g.blocks = DOMAIN f.blocks
  /\ \A b \in DOMAIN f.blocks : HasFields(g.blocks[b]) /\ SameExits(f.blocks[b], g.blocks[b])

FunctionFields(f) ==
  DOMAIN f = {"blocks", "curr", "nextId"} /\ \A b \in DOMAIN f.blocks : HasFields(f.blocks[b])

LEMMA BlocksHaveFields ==
  ASSUME NEW f \in Function
  PROVE  FunctionFields(f)
<1>1. f.blocks \in Seq(Block) /\ DOMAIN f = {"blocks", "curr", "nextId"}
  BY DEF Function
<1>2. \A b \in DOMAIN f.blocks : f.blocks[b] \in Block
  BY <1>1, LenProperties, ElementOfSeq
<1>3. ASSUME NEW B \in Block
      PROVE  HasFields(B)
  <2>1. B.term \in Terminator /\ DOMAIN B = BlockFields
    BY DEF Block, BlockFields
  <2>2. DOMAIN B.term = TermFields
    BY <2>1 DEF Terminator, Open, TermFields
  <2> QED BY <2>1, <2>2 DEF HasFields
<1> QED BY <1>1, <1>2, <1>3 DEF FunctionFields

LEMMA insertPhisKeepsGraph ==
  ASSUME FunctionFields(fn)
  PROVE  SameGraph(fn, insertPhis(fn)) /\ FunctionFields(insertPhis(fn))
<1> DEFINE g == insertPhis(fn)
<1>1. /\ DOMAIN g = DOMAIN fn /\ g.curr = fn.curr
      /\ DOMAIN g.blocks = DOMAIN fn.blocks
      /\ \A b \in DOMAIN fn.blocks : \E c : g.blocks[b] = [fn.blocks[b] EXCEPT !.code = c]
  BY DEF insertPhis, FunctionFields
<1> HIDE DEF g
<1>2. ASSUME NEW b \in DOMAIN fn.blocks
      PROVE  HasFields(g.blocks[b]) /\ SameExits(fn.blocks[b], g.blocks[b])
  <2>1. PICK c : g.blocks[b] = [fn.blocks[b] EXCEPT !.code = c]
    BY <1>1
  <2> QED BY <2>1 DEF FunctionFields, HasFields, SameExits, BlockFields
<1> QED BY SMTT(30), <1>1, <1>2 DEF SameGraph, FunctionFields, g

LEMMA RenameKeepsGraph ==
  ASSUME FunctionFields(fn), Rename
  PROVE  fn' = fn \/ (SameGraph(fn, fn') /\ FunctionFields(fn'))
<1> DEFINE b == Call.block
           r == renamed(b)
           term == fn.blocks[b].term
           f1 == [fn EXCEPT !.blocks[b].code = r.code,
                            !.blocks[b].term.args = [i \in DOMAIN @ |-> Lookup(r.stack, @[i])]]
           filled(s) == [f1.blocks[s] EXCEPT !.code = [k \in DOMAIN @ |-> FilledFrom(r.stack, b, @[k])]]
<1> SUFFICES ASSUME fn' # fn
             PROVE  SameGraph(fn, fn') /\ FunctionFields(fn')
  OBVIOUS
<1>1. fn' = [f1 EXCEPT !.blocks = [s \in DOMAIN @ |-> IF s \in ToSet(fn.blocks[b].succs) THEN filled(s) ELSE @[s]]]
  BY ZenonT(60) DEF Rename
<1>2. /\ DOMAIN f1 = DOMAIN fn /\ f1.curr = fn.curr /\ DOMAIN f1.blocks = DOMAIN fn.blocks
      /\ \A s \in DOMAIN fn.blocks :
           \/ f1.blocks[s] = fn.blocks[s]
           \/ \E c, a : f1.blocks[s] = [fn.blocks[s] EXCEPT !.code = c, !.term.args = a]
  BY ZenonT(60) DEF FunctionFields
<1> HIDE DEF f1, r, term
<1>3. /\ DOMAIN fn' = DOMAIN fn /\ fn'.curr = fn.curr /\ DOMAIN fn'.blocks = DOMAIN fn.blocks
      /\ \A s \in DOMAIN fn.blocks :
           \/ fn'.blocks[s] = f1.blocks[s]
           \/ \E c : fn'.blocks[s] = [f1.blocks[s] EXCEPT !.code = c]
  BY <1>1, <1>2 DEF FunctionFields
<1>4. ASSUME NEW s \in DOMAIN fn.blocks
      PROVE  HasFields(f1.blocks[s]) /\ SameExits(fn.blocks[s], f1.blocks[s])
  <2>1. HasFields(fn.blocks[s])
    BY DEF FunctionFields
  <2>2. CASE f1.blocks[s] = fn.blocks[s]
    BY <2>1, <2>2 DEF SameExits
  <2>3. ASSUME NEW c, NEW a, f1.blocks[s] = [fn.blocks[s] EXCEPT !.code = c, !.term.args = a]
        PROVE  HasFields(f1.blocks[s]) /\ SameExits(fn.blocks[s], f1.blocks[s])
    BY <2>1, <2>3 DEF HasFields, SameExits, BlockFields, TermFields
  <2>4. CASE f1.blocks[s] # fn.blocks[s]
    <3>1. PICK c, a : f1.blocks[s] = [fn.blocks[s] EXCEPT !.code = c, !.term.args = a]
      BY <1>2, <2>4
    <3> QED BY <2>3, <3>1
  <2> QED BY <2>2, <2>4
<1>5. ASSUME NEW s \in DOMAIN fn.blocks
      PROVE  HasFields(fn'.blocks[s]) /\ SameExits(f1.blocks[s], fn'.blocks[s])
  <2>1. HasFields(f1.blocks[s])
    BY <1>4
  <2>2. CASE fn'.blocks[s] = f1.blocks[s]
    BY <2>1, <2>2 DEF SameExits
  <2>3. ASSUME NEW c, fn'.blocks[s] = [f1.blocks[s] EXCEPT !.code = c]
        PROVE  HasFields(fn'.blocks[s]) /\ SameExits(f1.blocks[s], fn'.blocks[s])
    BY <2>1, <2>3 DEF HasFields, SameExits, BlockFields
  <2> QED BY <1>3, <2>2, <2>3
<1> QED BY <1>3, <1>4, <1>5 DEF SameGraph, FunctionFields, SameExits

-----------------------------------------------------------------------------
(* The types of the graph and of what is computed from it.                 *)
GraphTypes ==
  /\ FunctionFields(fn)
  /\ fn.curr \in Blocks
  /\ \A b \in Blocks : /\ ToSet(fn.blocks[b].preds) \subseteq Blocks
                       /\ ToSet(fn.blocks[b].succs) \subseteq Blocks
                       /\ fn.blocks[b].defs \subseteq Vars
Complete == \A b \in Blocks : fn.blocks[b].term.kind # "open"
SSATypes ==
  /\ \A b \in DOMAIN dom : dom[b] \subseteq Blocks
  /\ \A x \in DOMAIN work : work[x] \subseteq Blocks
  /\ \A b \in DOMAIN phiBlocks : phiBlocks[b] \subseteq Vars
NothingComputed == dom = << >> /\ work = << >> /\ phiBlocks = << >>
ShapeInv ==
  /\ phase \in Phases
  /\ GraphTypes
  /\ phase # "build" => Complete
  /\ SSATypes
  /\ phase = "build" => NothingComputed
  /\ phase = "phis" => DOMAIN phiBlocks = Blocks

LEMMA GraphIsTyped ==
  ASSUME IsGraph(fn)
  PROVE  GraphTypes /\ (Closed(fn) => Complete)
<1>1. fn \in Function /\ fn.curr \in Blocks
  BY DEF IsGraph, HasEdges, Blocks
<1>2. \A b \in Blocks : fn.blocks[b] \in Block
  <2>1. fn.blocks \in Seq(Block)
    BY <1>1 DEF Function
  <2> QED BY <2>1, LenProperties, ElementOfSeq DEF Blocks
<1>3. ASSUME NEW b \in Blocks
      PROVE  /\ fn.blocks[b].defs \subseteq Vars
             /\ fn.blocks[b].term # Open => fn.blocks[b].term.kind # "open"
  <2>1. fn.blocks[b].defs \subseteq Vars /\ fn.blocks[b].term \in Terminator
    BY <1>2 DEF Block
  <2> QED BY <2>1 DEF Terminator
<1>4. \A b \in Blocks : /\ ToSet(fn.blocks[b].succs) \subseteq Blocks
                        /\ ToSet(fn.blocks[b].preds) \subseteq Blocks
  BY GraphBlocks DEF Blocks
<1> QED BY <1>1, <1>3, <1>4, BlocksHaveFields DEF GraphTypes, Complete, Closed, Blocks

\* What does not change the exits of blocks keeps the types.
LEMMA SameGraphIsTyped ==
  ASSUME GraphTypes, SameGraph(fn, fn'), FunctionFields(fn')
  PROVE  GraphTypes' /\ (Complete => Complete') /\ Blocks' = Blocks
  BY DEF GraphTypes, SameGraph, SameExits, Complete, Blocks, ToSet

LEMMA ShapeInvHolds == Init => ShapeInv
<1> SUFFICES ASSUME Init PROVE ShapeInv
  OBVIOUS
<1>1. BuilderInv
  BY BuilderInvHolds
<1>2. phase = "build" /\ NothingComputed
  BY DEF Init, BuilderInit, SSAInit, NothingComputed
<1>3. GraphTypes
  BY <1>1, <1>2, GraphIsTyped DEF BuilderInv
<1>4. SSATypes
  BY <1>2, EmptyHolds DEF NothingComputed, SSATypes
<1> QED BY <1>2, <1>3, <1>4 DEF ShapeInv, Phases

LEMMA BuildKeepsShape ==
  ASSUME ShapeInv, BuilderInv', Build, UNCHANGED ssa
  PROVE  ShapeInv'
<1>1. phase = "build" /\ phase' \in {"build", "dominators"}
  BY BuildPhases
<1>2. NothingComputed'
  BY <1>1 DEF ShapeInv, NothingComputed, ssa
<1>3. SSATypes'
  BY <1>2, EmptyHolds DEF NothingComputed, SSATypes
<1>4. GraphTypes'
  <2>1. IsGraph(fn)'
    BY <1>1 DEF BuilderInv
  <2>2. IsGraph(fn)' => GraphTypes'
    BY GraphIsTyped, PTL
  <2> QED BY <2>1, <2>2
<1>5. phase' # "build" => Complete'
  <2>1. phase' # "build" => IsGraph(fn)' /\ Closed(fn)'
    BY <1>1 DEF BuilderInv
  <2>2. IsGraph(fn)' /\ Closed(fn)' => Complete'
    BY GraphIsTyped, PTL
  <2> QED BY <2>1, <2>2
<1> QED BY <1>1, <1>2, <1>3, <1>4, <1>5 DEF ShapeInv, Phases

LEMMA BuildSSAKeepsShape ==
  ASSUME ShapeInv, BuildSSA
  PROVE  ShapeInv'
<1>1. /\ phase \in {"dominators", "phis", "rename"} /\ phase' \in Phases \ {"build"}
      /\ GraphTypes /\ Complete /\ SSATypes
  BY BuildSSAPhases DEF ShapeInv, Phases
<1>2. ASSUME fn' = fn, SSATypes', phase' = "phis" => DOMAIN phiBlocks' = Blocks
      PROVE  ShapeInv'
  BY <1>1, <1>2 DEF ShapeInv, GraphTypes, Complete, Blocks
<1>3. ASSUME SameGraph(fn, fn'), FunctionFields(fn'), UNCHANGED <<dom, work, phiBlocks>>, phase' # "phis"
      PROVE  ShapeInv'
  BY <1>1, <1>3, SameGraphIsTyped DEF ShapeInv, SSATypes
<1>4. ASSUME UNCHANGED <<fn, dom, work, phiBlocks>>, phase' # "phis"
      PROVE  ShapeInv'
  BY <1>1, <1>2, <1>4 DEF SSATypes, Blocks
<1>5. CASE StartDominators
  <2>1. /\ dom' = [b \in Blocks |-> IF b = entry THEN {entry} ELSE Blocks]
        /\ UNCHANGED <<fn, work, phiBlocks>> /\ phase' # "phis"
    BY <1>5 DEF StartDominators, builder, phis
  <2>2. Blocks' = Blocks
    BY <2>1 DEF Blocks
  <2>3. \A b \in Blocks : {b} \subseteq Blocks
    OBVIOUS
  <2>4. SSATypes'
    BY <1>1, <2>1, <2>2, <2>3 DEF SSATypes
  <2> QED BY <1>2, <2>1, <2>4
<1>6. CASE VisitBlock
  <2>1. /\ dom' = dom \/ (visiting \in Blocks /\ dom' = [dom EXCEPT ![visiting] = NewDom(visiting)])
        /\ UNCHANGED <<fn, work, phiBlocks>> /\ phase' # "phis"
    BY <1>6 DEF VisitBlock, builder, phis
  <2>2. visiting \in Blocks => NewDom(visiting) \subseteq Blocks
    BY DEF NewDom
  <2>3. SSATypes'
    BY <1>1, <2>1, <2>2 DEF SSATypes, Blocks
  <2> QED BY <1>2, <2>1, <2>3
<1>7. CASE EndSweep
  <2>1. /\ UNCHANGED <<fn, dom>>
        /\ \/ UNCHANGED <<work, phiBlocks>> /\ phase' # "phis"
           \/ /\ work' = [x \in Vars |-> {b \in Blocks : x \in fn.blocks[b].defs}]
              /\ phiBlocks' = [b \in Blocks |-> {}]
    BY <1>7 DEF EndSweep, builder, phis
  <2>2. SSATypes'
    BY <1>1, <2>1 DEF SSATypes, Blocks
  <2> QED BY <1>2, <2>1, <2>2
<1>8. ASSUME NEW x \in Vars, NEW b \in Blocks, PlacePhis(x, b)
      PROVE  ShapeInv'
  <2> DEFINE new == {y \in DF(b) : x \notin phiBlocks[y]}
  <2>1. /\ UNCHANGED <<fn, dom>>
        /\ work' = [work EXCEPT ![x] = (@ \ {b}) \union new]
        /\ phiBlocks' = [y \in Blocks |-> IF y \in new THEN phiBlocks[y] \union {x} ELSE phiBlocks[y]]
    BY <1>8 DEF PlacePhis, builder, doms
  <2>2. new \subseteq Blocks
    BY DEF DF
  <2>3. DOMAIN phiBlocks = Blocks
    BY <1>8 DEF PlacePhis, ShapeInv
  <2>4. \A y \in DOMAIN work' : work'[y] \subseteq Blocks
    BY <1>1, <2>1, <2>2 DEF SSATypes
  <2>5. \A y \in DOMAIN phiBlocks' : phiBlocks'[y] \subseteq Vars
    BY <1>1, <2>1, <2>3 DEF SSATypes
  <2>6. SSATypes' /\ DOMAIN phiBlocks' = Blocks
    BY <1>1, <2>1, <2>4, <2>5 DEF SSATypes, Blocks
  <2> QED BY <1>2, <2>1, <2>6
<1>9. CASE InsertPhis
  BY <1>1, <1>3, <1>9, insertPhisKeepsGraph DEF InsertPhis, doms, phis, GraphTypes
<1>10. CASE Rename
  <2>1. UNCHANGED <<dom, work, phiBlocks>> /\ phase' # "phis"
    BY <1>10 DEF Rename, doms, phis
  <2>2. fn' = fn \/ (SameGraph(fn, fn') /\ FunctionFields(fn'))
    BY <1>1, <1>10, RenameKeepsGraph DEF GraphTypes
  <2> QED BY <1>3, <1>4, <2>1, <2>2
<1>11. CASE AssertionFails
  BY <1>4, <1>11 DEF AssertionFails, builder, ssa
<1>12. ASSUME NEW c \in Blocks, RenameChild(c)
       PROVE  ShapeInv'
  BY <1>4, <1>12 DEF RenameChild, builder, doms, phis
<1>13. CASE LeaveBlock
  BY <1>4, <1>13 DEF LeaveBlock, builder, doms, phis
<1> QED BY <1>5, <1>6, <1>7, <1>8, <1>9, <1>10, <1>11, <1>12, <1>13 DEF BuildSSA

LEMMA ShapeInvKept == BuilderInv /\ ShapeInv /\ [Next]_vars => ShapeInv'
<1> SUFFICES ASSUME BuilderInv, ShapeInv, [Next]_vars PROVE ShapeInv'
  OBVIOUS
<1>1. CASE Build /\ UNCHANGED ssa
  BY <1>1, BuildKeeps, BuildKeepsShape
<1>2. CASE BuildSSA
  BY <1>2, BuildSSAKeepsShape
<1>3. ASSUME UNCHANGED <<builder, ssa>>,
             \/ phase' = phase
             \/ phase \in {"renamed", "run"} /\ phase' \in {"run", "returned"}
      PROVE  ShapeInv'
  <2>1. UNCHANGED <<fn, dom, work, phiBlocks>>
    BY <1>3 DEF builder, ssa
  <2>2. GraphTypes' /\ (Complete => Complete') /\ SSATypes'
    BY <2>1 DEF ShapeInv, GraphTypes, Complete, SSATypes, Blocks
  <2>3. phase' \in Phases
    BY <1>3 DEF ShapeInv, Phases
  <2> QED BY <1>3, <2>1, <2>2, <2>3 DEF ShapeInv, NothingComputed, Blocks
<1>4. CASE UNCHANGED vars
  BY <1>3, <1>4 DEF vars
<1> QED BY <1>1, <1>2, <1>3, <1>4, RunKeeps DEF Next

-----------------------------------------------------------------------------
(* The links between the tokens of a construct.                            *)
Linking == {"else", "end if", "end while", "break", "continue"}
LinksInto(t, n) ==
  /\ t.end <= n /\ t.alt <= n
  /\ t.kind \in Linking => t.up \in 1 .. n /\ t.e = << >>
AllLinked(tokens, n) == \A i \in DOMAIN tokens : LinksInto(tokens[i], n)
LinksInv ==
  /\ AllLinked(prog, Len(prog))
  /\ \A i \in DOMAIN open : open[i].token \in DOMAIN prog

LEMMA LinkedAppend ==
  ASSUME NEW tokens \in Seq(Tokens), NEW t \in Tokens, NEW n \in Nat, n <= Len(tokens) + 1,
         AllLinked(tokens, n), LinksInto(t, Len(tokens) + 1)
  PROVE  /\ AllLinked(Append(tokens, t), Len(tokens) + 1)
         /\ Len(Append(tokens, t)) = Len(tokens) + 1
         /\ DOMAIN Append(tokens, t) = 1 .. Len(tokens) + 1
<1> DEFINE N == Len(tokens)
           s == Append(tokens, t)
<1>1. /\ N \in Nat /\ DOMAIN tokens = 1 .. N
      /\ \A i \in 1 .. N : tokens[i] \in Tokens
  BY LenProperties, ElementOfSeq
<1>2. /\ Len(s) = N + 1 /\ DOMAIN s = 1 .. N + 1
      /\ \A i \in 1 .. N : s[i] = tokens[i]
      /\ s[N + 1] = t
  BY AppendHolds
<1> HIDE DEF N, s
<1>3. ASSUME NEW i \in 1 .. N + 1
      PROVE  LinksInto(s[i], N + 1)
  <2>1. CASE i = N + 1
    BY <1>2, <2>1 DEF N
  <2>2. CASE i # N + 1
    <3>1. i \in 1 .. N
      BY <1>1, <2>2
    <3>2. LinksInto(s[i], n) /\ s[i] \in Tokens
      BY <1>1, <1>2, <3>1 DEF AllLinked
    <3> QED BY <1>1, <3>2 DEF LinksInto, Tokens, N
  <2> QED BY <2>1, <2>2
<1> QED BY <1>2, <1>3 DEF AllLinked, N, s

\* A statement that opens no construct.
LEMMA StatementLinks ==
  ASSUME BuilderTypes, LinksInv, NEW t \in Tokens, LinksInto(t, Here),
         prog' = Append(prog, t), open' = open
  PROVE  LinksInv'
<1>1. Len(prog) \in Nat /\ DOMAIN prog = 1 .. Len(prog)
  BY LenProperties DEF BuilderTypes
<1>2. AllLinked(prog', Len(prog')) /\ DOMAIN prog' = 1 .. Len(prog) + 1
  BY <1>1, LinkedAppend DEF BuilderTypes, LinksInv, Here
<1>3. \A k \in DOMAIN prog : k \in DOMAIN prog'
  BY <1>1, <1>2
<1> QED BY <1>2, <1>3 DEF LinksInv

\* Ending the scope of token k links it to the next token.
ScopeEnds(tokens, k, n) ==
  LET ends == [EndScope(tokens, k) EXCEPT ![k].end = n]
      alts == [EndScope(tokens, k) EXCEPT ![k].alt = n]
  IN  AllLinked(ends, n) /\ AllLinked(alts, n) /\ Len(ends) = Len(tokens) /\ Len(alts) = Len(tokens)

LEMMA EndScopeLinks ==
  ASSUME NEW tokens \in Seq(Tokens), NEW k, NEW n \in Nat, n = Len(tokens) + 1,
         AllLinked(tokens, Len(tokens))
  PROVE  ScopeEnds(tokens, k, n)
<1> DEFINE hidden == EndScope(tokens, k)
           N == Len(tokens)
           ends == [hidden EXCEPT ![k] = [hidden[k] EXCEPT !.end = n]]
           alts == [hidden EXCEPT ![k] = [hidden[k] EXCEPT !.alt = n]]
<1>1. N \in Nat /\ DOMAIN tokens = 1 .. N /\ \A i \in 1 .. N : tokens[i] \in Tokens
  BY LenProperties, ElementOfSeq
<1>2. hidden = [i \in 1 .. N |-> IF i > k THEN [tokens[i] EXCEPT !.visible = FALSE] ELSE tokens[i]]
  BY <1>1 DEF EndScope
<1>3. ASSUME NEW i \in 1 .. N
      PROVE  hidden[i] \in Tokens /\ LinksInto(hidden[i], n)
  <2>1. tokens[i] \in Tokens /\ LinksInto(tokens[i], N)
    BY <1>1 DEF AllLinked
  <2>2. [tokens[i] EXCEPT !.visible = FALSE] \in Tokens
    BY <2>1 DEF Tokens
  <2>3. LinksInto(tokens[i], n)
    BY <1>1, <2>1 DEF LinksInto, Tokens
  <2>4. LinksInto([tokens[i] EXCEPT !.visible = FALSE], n)
    BY <2>1, <2>3 DEF LinksInto, Tokens
  <2> QED BY <1>2, <2>1, <2>2, <2>3, <2>4
<1> HIDE DEF N, hidden
<1>4. DOMAIN hidden = 1 .. N
  BY <1>2
<1>5. ASSUME NEW i \in 1 .. N
      PROVE  LinksInto([hidden[i] EXCEPT !.end = n], n) /\ LinksInto([hidden[i] EXCEPT !.alt = n], n)
  <2>1. hidden[i] \in Tokens /\ LinksInto(hidden[i], n)
    BY <1>3
  <2> QED BY <2>1 DEF LinksInto, Tokens
<1>6. AllLinked(ends, n) /\ DOMAIN ends = 1 .. N
  BY <1>3, <1>4, <1>5 DEF AllLinked
<1>7. AllLinked(alts, n) /\ DOMAIN alts = 1 .. N
  BY <1>3, <1>4, <1>5 DEF AllLinked
<1>8. ends \in Seq(Tokens) /\ alts \in Seq(Tokens)
  BY EndScopeTyped DEF hidden
<1>9. \A s \in Seq(Tokens) : DOMAIN s = 1 .. N => Len(s) = N
  <2> SUFFICES ASSUME NEW s \in Seq(Tokens), DOMAIN s = 1 .. N PROVE Len(s) = N
    OBVIOUS
  <2>1. Len(s) \in Nat /\ 1 .. Len(s) = 1 .. N
    BY LenProperties
  <2> QED BY <1>1, <2>1
<1>10. Len(ends) = N /\ Len(alts) = N
  BY <1>6, <1>7, <1>8, <1>9
<1> QED BY <1>6, <1>7, <1>10 DEF N, hidden, ScopeEnds

\* A token that ends or continues the innermost construct.
LEMMA ClosingLinks ==
  ASSUME BuilderTypes, LinksInv, open # << >>,
         NEW t \in Tokens, t.kind \in Linking, t.up = Innermost.token, t.e = << >>, t.end = 0, t.alt = 0,
         \/ prog' = Append([EndScope(prog, Innermost.token) EXCEPT ![Innermost.token].end = Here], t)
         \/ prog' = Append([EndScope(prog, Innermost.token) EXCEPT ![Innermost.token].alt = Here], t),
         \/ open' = Front(open)
         \/ \E c \in Construct : c.token = Innermost.token /\ open' = Append(Front(open), c)
  PROVE  LinksInv'
<1> DEFINE ends == [EndScope(prog, Innermost.token) EXCEPT ![Innermost.token].end = Here]
           alts == [EndScope(prog, Innermost.token) EXCEPT ![Innermost.token].alt = Here]
<1>1. Len(prog) \in Nat /\ DOMAIN prog = 1 .. Len(prog) /\ Here \in Nat /\ Here = Len(prog) + 1
  BY LenProperties DEF BuilderTypes, Here
<1>2. /\ Len(open) \in Nat /\ DOMAIN open = 1 .. Len(open)
      /\ Front(open) \in Seq(Construct)
      /\ Innermost = open[Len(open)] /\ Len(open) \in DOMAIN open
      /\ DOMAIN Front(open) = 1 .. Len(open) - 1
      /\ \A i \in DOMAIN Front(open) : Front(open)[i] = open[i]
  <2>1. open \in Seq(Construct)
    BY DEF BuilderTypes
  <2>2. /\ Len(open) \in Nat \ {0} /\ DOMAIN open = 1 .. Len(open)
        /\ Front(open) \in Seq(Construct)
        /\ DOMAIN Front(open) = 1 .. Len(open) - 1
        /\ \A i \in 1 .. Len(open) - 1 : Front(open)[i] = open[i]
        /\ Last(open) = open[Len(open)]
    BY ONLY <2>1, open # << >>, FrontIsPrefix
  <2> QED BY <2>2 DEF Innermost
<1>3. Innermost.token \in 1 .. Len(prog)
  BY <1>1, <1>2 DEF LinksInv
<1>4. LinksInto(t, Here)
  BY <1>1, <1>3 DEF LinksInto
<1>5. /\ AllLinked(ends, Here) /\ AllLinked(alts, Here) /\ Len(ends) = Len(prog) /\ Len(alts) = Len(prog)
      /\ ends \in Seq(Tokens) /\ alts \in Seq(Tokens)
  <2>1. prog \in Seq(Tokens) /\ AllLinked(prog, Len(prog))
    BY DEF BuilderTypes, LinksInv
  <2>2. ScopeEnds(prog, Innermost.token, Here)
    BY ONLY <1>1, <2>1, EndScopeLinks
  <2>3. AllLinked(ends, Here) /\ AllLinked(alts, Here) /\ Len(ends) = Len(prog) /\ Len(alts) = Len(prog)
    BY <2>2 DEF ScopeEnds
  <2> QED BY <1>1, <2>1, <2>3, EndScopeTyped
<1> HIDE DEF ends, alts
<1>6. AllLinked(prog', Len(prog')) /\ DOMAIN prog' = 1 .. Len(prog) + 1
  <2>1. PICK s \in {ends, alts} : prog' = Append(s, t)
    BY DEF ends, alts
  <2>2. s \in Seq(Tokens) /\ AllLinked(s, Here) /\ Len(s) = Len(prog)
    BY <1>5, <2>1
  <2>3. Here <= Len(s) + 1 /\ LinksInto(t, Len(s) + 1)
    BY <1>1, <1>4, <2>2
  <2> QED BY <1>1, <2>1, <2>2, <2>3, LinkedAppend
<1>7. \A k \in 1 .. Len(prog) : k \in DOMAIN prog'
  BY <1>1, <1>6
<1>8. \A i \in DOMAIN Front(open) : Front(open)[i].token \in DOMAIN prog'
  <2> TAKE i \in DOMAIN Front(open)
  <2>1. i \in DOMAIN open /\ Front(open)[i] = open[i]
    BY <1>2
  <2> QED BY <1>1, <1>7, <2>1 DEF LinksInv
<1>9. \A i \in DOMAIN open' : open'[i].token \in DOMAIN prog'
  <2>1. CASE open' = Front(open)
    BY <1>8, <2>1
  <2>2. ASSUME NEW c \in Construct, c.token = Innermost.token, open' = Append(Front(open), c)
        PROVE  \A i \in DOMAIN open' : open'[i].token \in DOMAIN prog'
    <3>1. \A i \in DOMAIN open' : \/ i \in DOMAIN Front(open) /\ open'[i] = Front(open)[i]
                                  \/ open'[i] = c
      BY ONLY <1>2, <2>2, AppendPlaces
    <3> QED BY <1>3, <1>7, <1>8, <2>2, <3>1
  <2> QED BY <2>1, <2>2
<1> QED BY <1>6, <1>9 DEF LinksInv

\* A token that opens a construct.
LEMMA OpeningLinks ==
  ASSUME BuilderTypes, LinksInv, NEW t \in Tokens, LinksInto(t, Here), prog' = Append(prog, t),
         NEW c \in Construct, c.token = Here, open' = Append(open, c)
  PROVE  LinksInv'
<1>1. Len(prog) \in Nat /\ DOMAIN prog = 1 .. Len(prog)
  BY LenProperties DEF BuilderTypes
<1>2. AllLinked(prog', Len(prog')) /\ DOMAIN prog' = 1 .. Len(prog) + 1
  BY <1>1, LinkedAppend DEF BuilderTypes, LinksInv, Here
<1>3. \A k \in DOMAIN prog : k \in DOMAIN prog'
  BY <1>1, <1>2
<1>4. \A i \in DOMAIN open' : \/ i \in DOMAIN open /\ open'[i] = open[i]
                             \/ open'[i] = c
  BY AppendPlaces DEF BuilderTypes
<1>5. Here \in DOMAIN prog'
  BY <1>1, <1>2 DEF Here
<1> QED BY <1>2, <1>3, <1>4, <1>5 DEF LinksInv

\* Every statement keeps the links.
LEMMA StatementsKeepLinks ==
  ASSUME BuilderTypes, LinksInv,
         \/ SkipDeadStatement
         \/ \E e \in Exprs("let") : Let(e)
         \/ \E x \in Vars : \E e \in Exprs("assign") : Assign(x, e)
         \/ \E e \in Exprs("expression") : Expression(e)
         \/ Break
         \/ Continue
         \/ \E e \in Exprs("return") : ReturnValue(e)
  PROVE  LinksInv'
<1>1. Here \in Nat /\ Here = Len(prog) + 1 /\ Len(prog) \in Nat /\ DOMAIN prog = 1 .. Len(prog)
  BY LenProperties DEF BuilderTypes, Here
<1>2. ASSUME NEW t \in Tokens, t.kind \notin Linking, t.end = 0, t.alt = 0
      PROVE  LinksInto(t, Here)
  BY <1>1, <1>2 DEF LinksInto
<1>3. ASSUME NEW t \in Tokens, t.kind \notin Linking, t.end = 0, t.alt = 0,
             prog' = Append(prog, t), open' = open
      PROVE  LinksInv'
  BY <1>2, <1>3, StatementLinks
<1>4. CASE SkipDeadStatement
  <2>1. Token("dead") \in Tokens
    BY TokenTyped DEF TokenKinds
  <2> QED BY <1>3, <1>4, <2>1 DEF SkipDeadStatement, Token, Linking
<1>5. ASSUME NEW e \in Exprs("let"), Let(e) PROVE LinksInv'
  <2> DEFINE x == CHOOSE x \in Unused : TRUE
             t == [Token("assign") EXCEPT !.x = x, !.e = e, !.declares = {x}]
  <2>1. e \in Expr
    BY SMTT(30), ExprsTyped DEF Kinds
  <2>2. x \in Vars
    BY ZenonT(60), <1>5, DialectTyped DEF Let, Unused
  <2>3. prog' = Append(prog, t) /\ open' = open
    BY <1>5 DEF Let
  <2> HIDE DEF x
  <2>4. t \in Tokens
    BY <2>1, <2>2, TokenTyped DEF Tokens, TokenKinds
  <2>5. t.kind \notin Linking /\ t.end = 0 /\ t.alt = 0
    BY DEF Token, Linking
  <2> QED BY ZenonT(60), <1>3, <2>3, <2>4, <2>5
<1>6. ASSUME NEW x \in Vars, NEW e \in Exprs("assign"), Assign(x, e) PROVE LinksInv'
  <2> DEFINE t == [Token("assign") EXCEPT !.x = x, !.e = e]
  <2>1. e \in Expr
    BY ExprsTyped DEF Kinds
  <2>2. prog' = Append(prog, t) /\ open' = open
    BY <1>6 DEF Assign
  <2>3. t \in Tokens
    BY <2>1, TokenTyped DEF Tokens, TokenKinds
  <2>4. t.kind \notin Linking /\ t.end = 0 /\ t.alt = 0
    BY DEF Token, Linking
  <2> QED BY <1>3, <2>2, <2>3, <2>4
<1>7. ASSUME NEW kind \in {"expression", "return"}, NEW e \in Exprs(kind),
             prog' = Append(prog, [Token(kind) EXCEPT !.e = e]), open' = open
      PROVE  LinksInv'
  <2> DEFINE t == [Token(kind) EXCEPT !.e = e]
  <2>1. e \in Expr
    BY ExprsTyped DEF Kinds
  <2>2. t \in Tokens
    BY ZenonT(60), <2>1, TokenTyped DEF Tokens, TokenKinds
  <2>3. t.kind \notin Linking /\ t.end = 0 /\ t.alt = 0
    BY DEF Token, Linking
  <2> QED BY <1>3, <1>7, <2>2, <2>3
<1>8. ASSUME NEW e \in Exprs("expression"), Expression(e) PROVE LinksInv'
  BY <1>7, <1>8 DEF Expression
<1>9. ASSUME NEW e \in Exprs("return"), ReturnValue(e) PROVE LinksInv'
  BY <1>7, <1>9 DEF ReturnValue
<1>10. ASSUME NEW kind \in {"break", "continue"}, loopStack # {},
              prog' = Append(prog, [Token(kind) EXCEPT !.up = innermostLoop.token]), open' = open
       PROVE  LinksInv'
  <2> DEFINE t == [Token(kind) EXCEPT !.up = innermostLoop.token]
  <2>1. innermostLoop.token \in 1 .. Len(prog)
    BY <1>1, <1>10, InnermostLoopIsOpen DEF LinksInv
  <2>2. t \in Tokens
    <3>1. Token(kind) \in Tokens
      BY TokenTyped DEF TokenKinds
    <3> QED BY <2>1, <3>1 DEF Tokens
  <2>3. t.end = 0 /\ t.alt = 0 /\ t.up = innermostLoop.token /\ t.e = << >>
    BY DEF Token
  <2> HIDE DEF t
  <2>4. LinksInto(t, Here)
    BY <1>1, <2>1, <2>3 DEF LinksInto
  <2> QED BY <1>10, <2>2, <2>4, StatementLinks DEF t
<1>11. CASE Break
  BY <1>10, <1>11 DEF Break
<1>12. CASE Continue
  BY <1>10, <1>12 DEF Continue
<1> QED BY <1>4, <1>5, <1>6, <1>8, <1>9, <1>11, <1>12

LEMMA ConstructsKeepLinks ==
  ASSUME Built, Built', LinksInv,
         \/ \E e \in Exprs("if"), hasElse \in BOOLEAN : BeginIf(e, hasElse)
         \/ BeginElse
         \/ EndIf
         \/ \E e \in Exprs("while") : BeginWhile(e)
         \/ EndWhile
  PROVE  LinksInv'
<1>1. /\ Here \in Nat /\ Here = Len(prog) + 1 /\ Len(prog) \in Nat
      /\ BuilderTypes /\ BuilderTypes' /\ open \in Seq(Construct)
  BY LenProperties DEF Built, BuilderTypes, Here
<1>2. ASSUME NEW kind \in {"if", "while"}, NEW e \in Exprs(kind),
             prog' = Append(prog, [Token(kind) EXCEPT !.e = e]),
             NEW c, c.token = Here, open' = Append(open, c)
      PROVE  LinksInv'
  <2> DEFINE t == [Token(kind) EXCEPT !.e = e]
  <2>1. e \in Expr
    BY <1>1, ExprsTyped DEF Kinds
  <2>2. t \in Tokens
    <3>1. Token(kind) \in Tokens
      BY TokenTyped DEF TokenKinds
    <3> QED BY <2>1, <3>1 DEF Tokens
  <2>3. t.kind \notin Linking /\ t.end = 0 /\ t.alt = 0
    BY DEF Token, Linking
  <2>4. LinksInto(t, Here)
    BY <1>1, <2>3 DEF LinksInto
  <2> HIDE DEF t
  <2>5. c \in Construct
    <3>1. open' \in Seq(Construct)
      BY <1>1 DEF BuilderTypes
    <3>2. Append(open, c)[Len(open) + 1] = c /\ Len(open) + 1 \in DOMAIN Append(open, c)
      <4> DEFINE S == Construct \union {c}
      <4>1. \A i \in DOMAIN open : open[i] \in S
        BY <1>1, ElementOfSeq
      <4>2. Len(open) \in Nat /\ DOMAIN open = 1 .. Len(open) /\ open = [i \in 1 .. Len(open) |-> open[i]]
        BY <1>1, LenProperties
      <4>3. open \in Seq(S) /\ c \in S
        BY <4>1, <4>2, IsASeq
      <4> HIDE DEF S
      <4> QED BY <4>2, <4>3, AppendHolds
    <3> QED BY <1>2, <3>1, <3>2, ElementOfSeq
  <2> QED BY <1>1, <1>2, <2>2, <2>4, <2>5, OpeningLinks DEF t
<1>3. ASSUME NEW kind \in {"else", "end if", "end while"}, open # << >>,
             LET t == [Token(kind) EXCEPT !.up = Innermost.token]
             IN  \/ prog' = Append([EndScope(prog, Innermost.token) EXCEPT ![Innermost.token].end = Here], t)
                 \/ prog' = Append([EndScope(prog, Innermost.token) EXCEPT ![Innermost.token].alt = Here], t),
             \/ open' = Front(open)
             \/ open' = Append(Front(open), [Innermost EXCEPT !.kind = "last"])
      PROVE  LinksInv'
  <2> DEFINE t == [Token(kind) EXCEPT !.up = Innermost.token]
             c == [Innermost EXCEPT !.kind = "last"]
  <2>1. Innermost \in Construct
    BY <1>1, <1>3, FrontIsPrefix DEF Innermost
  <2>2. c \in Construct /\ c.token = Innermost.token /\ Innermost.token \in Nat
    BY <2>1 DEF Construct
  <2>3. t \in Tokens
    <3>1. Token(kind) \in Tokens
      BY TokenTyped DEF TokenKinds
    <3> QED BY <2>2, <3>1 DEF Tokens
  <2>4. t.kind \in Linking /\ t.end = 0 /\ t.alt = 0 /\ t.up = Innermost.token /\ t.e = << >>
    BY DEF Token, Linking
  <2>5. \/ prog' = Append([EndScope(prog, Innermost.token) EXCEPT ![Innermost.token].end = Here], t)
        \/ prog' = Append([EndScope(prog, Innermost.token) EXCEPT ![Innermost.token].alt = Here], t)
    BY <1>3
  <2>6. open' = Front(open) \/ open' = Append(Front(open), c)
    BY <1>3
  <2> HIDE DEF t, c
  <2> QED BY <1>1, <1>3, <2>2, <2>3, <2>4, <2>5, <2>6, ClosingLinks
<1>4. ASSUME NEW e \in Exprs("if"), NEW hasElse \in BOOLEAN, BeginIf(e, hasElse) PROVE LinksInv'
  BY <1>2, <1>4 DEF BeginIf
<1>5. ASSUME NEW e \in Exprs("while"), BeginWhile(e) PROVE LinksInv'
  BY <1>2, <1>5 DEF BeginWhile
<1>6. CASE BeginElse
  BY <1>3, <1>6 DEF BeginElse
<1>7. CASE EndIf
  BY <1>3, <1>7 DEF EndIf
<1>8. CASE EndWhile
  BY <1>3, <1>8 DEF EndWhile
<1> QED BY <1>4, <1>5, <1>6, <1>7, <1>8

LEMMA LinksInvKept == BuilderInv /\ BuilderInv' /\ LinksInv /\ [Next]_vars => LinksInv'
<1> SUFFICES ASSUME BuilderInv, BuilderInv', LinksInv, [Next]_vars PROVE LinksInv'
  OBVIOUS
<1>1. BuilderTypes
  BY DEF BuilderInv
<1>2. CASE UNCHANGED <<prog, open>>
  BY <1>2 DEF LinksInv
<1>3. CASE Build
  <2>1. phase = "build" /\ Built
    BY <1>3 DEF Build, BuilderInv, Built
  <2>2. CASE FinishFunction
    BY <1>2, <2>2 DEF FinishFunction
  <2>3. ASSUME phase' = "build"
        PROVE  Built'
    BY <2>3 DEF BuilderInv, Built
  <2>4. ASSUME \/ \E e \in Exprs("if"), hasElse \in BOOLEAN : BeginIf(e, hasElse)
               \/ BeginElse
               \/ EndIf
               \/ \E e \in Exprs("while") : BeginWhile(e)
               \/ EndWhile
        PROVE  phase' = "build"
    BY <2>1, <2>4 DEF BeginIf, BeginElse, EndIf, BeginWhile, EndWhile
  <2> QED BY <1>1, <1>3, <2>1, <2>2, <2>3, <2>4, StatementsKeepLinks, ConstructsKeepLinks DEF Build
<1>4. CASE BuildSSA
  BY <1>2, <1>4, BuildSSAPhases
<1>5. CASE UNCHANGED builder
  BY <1>2, <1>5 DEF builder
<1>6. CASE UNCHANGED vars
  BY <1>5, <1>6 DEF vars
<1> QED BY <1>3, <1>4, <1>5, <1>6, RunKeeps DEF Next

-----------------------------------------------------------------------------
(* The run of the source.                                                  *)
Values == {Unset} \union 0 .. Ticks
Running == phase \in {"run", "returned"}
SourceTypes ==
  /\ pc \in 1 .. Len(prog) + 1
  /\ vals \in [Vars -> Values]
  /\ tick \in 0 .. Ticks
  /\ acc \in {Pending} \union Values
  /\ deep \in 0 .. 2
  /\ acc # Pending => deep = 0
  /\ deep # 0 => pc \in DOMAIN prog /\ prog[pc].e \in ShortExpr \union NestedExpr
  /\ deep = 2 => prog[pc].e \in NestedExpr
  /\ ~Running => pc = 1 /\ deep = 0

\* What is evaluated is the part of an expression its depth says.
LEMMA ExprIsPart ==
  ASSUME BuilderTypes, SourceTypes, Evaluates
  PROVE  /\ pc \in DOMAIN prog /\ token \in Tokens /\ token.e \in Expr
         /\ deep = 0 => expr \in Expr
         /\ deep = 1 => expr \in ReadExpr \union ShortExpr /\ (expr.kind = "short" => token.e \in NestedExpr)
         /\ deep = 2 => expr \in ReadExpr
<1>1. Len(prog) \in Nat /\ DOMAIN prog = 1 .. Len(prog)
  BY LenProperties DEF BuilderTypes
<1>2. pc \in DOMAIN prog
  BY <1>1 DEF Evaluates, Done, SourceTypes
<1>3. token \in Tokens /\ token.e \in Expr
  <2>1. token \in Tokens
    BY <1>2, ElementOfSeq DEF BuilderTypes, token
  <2> QED BY <2>1 DEF Tokens, Evaluates
<1>4. deep \in {0, 1, 2}
  BY DEF SourceTypes
<1>5. CASE deep = 0
  BY <1>2, <1>3, <1>5 DEF expr
<1>6. CASE deep = 1
  <2>1. expr = token.e.right /\ token.e \in ShortExpr \union NestedExpr
    BY <1>6 DEF expr, SourceTypes, token
  <2> QED BY <1>2, <1>3, <1>6, <2>1 DEF ShortExpr, NestedExpr, ReadExpr
<1>7. CASE deep = 2
  <2>1. expr = token.e.right.right /\ token.e \in NestedExpr
    BY <1>7 DEF expr, SourceTypes, token
  <2> QED BY <1>2, <1>3, <1>7, <2>1 DEF ShortExpr, NestedExpr
<1> QED BY <1>4, <1>5, <1>6, <1>7

LEMMA SourceTypesHold == Init => SourceTypes
<1> SUFFICES ASSUME Init PROVE SourceTypes
  OBVIOUS
<1>1. dialect \in Dialects /\ prog = << >> /\ phase = "build" /\ pc = 1 /\ deep = 0 /\ acc = Pending
      /\ tick = Len(dialect.params)
  BY DEF Init, BuilderInit
<1>2. BuilderInv
  BY BuilderInvHolds
<1>3. Len(dialect.params) \in Nat /\ Len(dialect.params) <= Ticks /\ Ticks \in Nat
  BY <1>1, <1>2, DialectTyped, LenProperties, TicksAssumption DEF BuilderInv
<1>4. vals \in [Vars -> Values]
  <2>1. ASSUME NEW x \in Vars
        PROVE  LET i == SelectInSeq(dialect.params, LAMBDA p : p = x)
               IN  (IF i = 0 THEN Unset ELSE i) \in Values
    <3> DEFINE I == {i \in 1 .. Len(dialect.params) : dialect.params[i] = x}
               i == SelectInSeq(dialect.params, LAMBDA p : p = x)
    <3>1. i = IF I # {} THEN Min(I) ELSE 0
      BY DEF SelectInSeq
    <3>2. CASE I = {}
      BY <3>1, <3>2 DEF Values
    <3>3. CASE I # {}
      <4>1. I \subseteq Nat
        BY <1>3
      <4>2. PICK m \in I : \A j \in I : m <= j
        <5> HIDE DEF I
        <5> QED BY <3>3, <4>1, LeastNatural
      <4>3. Min(I) \in I
        BY <4>2 DEF Min
      <4>4. i \in 1 .. Ticks
        BY <1>3, <3>1, <3>3, <4>3
      <4> QED BY <4>4 DEF Values
    <3> QED BY <3>2, <3>3
  <2>2. vals = [x \in Vars |-> LET i == SelectInSeq(dialect.params, LAMBDA p : p = x)
                               IN  IF i = 0 THEN Unset ELSE i]
    BY DEF Init
  <2> QED BY <2>1, <2>2
<1>5. Len(prog) = 0 /\ pc \in 1 .. Len(prog) + 1
  BY <1>1
<1> QED BY <1>1, <1>3, <1>4, <1>5 DEF SourceTypes, Running, Pending, Unset

\* While the program is built and renamed the run has not begun.
LEMMA NotRunningKeepsTypes ==
  ASSUME BuilderTypes', SourceTypes, ~Running, ~Running', UNCHANGED running
  PROVE  SourceTypes'
<1>1. Len(prog)' \in Nat
  BY LenProperties DEF BuilderTypes
<1>2. UNCHANGED <<pc, vals, deep, acc, tick>>
  BY DEF running
<1>3. pc = 1 /\ deep = 0
  BY DEF SourceTypes
<1>4. pc' \in 1 .. Len(prog)' + 1
  BY <1>1, <1>2, <1>3
<1> QED BY <1>2, <1>3, <1>4 DEF SourceTypes, Values

\* One side goes on: how the source moves.
Moves ==
  /\ UNCHANGED prog /\ Running /\ Running'
  /\ pc' \in 1 .. Len(prog) + 1
  /\ vals' \in [Vars -> Values]
  /\ tick' \in 0 .. Ticks
  /\ acc' \in {Pending} \union Values
  /\ deep' \in 0 .. 2
  /\ acc' # Pending => deep' = 0
  /\ deep' # 0 => /\ pc' = pc /\ pc \in DOMAIN prog
                  /\ token.e \in ShortExpr \union NestedExpr
                  /\ deep' = 2 => token.e \in NestedExpr

LEMMA MovesKeepTypes ==
  ASSUME SourceTypes, Moves
  PROVE  SourceTypes'
BY DEF SourceTypes, Moves, token, Values

LEMMA SourceStepMoves ==
  ASSUME BuilderTypes, LinksInv, SourceTypes, SourceStep
  PROVE  Moves
<1>1. /\ Running /\ Running' /\ UNCHANGED <<prog, tick>>
      /\ Len(prog) \in Nat /\ DOMAIN prog = 1 .. Len(prog)
      /\ pc \in 1 .. Len(prog) + 1
  BY LenProperties DEF SourceStep, Running, builder, BuilderTypes, SourceTypes
<1>2. ~Done => pc \in 1 .. Len(prog) /\ token \in Tokens
  BY <1>1, ElementOfSeq DEF Done, token, BuilderTypes
<1>3. CASE ReadVariable
  <2>1. expr.left \in Vars
    <3>1. /\ deep = 0 => expr \in Expr
          /\ deep = 1 => expr \in ReadExpr \union ShortExpr
          /\ deep = 2 => expr \in ReadExpr
      BY <1>3, ExprIsPart DEF ReadVariable
    <3>2. deep \in {0, 1, 2} /\ expr.kind = "variable"
      BY <1>3 DEF ReadVariable, SourceTypes
    <3> HIDE DEF expr
    <3> QED BY <3>1, <3>2 DEF Expr, ReadExpr, ShortExpr, NestedExpr
  <2>2. acc' \in Values /\ deep' = 0 /\ UNCHANGED <<pc, vals>>
    BY <1>3, <2>1 DEF ReadVariable, SourceTypes
  <2> QED BY <1>1, <2>2 DEF Moves, SourceTypes
<1>4. CASE Store
  <2>1. pc' = pc + 1 /\ acc' = Pending /\ deep' = 0 /\ ~Done /\ acc \in Values
    BY <1>4 DEF Store, SourceTypes
  <2>2. vals' \in [Vars -> Values]
    BY <1>4, <2>1 DEF Store, SourceTypes
  <2>3. pc' \in 1 .. Len(prog) + 1
    BY <1>1, <1>2, <2>1
  <2> QED BY <1>1, <2>1, <2>2, <2>3 DEF Moves, SourceTypes
<1>5. CASE FollowControl
  <2>1. ~Done /\ token.kind \in Linking /\ UNCHANGED <<vals, deep, acc>>
    BY <1>5 DEF FollowControl, Linking
  <2>2. token.up \in 1 .. Len(prog) /\ token.e = << >>
    BY <1>1, <1>2, <2>1 DEF LinksInv, AllLinked, LinksInto, token
  <2>3. prog[token.up].end \in Nat /\ prog[token.up].end <= Len(prog)
    <3>1. prog[token.up] \in Tokens
      BY <1>1, <2>2, ElementOfSeq DEF BuilderTypes
    <3> QED BY <1>1, <2>2, <3>1 DEF LinksInv, AllLinked, LinksInto, Tokens
  <2>4. pc' = pc + 1 \/ pc' = prog[token.up].end + 1 \/ pc' = token.up
    BY <1>5, <2>1 DEF FollowControl, Linking
  <2>5. pc' \in 1 .. Len(prog) + 1
    BY <1>1, <1>2, <2>1, <2>2, <2>3, <2>4
  <2>6. deep = 0
    <3>1. << >> \notin ShortExpr \union NestedExpr
      <4>1. \A e \in ShortExpr \union NestedExpr : DOMAIN e = {"kind", "op", "left", "right"}
        BY DEF ShortExpr, NestedExpr
      <4> QED BY <4>1, EmptyHolds
    <3> QED BY <2>2, <3>1 DEF SourceTypes, token
  <2> QED BY <1>1, <2>1, <2>5, <2>6 DEF Moves, SourceTypes
<1> QED BY <1>3, <1>4, <1>5 DEF SourceStep

LEMMA OperateMoves ==
  ASSUME BuilderTypes, SourceTypes, Operate
  PROVE  Moves
<1>1. /\ Running /\ Running' /\ UNCHANGED <<prog, pc, deep>>
      /\ AtOperation
  BY DEF Operate, Meet, Agree, SameKind, Running, builder
<1>2. tick' \in 1 .. Ticks
  <2>1. tick' = (tick % Ticks) + 1 /\ tick \in 0 .. Ticks /\ Ticks \in Nat \ {0}
    BY TicksAssumption DEF Operate, SourceTypes
  <2> QED BY <2>1
<1>3. tick' \in Values /\ tick' \in 0 .. Ticks /\ tick' # Pending
  <2>1. Ticks \in Nat
    BY TicksAssumption
  <2> QED BY <1>2, <2>1 DEF Values, Pending
<1>4. /\ pc \in DOMAIN prog /\ token \in Tokens /\ token.e \in Expr
      /\ deep = 0 => expr \in Expr
      /\ deep = 1 => expr \in ReadExpr \union ShortExpr
      /\ deep = 2 => expr \in ReadExpr
  BY <1>1, ExprIsPart DEF AtOperation
<1>5. expr.kind \in {"constant", "operation", "increment", "assignment"} /\ deep \in {0, 1, 2}
  BY <1>1 DEF AtOperation, SourceTypes
<1>6. deep = 0 /\ (expr.kind \in {"increment", "assignment"} => expr.left \in Vars)
  <2> HIDE DEF expr
  <2> QED BY <1>4, <1>5 DEF Expr, ReadExpr, ShortExpr, NestedExpr
<1>7. expr.kind = "assignment" => expr.right \in Vars
  <2> HIDE DEF expr
  <2> QED BY <1>4, <1>6 DEF Expr, ReadExpr, ShortExpr, NestedExpr
<1>8. acc' \in Values
  BY <1>3, <1>6 DEF Operate, SourceTypes
<1>9. vals' \in [Vars -> Values]
  <2>1. \/ vals' = vals
        \/ expr.kind = "increment" /\ vals' = [vals EXCEPT ![expr.left] = tick']
        \/ expr.kind = "assignment" /\ vals' = [vals EXCEPT ![expr.right] = tick']
    BY DEF Operate
  <2> QED BY <1>3, <1>6, <1>7, <2>1 DEF SourceTypes
<1> QED BY <1>1, <1>3, <1>6, <1>8, <1>9 DEF Moves, SourceTypes

LEMMA DecideMoves ==
  ASSUME BuilderTypes, LinksInv, SourceTypes, NEW taken \in BOOLEAN, Decide(taken)
  PROVE  Moves
<1>1. /\ Running /\ Running' /\ UNCHANGED <<prog, vals, tick>>
      /\ AtShortCircuit \/ AtCondition
      /\ Len(prog) \in Nat /\ DOMAIN prog = 1 .. Len(prog)
      /\ pc \in 1 .. Len(prog) + 1
  BY LenProperties DEF Decide, Meet, Agree, SameKind, AtTerm, AtCode, Running, builder, BuilderTypes, SourceTypes
<1>2. CASE AtShortCircuit
  <2>1. /\ UNCHANGED pc
        /\ \/ deep' = deep + 1 /\ acc' = acc
           \/ deep' = 0 /\ acc' = Decided
    BY <1>2 DEF Decide
  <2>2. /\ pc \in DOMAIN prog /\ token.e \in Expr
        /\ deep = 0 => expr \in Expr
        /\ deep = 1 => expr \in ReadExpr \union ShortExpr /\ (expr.kind = "short" => token.e \in NestedExpr)
        /\ deep = 2 => expr \in ReadExpr
        /\ deep = 0 => expr = token.e
    BY <1>2, ExprIsPart DEF AtShortCircuit, expr
  <2>3. expr.kind \in {"short", "nested"} /\ acc = Pending /\ deep \in {0, 1, 2}
    BY <1>2 DEF AtShortCircuit, Evaluates, SourceTypes
  <2>4. /\ deep \in {0, 1} /\ expr \in ShortExpr \union NestedExpr
        /\ deep = 1 => expr.kind = "short"
    <3> HIDE DEF expr
    <3> QED BY <2>2, <2>3 DEF Expr, ReadExpr, ShortExpr, NestedExpr
  <2>5. expr.left \in Vars /\ expr.op \in ShortCircuitOps
    <3> HIDE DEF expr
    <3> QED BY <2>4 DEF ShortExpr, NestedExpr
  <2>6. Decided \in Values
    <3>1. False \in Values /\ True \in Values
      BY TicksAssumption DEF False, True, Values
    <3>2. vals[expr.left] \in Values
      BY <2>5 DEF SourceTypes
    <3>3. Decided \in {False, True, vals[expr.left]}
      BY <2>5 DEF Decided, ShortCircuitOps
    <3> QED BY <3>1, <3>2, <3>3
  <2>7. CASE deep' = deep + 1 /\ acc' = acc
    <3>1. deep' \in {1, 2} /\ (deep' = 2 => token.e \in NestedExpr)
      BY <2>2, <2>4, <2>7
    <3>2. token.e \in ShortExpr \union NestedExpr
      BY <2>2, <2>4, <2>7
    <3> QED BY <1>1, <2>1, <2>2, <2>3, <2>7, <3>1, <3>2 DEF Moves, SourceTypes
  <2>8. CASE deep' = 0 /\ acc' = Decided
    BY <1>1, <2>1, <2>6, <2>8 DEF Moves, SourceTypes
  <2> QED BY <2>1, <2>7, <2>8
<1>3. CASE AtCondition /\ ~AtShortCircuit
  <2>1. acc' = Pending /\ deep' = 0 /\ (pc' = pc + 1 \/ pc' = AfterFalse) /\ ~Done
    BY <1>3 DEF Decide, AtCondition, SourceTypes
  <2>2. pc \in DOMAIN prog /\ token \in Tokens
    BY <1>1, <2>1, ElementOfSeq DEF Done, token, BuilderTypes
  <2>3. token.alt <= Len(prog) /\ token.end <= Len(prog) /\ token.alt \in Nat /\ token.end \in Nat
    BY <2>2 DEF LinksInv, AllLinked, LinksInto, Tokens, token
  <2>4. pc' \in 1 .. Len(prog) + 1
    BY <1>1, <2>1, <2>2, <2>3 DEF AfterFalse
  <2> QED BY <1>1, <2>1, <2>4 DEF Moves, SourceTypes
<1> QED BY <1>1, <1>2, <1>3

LEMMA SourceTypesKept ==
  BuilderInv /\ BuilderInv' /\ LinksInv /\ SourceTypes /\ [Next]_vars => SourceTypes'
<1> SUFFICES ASSUME BuilderInv, BuilderInv', LinksInv, SourceTypes, [Next]_vars PROVE SourceTypes'
  OBVIOUS
<1>1. BuilderTypes /\ BuilderTypes'
  BY DEF BuilderInv
<1>2. CASE (Build \/ BuildSSA \/ Start) /\ UNCHANGED running
  <2>1. CASE Start
    BY <2>1 DEF Start, Running, SourceTypes, running, builder
  <2>2. CASE Build \/ BuildSSA
    <3>1. ~Running /\ ~Running'
      BY <2>2, BuildPhases, BuildSSAPhases DEF Running
    <3> QED BY <1>1, <1>2, <3>1, NotRunningKeepsTypes
  <2> QED BY <1>2, <2>1, <2>2
<1>3. CASE SourceStep
  BY <1>1, <1>3, SourceStepMoves, MovesKeepTypes
<1>4. CASE NativeStep
  <2>1. UNCHANGED <<phase, prog, pc, vals, deep, acc, tick>>
    BY <1>4 DEF NativeStep, builder, source
  <2> QED BY <2>1 DEF SourceTypes, Running, Values
<1>5. CASE Operate
  BY <1>1, <1>5, OperateMoves, MovesKeepTypes
<1>6. ASSUME NEW taken \in BOOLEAN, Decide(taken)
      PROVE  SourceTypes'
  BY <1>1, <1>6, DecideMoves, MovesKeepTypes
<1>7. CASE ReturnBoth
  <2>1. UNCHANGED <<prog, pc, vals, deep, acc, tick>> /\ Running /\ Running'
    BY <1>7 DEF ReturnBoth, Meet, Running, builder, running
  <2> QED BY <2>1 DEF SourceTypes, Values
<1>8. CASE UNCHANGED vars
  <2>1. UNCHANGED <<phase, prog, pc, vals, deep, acc, tick>>
    BY <1>8 DEF vars, builder, running
  <2> QED BY <2>1 DEF SourceTypes, Running, Values
<1>9. Start => UNCHANGED running
  BY DEF Start
<1>10. Stopped => UNCHANGED vars
  BY DEF Stopped
<1> QED BY <1>2, <1>3, <1>4, <1>5, <1>6, <1>7, <1>8, <1>9, <1>10 DEF Next

\* The graph and the analyses keep their types through every pass, every jump of the
\* source goes to a token or past the last, and the run never evaluates what is not there.
THEOREM TypesHold == Spec => []TypeOK
<1>1. Init => BuilderInv /\ ShapeInv /\ LinksInv /\ SourceTypes
  <2>1. Init => LinksInv
    <3> SUFFICES ASSUME Init PROVE LinksInv
      OBVIOUS
    <3>1. prog = << >> /\ open = << >>
      BY DEF Init, BuilderInit
    <3> QED BY <3>1, EmptyHolds DEF LinksInv, AllLinked
  <2> QED BY <2>1, BuilderInvHolds, ShapeInvHolds, SourceTypesHold
<1>2. BuilderInv /\ ShapeInv /\ LinksInv /\ SourceTypes /\ [Next]_vars
        => (BuilderInv /\ ShapeInv /\ LinksInv /\ SourceTypes)'
  BY BuilderInvKept, ShapeInvKept, LinksInvKept, SourceTypesKept
<1>3. ShapeInv /\ SourceTypes => TypeOK
  <2> SUFFICES ASSUME ShapeInv, SourceTypes PROVE TypeOK
    OBVIOUS
  <2>1. phase # "build" => \A b \in Blocks : fn.blocks[b].term # Open
    BY DEF ShapeInv, Complete, Open
  <2> QED BY <2>1 DEF ShapeInv, GraphTypes, SSATypes, SourceTypes, Values, TypeOK
<1> QED BY <1>1, <1>2, <1>3, PTL DEF Spec
=============================================================================
