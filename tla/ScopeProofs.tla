---------------------------- MODULE ScopeProofs ----------------------------
(***************************************************************************)
(* What building the blocks of a function promises to renaming: a variable *)
(* in scope has a definition in a block that dominates every block of its  *)
(* scope, so that each use is dominated by a definition.  Expressions make *)
(* blocks of their own between the block they begin in and the one they    *)
(* leave off in; statements join blocks, but never by an edge that takes a *)
(* dominator away from a block already filled.                             *)
(***************************************************************************)
EXTENDS NativeRunProofs

-----------------------------------------------------------------------------
(* Dominance.                                                              *)
Dominates(f, d, b) == b \notin LeastReached(f, d)

\* Edges lead from a set of blocks with the entry to nothing outside it.
ClosedFromEntry(f, C) == 1 \in C /\ \A c \in C : ToSet(f.blocks[c].succs) \subseteq C
AllReached(f) == \A C \in SUBSET DOMAIN f.blocks : ClosedFromEntry(f, C) => C = DOMAIN f.blocks

\* The paths to a block that miss one of its dominators.
LEMMA LeastReachedIsLeast ==
  ASSUME NEW f, NEW d, NEW C \in SUBSET DOMAIN f.blocks, LeadsOn(f, d, C)
  PROVE  LeastReached(f, d) \subseteq C
BY DEF LeastReached

LEMMA DominatesItself ==
  ASSUME NEW f, IsGraph(f), NEW b
  PROVE  Dominates(f, b, b)
<1> DEFINE C == DOMAIN f.blocks \ {b}
<1>1. LeadsOn(f, b, C)
  BY GraphBlocks DEF LeadsOn
<1>2. b \notin C /\ C \in SUBSET DOMAIN f.blocks
  OBVIOUS
<1> QED BY <1>1, <1>2, LeastReachedIsLeast DEF Dominates

\* What is reached without d is reached without any block d dominates.
LEMMA PassedOver ==
  ASSUME NEW f, IsGraph(f), NEW d, NEW t, Dominates(f, d, t)
  PROVE  LeastReached(f, d) \subseteq LeastReached(f, t)
<1> DEFINE C == LeastReached(f, d) \intersect LeastReached(f, t)
<1>1. LeadsOn(f, d, LeastReached(f, d)) /\ LeadsOn(f, t, LeastReached(f, t))
  BY LeastReachedLeadsOn
<1>2. LeadsOn(f, d, C)
  BY <1>1 DEF LeadsOn, Dominates
<1>3. C \in SUBSET DOMAIN f.blocks
  BY DEF LeastReached
<1> QED BY <1>2, <1>3, LeastReachedIsLeast

LEMMA DominatesThrough ==
  ASSUME NEW f, IsGraph(f), NEW d, NEW t, NEW b, Dominates(f, d, t), Dominates(f, t, b)
  PROVE  Dominates(f, d, b)
BY PassedOver DEF Dominates

\* Of a reached block, no two dominators dominate each other.
LEMMA DominanceIsOneWay ==
  ASSUME NEW f, IsGraph(f), AllReached(f), NEW d \in DOMAIN f.blocks, NEW e \in DOMAIN f.blocks,
         Dominates(f, d, e), Dominates(f, e, d)
  PROVE  d = e
<1> SUFFICES ASSUME d # e
             PROVE  FALSE
  OBVIOUS
<1> DEFINE C == LeastReached(f, d)
<1>1. C = LeastReached(f, e)
  <2>1. C \subseteq LeastReached(f, e) /\ LeastReached(f, e) \subseteq C
    BY PassedOver
  <2> QED BY <2>1
<1>2. LeadsOn(f, d, C) /\ LeadsOn(f, e, C)
  BY <1>1, LeastReachedLeadsOn
<1>3. ClosedFromEntry(f, C)
  BY <1>2 DEF LeadsOn, ClosedFromEntry
<1>4. C \in SUBSET DOMAIN f.blocks
  BY DEF LeastReached
<1> QED BY <1>3, <1>4, DominatesItself DEF AllReached, Dominates

\* The dominators of a reached block are in a line.
LEMMA DominatorsAreInLine ==
  ASSUME NEW f, IsGraph(f), AllReached(f), NEW b \in DOMAIN f.blocks, NEW d, NEW e,
         Dominates(f, d, b), Dominates(f, e, b)
  PROVE  Dominates(f, d, e) \/ Dominates(f, e, d)
<1> SUFFICES ASSUME e \in LeastReached(f, d), d \in LeastReached(f, e)
             PROVE  FALSE
  BY DEF Dominates
<1> DEFINE C == LeastReached(f, d) \union LeastReached(f, e)
<1>1. LeadsOn(f, d, LeastReached(f, d)) /\ LeadsOn(f, e, LeastReached(f, e))
  BY LeastReachedLeadsOn
<1>2. d # e
  BY DominatesItself DEF Dominates
<1>3. ClosedFromEntry(f, C)
  BY <1>1, <1>2 DEF LeadsOn, ClosedFromEntry
<1>4. C \in SUBSET DOMAIN f.blocks
  BY DEF LeastReached
<1> QED BY <1>3, <1>4 DEF AllReached, Dominates

\* The entry dominates every block.
LEMMA EntryDominates ==
  ASSUME NEW f, IsGraph(f), NEW b
  PROVE  Dominates(f, 1, b)
<1>1. LeadsOn(f, 1, {})
  BY DEF LeadsOn
<1> QED BY <1>1, LeastReachedIsLeast DEF Dominates

\* Every block that some edge leads to is reached from the entry.
Rooted(f) ==
  \A C \in SUBSET DOMAIN f.blocks :
    /\ ClosedFromEntry(f, C)
    /\ \A b \in DOMAIN f.blocks : f.blocks[b].preds = << >> => b \in C
    => C = DOMAIN f.blocks

-----------------------------------------------------------------------------
(* Where variables and values come from.                                   *)
Has(f, b, x) == \E k \in DOMAIN f.blocks[b].code : f.blocks[b].code[k].sym = x
Makes(f, b, v) ==
  \E k \in DOMAIN f.blocks[b].code : f.blocks[b].code[k].op # "bind" /\ f.blocks[b].code[k].dst = v
Reaches(f, b, x) == \E d \in DOMAIN f.blocks : Has(f, d, x) /\ Dominates(f, d, b)

\* A reference to a variable of V, or a value made in b.
From(f, V, o, b) == IF IsRef(o) THEN o.ref \in V ELSE Makes(f, b, o.value)

\* Lowering goes on from the block it begins in to blocks of its own.
New(f, g) == DOMAIN g.blocks \ DOMAIN f.blocks
Region(f, g) == {f.curr} \union New(f, g)
Added(f, b, k) == b = f.curr => k \notin DOMAIN f.blocks[b].code

\* An instruction of the region reads variables of V, a phi from the blocks of the
\* region it is entered from.
Sound(f, V, g, i) ==
  IF IsPhi(i)
  THEN \A j \in DOMAIN i.args :
         j \in DOMAIN i.preds /\ i.preds[j] \in Region(f, g) /\ From(g, V, i.args[j], i.preds[j])
  ELSE /\ i.op = "bind" => 1 \in DOMAIN i.args
       /\ \A j \in DOMAIN i.args : IsRef(i.args[j]) /\ i.args[j].ref \in V

\* From f to g nothing but the region has changed: its edges stay in it, what was
\* added reads V and defines D, and no block is cut off from the entry.
Lowered(f, V, D, g) ==
  /\ g \in Function
  /\ DOMAIN f.blocks \subseteq DOMAIN g.blocks
  /\ OnlyCurrChanged(f, g)
  /\ g.curr \in Region(f, g)
  /\ \A k \in DOMAIN f.blocks[f.curr].code :
       /\ k \in DOMAIN g.blocks[f.curr].code
       /\ g.blocks[f.curr].code[k] = f.blocks[f.curr].code[k]
  /\ \A b \in Region(f, g) :
       /\ ToSet(g.blocks[b].succs) \subseteq New(f, g)
       /\ \A x \in g.blocks[b].defs : x \in D \/ (b = f.curr /\ x \in f.blocks[b].defs)
       /\ \A i \in DOMAIN g.blocks[b].term.args : From(g, V, g.blocks[b].term.args[i], b)
       /\ \A k \in DOMAIN g.blocks[b].code : Added(f, b, k) => Sound(f, V, g, g.blocks[b].code[k])
  /\ Rooted(f) => Rooted(g)

\* The value an expression leaves: a variable of V, or what the last instruction
\* has made.
Result(f, V, g, o) ==
  IF IsRef(o) THEN o.ref \in V
  ELSE LET code == g.blocks[g.curr].code
       IN  /\ Len(code) \in DOMAIN code
           /\ Added(f, g.curr, Len(code))
           /\ code[Len(code)].op # "bind"
           /\ code[Len(code)].dst = o.value

SameButSym(i, j) == i.op = j.op /\ i.dst = j.dst /\ i.args = j.args /\ i.preds = j.preds
Grows(g, h) ==
  \A b \in DOMAIN g.blocks :
    /\ b \in DOMAIN h.blocks
    /\ \A k \in DOMAIN g.blocks[b].code :
         /\ k \in DOMAIN h.blocks[b].code
         /\ SameButSym(h.blocks[b].code[k], g.blocks[b].code[k])

\* One step of lowering.
Step(f, V, D, g, h) ==
  /\ h \in Function
  /\ h.curr \in Region(f, h)
  /\ Grows(g, h)
  /\ \A b \in DOMAIN g.blocks \ Region(f, g) : h.blocks[b] = g.blocks[b]
  /\ \A b \in Region(f, g) :
       /\ \A k \in DOMAIN g.blocks[b].code :
            ~Added(f, b, k) => h.blocks[b].code[k] = g.blocks[b].code[k]
       /\ \A k \in DOMAIN h.blocks[b].code \ DOMAIN g.blocks[b].code :
            Sound(f, V, h, h.blocks[b].code[k])
       /\ \/ h.blocks[b].term = g.blocks[b].term
          \/ \A i \in DOMAIN h.blocks[b].term.args : From(h, V, h.blocks[b].term.args[i], b)
       /\ ToSet(h.blocks[b].succs) \subseteq ToSet(g.blocks[b].succs) \union New(f, h)
       /\ h.blocks[b].defs \subseteq g.blocks[b].defs \union D
  /\ \A b \in DOMAIN h.blocks \ DOMAIN g.blocks : h.blocks[b] = EmptyBlock
  /\ Rooted(g) => Rooted(h)

LEMMA FromGrows ==
  ASSUME NEW V, NEW g, NEW h, Grows(g, h), NEW b \in DOMAIN g.blocks, NEW o, From(g, V, o, b)
  PROVE  From(h, V, o, b)
BY DEF From, Makes, Grows, SameButSym

LEMMA SoundGrows ==
  ASSUME NEW f, NEW V, NEW g, NEW h, Grows(g, h), Region(f, g) \subseteq DOMAIN g.blocks,
         Region(f, g) \subseteq Region(f, h),
         NEW i, NEW j, SameButSym(j, i), Sound(f, V, g, i)
  PROVE  Sound(f, V, h, j)
<1>1. CASE IsPhi(i)
  <2> SUFFICES ASSUME NEW a \in DOMAIN i.args
               PROVE  a \in DOMAIN i.preds /\ i.preds[a] \in Region(f, h) /\ From(h, V, i.args[a], i.preds[a])
    BY <1>1 DEF SameButSym, Sound, IsPhi
  <2>1. a \in DOMAIN i.preds /\ i.preds[a] \in Region(f, g) /\ From(g, V, i.args[a], i.preds[a])
    BY <1>1 DEF Sound
  <2> QED BY <2>1, FromGrows
<1>2. CASE ~IsPhi(i)
  BY <1>2 DEF SameButSym, Sound, IsPhi
<1> QED BY <1>1, <1>2

LEMMA EmptyBlockSays ==
  /\ DOMAIN EmptyBlock.code = {} /\ EmptyBlock.defs = {} /\ DOMAIN EmptyBlock.term.args = {}
  /\ ToSet(EmptyBlock.succs) = {} /\ ToSet(EmptyBlock.preds) = {}
  /\ EmptyBlock.preds = << >>
<1>1. /\ EmptyBlock.code = << >> /\ EmptyBlock.defs = {} /\ EmptyBlock.term.args = << >>
      /\ EmptyBlock.succs = << >> /\ EmptyBlock.preds = << >>
  BY DEF EmptyBlock, Open
<1>2. DOMAIN << >> = {}
  BY EmptyHolds
<1> HIDE DEF EmptyBlock
<1> QED BY <1>1, <1>2 DEF ToSet

LEMMA LoweredStep ==
  ASSUME NEW f, IsGraph(f), NEW V, NEW D, NEW g, Lowered(f, V, D, g), NEW h, Step(f, V, D, g, h)
  PROVE  Lowered(f, V, D, h)
<1>1. f.curr \in DOMAIN f.blocks
  BY DEF IsGraph, HasEdges
<1>2. /\ DOMAIN g.blocks \subseteq DOMAIN h.blocks
      /\ New(f, g) \subseteq New(f, h) /\ Region(f, g) \subseteq Region(f, h)
      /\ Region(f, g) \subseteq DOMAIN g.blocks
  BY <1>1 DEF Step, Grows, New, Region, Lowered
<1>3. h \in Function /\ DOMAIN f.blocks \subseteq DOMAIN h.blocks /\ h.curr \in Region(f, h)
      /\ (Rooted(f) => Rooted(h))
  BY <1>2 DEF Step, Lowered
<1>4. OnlyCurrChanged(f, h)
  BY <1>1, <1>2 DEF Step, Lowered, OnlyCurrChanged, Region, New
<1>5. ASSUME NEW k \in DOMAIN f.blocks[f.curr].code
      PROVE  k \in DOMAIN h.blocks[f.curr].code /\ h.blocks[f.curr].code[k] = f.blocks[f.curr].code[k]
  <2>1. k \in DOMAIN g.blocks[f.curr].code /\ g.blocks[f.curr].code[k] = f.blocks[f.curr].code[k]
    BY <1>5 DEF Lowered
  <2>2. ~Added(f, f.curr, k) /\ f.curr \in Region(f, g) /\ f.curr \in DOMAIN g.blocks
    BY <1>1, <1>2, <1>5 DEF Added, Region
  <2>3. k \in DOMAIN h.blocks[f.curr].code
    BY <2>1, <2>2 DEF Step, Grows
  <2> QED BY <2>1, <2>2, <2>3 DEF Step
<1>6. ASSUME NEW b \in Region(f, h)
      PROVE  /\ ToSet(h.blocks[b].succs) \subseteq New(f, h)
             /\ \A x \in h.blocks[b].defs : x \in D \/ (b = f.curr /\ x \in f.blocks[b].defs)
             /\ \A i \in DOMAIN h.blocks[b].term.args : From(h, V, h.blocks[b].term.args[i], b)
             /\ \A k \in DOMAIN h.blocks[b].code : Added(f, b, k) => Sound(f, V, h, h.blocks[b].code[k])
  <2>1. CASE b \notin DOMAIN g.blocks
    <3>1. h.blocks[b] = EmptyBlock
      BY <1>1, <1>2, <2>1 DEF Step, Region, New
    <3> QED BY <3>1, EmptyBlockSays
  <2>2. CASE b \in DOMAIN g.blocks
    <3>1. b \in Region(f, g)
      BY <2>2 DEF Region, New
    <3>2. /\ ToSet(g.blocks[b].succs) \subseteq New(f, g)
          /\ \A x \in g.blocks[b].defs : x \in D \/ (b = f.curr /\ x \in f.blocks[b].defs)
          /\ \A i \in DOMAIN g.blocks[b].term.args : From(g, V, g.blocks[b].term.args[i], b)
          /\ \A k \in DOMAIN g.blocks[b].code : Added(f, b, k) => Sound(f, V, g, g.blocks[b].code[k])
      BY <3>1 DEF Lowered
    <3>3. /\ ToSet(h.blocks[b].succs) \subseteq ToSet(g.blocks[b].succs) \union New(f, h)
          /\ h.blocks[b].defs \subseteq g.blocks[b].defs \union D
          /\ \/ h.blocks[b].term = g.blocks[b].term
             \/ \A i \in DOMAIN h.blocks[b].term.args : From(h, V, h.blocks[b].term.args[i], b)
          /\ \A k \in DOMAIN h.blocks[b].code \ DOMAIN g.blocks[b].code :
               Sound(f, V, h, h.blocks[b].code[k])
          /\ Grows(g, h)
      BY <3>1 DEF Step
    <3>4. \A i \in DOMAIN h.blocks[b].term.args : From(h, V, h.blocks[b].term.args[i], b)
      BY <2>2, <3>2, <3>3, FromGrows
    <3>5. ASSUME NEW k \in DOMAIN h.blocks[b].code, Added(f, b, k)
          PROVE  Sound(f, V, h, h.blocks[b].code[k])
      <4>1. CASE k \notin DOMAIN g.blocks[b].code
        BY <3>3, <3>5, <4>1
      <4>2. CASE k \in DOMAIN g.blocks[b].code
        <5>1. Sound(f, V, g, g.blocks[b].code[k])
          BY <3>2, <3>5, <4>2
        <5>2. SameButSym(h.blocks[b].code[k], g.blocks[b].code[k])
          BY <2>2, <3>3, <4>2 DEF Grows
        <5> QED BY <1>2, <3>3, <5>1, <5>2, SoundGrows
      <4> QED BY <4>1, <4>2
    <3> QED BY <1>2, <3>2, <3>3, <3>4, <3>5
  <2> QED BY <2>1, <2>2
<1> QED BY <1>3, <1>4, <1>5, <1>6 DEF Lowered

\* Lowering begins with nothing lowered.
LEMMA LoweredAtFirst ==
  ASSUME NEW f, IsGraph(f), IsOpen(f), NEW V, NEW D
  PROVE  Lowered(f, V, D, f)
<1>1. f.curr \in DOMAIN f.blocks /\ f \in Function
  BY DEF IsGraph, HasEdges
<1>2. f.blocks[f.curr].succs = << >> /\ f.blocks[f.curr].term.args = << >>
  BY OpenHasNoSuccessors DEF IsOpen, Open
<1>3. ToSet(f.blocks[f.curr].succs) = {} /\ DOMAIN f.blocks[f.curr].term.args = {}
  BY <1>2, EmptyHolds DEF ToSet
<1>4. Region(f, f) = {f.curr}
  BY DEF Region, New
<1> QED BY <1>1, <1>3, <1>4 DEF Lowered, OnlyCurrChanged, Added

\* The same edges, whatever else changes.
LEMMA SameEdgesRooted ==
  ASSUME NEW g, NEW h, DOMAIN h.blocks = DOMAIN g.blocks, Rooted(g),
         \A b \in DOMAIN g.blocks : /\ h.blocks[b].succs = g.blocks[b].succs
                                    /\ h.blocks[b].preds = g.blocks[b].preds
  PROVE  Rooted(h)
<1> SUFFICES ASSUME NEW C \in SUBSET DOMAIN h.blocks, ClosedFromEntry(h, C),
                    \A b \in DOMAIN h.blocks : h.blocks[b].preds = << >> => b \in C
             PROVE  C = DOMAIN h.blocks
  BY DEF Rooted
<1>1. ClosedFromEntry(g, C)
  BY DEF ClosedFromEntry
<1> QED BY <1>1 DEF Rooted

LEMMA SameButSymItself == \A i : SameButSym(i, i)
BY DEF SameButSym

\* Another block of the region to fill.
LEMMA LoweredElsewhere ==
  ASSUME NEW f, IsGraph(f), NEW V, NEW D, NEW g, Lowered(f, V, D, g),
         NEW h \in Function, h.blocks = g.blocks, h.curr \in Region(f, g)
  PROVE  Lowered(f, V, D, h) /\ Grows(g, h)
<1>1. New(f, h) = New(f, g) /\ Region(f, h) = Region(f, g)
  BY DEF New, Region
<1>2. Grows(g, h)
  BY SameButSymItself DEF Grows
<1>3. Rooted(g) => Rooted(h)
  BY SameEdgesRooted
<1>4. Step(f, V, D, g, h)
  BY <1>1, <1>2, <1>3 DEF Step
<1> QED BY <1>2, <1>4, LoweredStep

\* Blocks of its own.
LEMMA LoweredMakes ==
  ASSUME NEW f, IsGraph(f), NEW V, NEW D, NEW g, IsGraph(g), Lowered(f, V, D, g), NEW n \in Nat
  PROVE  LET h == makeBlocks(g, n)
         IN  Lowered(f, V, D, h) /\ Grows(g, h)
<1> DEFINE N == Len(g.blocks)
           h == makeBlocks(g, n)
<1>1. BlocksAdded(g, h, n)
  BY makeBlocksBuilds
<1> HIDE DEF h
<1>2. /\ h \in Function /\ h.curr = g.curr
      /\ DOMAIN g.blocks \subseteq DOMAIN h.blocks
      /\ \A b \in DOMAIN g.blocks : h.blocks[b] = g.blocks[b]
      /\ \A b \in DOMAIN h.blocks \ DOMAIN g.blocks : h.blocks[b] = EmptyBlock
  <2>1. /\ IsGraph(h) /\ h.curr = g.curr /\ N \in Nat
        /\ DOMAIN g.blocks = 1 .. N /\ DOMAIN h.blocks = 1 .. N + n
        /\ \A b \in 1 .. N : h.blocks[b] = g.blocks[b]
        /\ \A b \in N + 1 .. N + n : h.blocks[b] = EmptyBlock
    BY <1>1 DEF BlocksAdded
  <2> HIDE DEF N
  <2>2. \A b \in 1 .. N + n : b \notin 1 .. N => b \in N + 1 .. N + n
    BY <2>1
  <2>3. \A b \in 1 .. N : b \in 1 .. N + n
    BY <2>1
  <2> QED BY <2>1, <2>2, <2>3 DEF IsGraph, HasEdges
<1>3. Grows(g, h)
  BY <1>2, SameButSymItself DEF Grows
<1>4. f.curr \in DOMAIN g.blocks
  BY DEF Lowered, IsGraph, HasEdges
<1>5. New(f, g) \subseteq New(f, h) /\ h.curr \in Region(f, h) /\ Region(f, g) \subseteq DOMAIN g.blocks
  BY <1>2, <1>4 DEF New, Region, Lowered
<1>6. ASSUME Rooted(g)
      PROVE  Rooted(h)
  <2> SUFFICES ASSUME NEW C \in SUBSET DOMAIN h.blocks, ClosedFromEntry(h, C),
                      \A b \in DOMAIN h.blocks : h.blocks[b].preds = << >> => b \in C
               PROVE  C = DOMAIN h.blocks
    BY DEF Rooted
  <2> DEFINE B == C \intersect DOMAIN g.blocks
  <2>1. ClosedFromEntry(g, B)
    <3>1. 1 \in DOMAIN g.blocks /\ \A b \in DOMAIN g.blocks : ToSet(g.blocks[b].succs) \subseteq DOMAIN g.blocks
      BY GraphBlocks
    <3> QED BY <1>2, <3>1 DEF ClosedFromEntry
  <2>2. \A b \in DOMAIN g.blocks : g.blocks[b].preds = << >> => b \in B
    BY <1>2
  <2>3. B = DOMAIN g.blocks
    BY <1>6, <2>1, <2>2 DEF Rooted
  <2>4. \A b \in DOMAIN h.blocks \ DOMAIN g.blocks : b \in C
    BY <1>2, EmptyBlockSays
  <2> QED BY <2>3, <2>4
<1>7. Step(f, V, D, g, h)
  BY <1>2, <1>3, <1>5, <1>6 DEF Step
<1> QED BY <1>3, <1>7, LoweredStep DEF h

\* Edges from the block that ends to blocks that do not lead anywhere yet, or that
\* others lead to, cut no block off.
LEMMA EndedRooted ==
  ASSUME NEW g, IsGraph(g), NEW h, NEW T, Ended(g, h, T), T \subseteq DOMAIN g.blocks,
         g.curr \notin T, ToSet(g.blocks[g.curr].succs) \subseteq ToSet(h.blocks[g.curr].succs),
         T \subseteq ToSet(h.blocks[g.curr].succs),
         \A t \in T : g.blocks[t].succs = << >> \/ g.blocks[t].preds # << >>,
         Rooted(g)
  PROVE  Rooted(h)
<1> SUFFICES ASSUME NEW C \in SUBSET DOMAIN h.blocks, ClosedFromEntry(h, C),
                    \A b \in DOMAIN h.blocks : h.blocks[b].preds = << >> => b \in C
             PROVE  C = DOMAIN h.blocks
  BY DEF Rooted
<1> DEFINE E == {t \in T : g.blocks[t].preds = << >>}
           B == C \union E
<1>1. DOMAIN h.blocks = DOMAIN g.blocks /\ IsGraph(h)
  BY DEF Ended, SameShape
<1>2. \A b \in DOMAIN g.blocks : b # g.curr => h.blocks[b].succs = g.blocks[b].succs
  BY <1>1 DEF Ended, IsGraph, SuccessorsAreTargets
<1>3. \A c \in E : ToSet(g.blocks[c].succs) = {}
  BY EmptyHolds DEF ToSet
<1>4. ClosedFromEntry(g, B)
  BY <1>1, <1>2, <1>3 DEF ClosedFromEntry
<1>5. \A b \in DOMAIN g.blocks : g.blocks[b].preds = << >> => b \in B
  BY <1>1 DEF Ended
<1>6. B \in SUBSET DOMAIN g.blocks
  BY <1>1
<1>7. B = DOMAIN g.blocks
  BY <1>4, <1>5, <1>6 DEF Rooted
<1>8. g.curr \in C
  BY <1>7 DEF IsGraph, HasEdges
<1>9. E \subseteq C
  BY <1>8 DEF ClosedFromEntry
<1> QED BY <1>1, <1>7, <1>9

\* The end of the block being filled, into blocks of the region.
LEMMA LoweredEnds ==
  ASSUME NEW f, IsGraph(f), NEW V, NEW D, NEW g, IsGraph(g), IsOpen(g), Lowered(f, V, D, g),
         NEW h, NEW T, Ended(g, h, T), T \subseteq New(f, g), g.curr \notin T,
         ToSet(h.blocks[g.curr].succs) = T,
         \A t \in T : g.blocks[t].succs = << >> \/ g.blocks[t].preds # << >>,
         \A i \in DOMAIN h.blocks[g.curr].term.args : From(g, V, h.blocks[g.curr].term.args[i], g.curr)
  PROVE  Lowered(f, V, D, h) /\ Grows(g, h)
<1>1. /\ DOMAIN h.blocks = DOMAIN g.blocks /\ IsGraph(h) /\ h \in Function /\ h.curr = g.curr
      /\ New(f, h) = New(f, g) /\ Region(f, h) = Region(f, g)
      /\ g.curr \in DOMAIN g.blocks
  BY DEF Ended, SameShape, New, Region, IsGraph, HasEdges
<1>2. Grows(g, h)
  BY <1>1, SameButSymItself DEF Grows, Ended
<1>3. g.curr \in Region(f, g) /\ f.curr \in DOMAIN g.blocks /\ Region(f, g) \subseteq DOMAIN g.blocks
  BY DEF Lowered, IsGraph, HasEdges, Region, New
<1>4. Rooted(g) => Rooted(h)
  <2>1. ToSet(g.blocks[g.curr].succs) = {}
    BY OpenHasNoSuccessors, EmptyHolds DEF ToSet
  <2> QED BY <2>1, EndedRooted DEF New
<1>5. \A b \in DOMAIN g.blocks \ Region(f, g) : h.blocks[b] = g.blocks[b]
  BY <1>3 DEF Ended, Region
<1>6. ASSUME NEW b \in Region(f, g)
      PROVE  /\ h.blocks[b].code = g.blocks[b].code
             /\ h.blocks[b].defs = g.blocks[b].defs
             /\ \/ h.blocks[b].term = g.blocks[b].term
                \/ \A i \in DOMAIN h.blocks[b].term.args : From(h, V, h.blocks[b].term.args[i], b)
             /\ ToSet(h.blocks[b].succs) \subseteq ToSet(g.blocks[b].succs) \union New(f, h)
  <2>1. b \in DOMAIN g.blocks
    BY <1>3
  <2>2. h.blocks[b].code = g.blocks[b].code /\ h.blocks[b].defs = g.blocks[b].defs
    BY <2>1 DEF Ended
  <2>3. CASE b = g.curr
    BY <1>1, <1>2, <2>1, <2>2, <2>3, FromGrows
  <2>4. CASE b # g.curr
    <3>1. h.blocks[b].term = g.blocks[b].term
      BY <2>1, <2>4 DEF Ended
    <3>2. h.blocks[b].succs = g.blocks[b].succs
      BY <1>1, <2>1, <3>1 DEF IsGraph, SuccessorsAreTargets
    <3> QED BY <2>2, <3>1, <3>2
  <2> QED BY <2>3, <2>4
<1>7. Step(f, V, D, g, h)
  BY <1>1, <1>2, <1>3, <1>4, <1>5, <1>6 DEF Step, Lowered
<1> QED BY <1>2, <1>7, LoweredStep

\* Only the code and the definitions of the block being filled change.
CodeReplaced(g, h) ==
  /\ h \in Function
  /\ h.curr = g.curr
  /\ DOMAIN h.blocks = DOMAIN g.blocks
  /\ OnlyCurrChanged(g, h)
  /\ h.blocks[g.curr].succs = g.blocks[g.curr].succs
  /\ h.blocks[g.curr].preds = g.blocks[g.curr].preds
  /\ h.blocks[g.curr].term = g.blocks[g.curr].term

LEMMA CurrFilled ==
  ASSUME NEW g \in Function, g.curr \in DOMAIN g.blocks, NEW C \in Block,
         C.succs = g.blocks[g.curr].succs, C.preds = g.blocks[g.curr].preds, C.term = g.blocks[g.curr].term
  PROVE  LET h == [g EXCEPT !.blocks = [g.blocks EXCEPT ![g.curr] = C]]
         IN  CodeReplaced(g, h) /\ h.blocks[g.curr] = C
<1> DEFINE new == [g.blocks EXCEPT ![g.curr] = C]
           h == [g EXCEPT !.blocks = new]
<1>1. g.blocks \in Seq(Block)
  BY DEF Function
<1>2. /\ new \in Seq(Block)
      /\ DOMAIN new = DOMAIN g.blocks
      /\ new[g.curr] = C
      /\ \A c \in DOMAIN g.blocks : c # g.curr => new[c] = g.blocks[c]
  BY <1>1, BlockReplaced
<1> HIDE DEF new
<1>3. h \in Function /\ h.blocks = new /\ h.curr = g.curr
  BY <1>2 DEF Function
<1> HIDE DEF h
<1> QED BY <1>2, <1>3 DEF CodeReplaced, OnlyCurrChanged, h, new

LEMMA emitAppends ==
  ASSUME NEW g \in Function, g.curr \in DOMAIN g.blocks, NEW i \in Instruction
  PROVE  LET h == emit(g, i)
         IN  /\ CodeReplaced(g, h)
             /\ g.blocks[g.curr].code \in Seq(Instruction)
             /\ h.blocks[g.curr].code = Append(g.blocks[g.curr].code, i)
             /\ h.blocks[g.curr].defs = g.blocks[g.curr].defs
<1> DEFINE B == g.blocks[g.curr]
           C == [B EXCEPT !.code = Append(@, i)]
           h == emit(g, i)
<1>1. B \in Block
  BY ElementOfSeq DEF Function
<1>2. B.code \in Seq(Instruction)
  BY <1>1 DEF Block
<1>3. Append(B.code, i) \in Seq(Instruction)
  BY <1>2, AppendHolds
<1>4. /\ C \in Block /\ C.succs = B.succs /\ C.preds = B.preds /\ C.term = B.term
      /\ C.code = Append(B.code, i) /\ C.defs = B.defs
  BY <1>1, <1>3 DEF Block
<1>5. h = [g EXCEPT !.blocks = [g.blocks EXCEPT ![g.curr] = C]]
  BY DEF emit, Function
<1> HIDE DEF C, h
<1>6. CodeReplaced(g, h) /\ h.blocks[g.curr] = C
  BY <1>4, <1>5, CurrFilled
<1> QED BY <1>2, <1>4, <1>6 DEF h

\* What lowering adds to the code of the block being filled.
LEMMA LoweredFills ==
  ASSUME NEW f, IsGraph(f), NEW V, NEW D, NEW g, Lowered(f, V, D, g), NEW h, CodeReplaced(g, h),
         \A k \in DOMAIN g.blocks[g.curr].code :
           /\ k \in DOMAIN h.blocks[g.curr].code
           /\ SameButSym(h.blocks[g.curr].code[k], g.blocks[g.curr].code[k])
           /\ ~Added(f, g.curr, k) => h.blocks[g.curr].code[k] = g.blocks[g.curr].code[k],
         \A k \in DOMAIN h.blocks[g.curr].code \ DOMAIN g.blocks[g.curr].code :
           Sound(f, V, g, h.blocks[g.curr].code[k]),
         h.blocks[g.curr].defs \subseteq g.blocks[g.curr].defs \union D
  PROVE  Lowered(f, V, D, h) /\ Grows(g, h)
<1>1. /\ DOMAIN h.blocks = DOMAIN g.blocks /\ h \in Function /\ h.curr = g.curr
      /\ New(f, h) = New(f, g) /\ Region(f, h) = Region(f, g)
      /\ \A b \in DOMAIN g.blocks : b # g.curr => h.blocks[b] = g.blocks[b]
      /\ h.blocks[g.curr].succs = g.blocks[g.curr].succs
      /\ h.blocks[g.curr].preds = g.blocks[g.curr].preds
      /\ h.blocks[g.curr].term = g.blocks[g.curr].term
  BY DEF CodeReplaced, OnlyCurrChanged, New, Region
<1>2. g.curr \in Region(f, g) /\ f.curr \in DOMAIN g.blocks /\ Region(f, g) \subseteq DOMAIN g.blocks
  BY DEF Lowered, IsGraph, HasEdges, Region, New
<1>3. Grows(g, h)
  BY <1>1, SameButSymItself DEF Grows
<1>4. Rooted(g) => Rooted(h)
  <2>1. \A b \in DOMAIN g.blocks : /\ h.blocks[b].succs = g.blocks[b].succs
                                   /\ h.blocks[b].preds = g.blocks[b].preds
    BY <1>1
  <2> QED BY <1>1, <2>1, SameEdgesRooted
<1>5. \A k \in DOMAIN h.blocks[g.curr].code \ DOMAIN g.blocks[g.curr].code :
        Sound(f, V, h, h.blocks[g.curr].code[k])
  BY <1>1, <1>2, <1>3, SoundGrows, SameButSymItself
<1>6. Step(f, V, D, g, h)
  BY <1>1, <1>2, <1>3, <1>4, <1>5 DEF Step
<1> QED BY <1>3, <1>6, LoweredStep

\* A sound instruction at the end of the block; a value it makes is the result.
LEMMA LoweredEmits ==
  ASSUME NEW f, IsGraph(f), NEW V, NEW D, NEW g, Lowered(f, V, D, g), NEW i \in Instruction, Sound(f, V, g, i)
  PROVE  LET h == emit(g, i)
         IN  /\ Lowered(f, V, D, h) /\ Grows(g, h) /\ h.curr = g.curr
             /\ i.op # "bind" => Result(f, V, h, Value(i.dst))
             /\ \A x : i.sym = x => Has(h, h.curr, x)
<1> DEFINE h == emit(g, i)
           code == g.blocks[g.curr].code
<1>1. g \in Function /\ g.curr \in DOMAIN g.blocks /\ f.curr \in DOMAIN f.blocks
  BY DEF Lowered, Region, New, IsGraph, HasEdges
<1>2. /\ CodeReplaced(g, h)
      /\ code \in Seq(Instruction)
      /\ h.blocks[g.curr].code = Append(code, i)
      /\ h.blocks[g.curr].defs = g.blocks[g.curr].defs
  BY <1>1, emitAppends
<1> HIDE DEF h
<1>3. /\ Len(code) \in Nat /\ DOMAIN code = 1 .. Len(code)
      /\ DOMAIN Append(code, i) = 1 .. Len(code) + 1
      /\ \A k \in 1 .. Len(code) : Append(code, i)[k] = code[k]
      /\ Append(code, i)[Len(code) + 1] = i
      /\ Len(Append(code, i)) = Len(code) + 1
  <2>1. code \in Seq(Instruction) /\ i \in Instruction
    BY <1>2
  <2> HIDE DEF code
  <2> QED BY ONLY <2>1, AppendPlaces, AppendHolds
<1> HIDE DEF code
<1>4. \A k \in DOMAIN code : k \in DOMAIN Append(code, i) /\ Append(code, i)[k] = code[k]
  BY <1>3
<1>5. \A k \in DOMAIN Append(code, i) : k \notin DOMAIN code => Append(code, i)[k] = i
  BY <1>3
<1>6. Lowered(f, V, D, h) /\ Grows(g, h)
  <2>1. \A k \in DOMAIN g.blocks[g.curr].code :
          /\ k \in DOMAIN h.blocks[g.curr].code
          /\ SameButSym(h.blocks[g.curr].code[k], g.blocks[g.curr].code[k])
          /\ h.blocks[g.curr].code[k] = g.blocks[g.curr].code[k]
    BY <1>2, <1>4, SameButSymItself DEF code
  <2>2. \A k \in DOMAIN h.blocks[g.curr].code \ DOMAIN g.blocks[g.curr].code :
          Sound(f, V, g, h.blocks[g.curr].code[k])
    BY <1>2, <1>5 DEF code
  <2> QED BY <1>2, <2>1, <2>2, LoweredFills
<1>7. h.curr = g.curr
  BY <1>2 DEF CodeReplaced
<1>8. Len(code) + 1 \in DOMAIN Append(code, i) /\ Len(code) + 1 \notin DOMAIN code
  BY <1>3
<1>9. Added(f, g.curr, Len(code) + 1)
  BY <1>8 DEF Lowered, Added, code
<1>10. ASSUME i.op # "bind"
       PROVE  Result(f, V, h, Value(i.dst))
  <2>1. ~IsRef(Value(i.dst)) /\ Value(i.dst).value = i.dst
    BY DEF IsRef, Value
  <2> QED BY <1>2, <1>3, <1>7, <1>8, <1>9, <1>10, <2>1 DEF Result, code
<1>11. \A x : i.sym = x => Has(h, h.curr, x)
  BY <1>2, <1>3, <1>7, <1>8 DEF Has, code
<1> QED BY <1>6, <1>7, <1>10, <1>11 DEF h

LEMMA LoweredNumbers ==
  ASSUME NEW f, IsGraph(f), NEW V, NEW D, NEW g, Lowered(f, V, D, g)
  PROVE  LET h == makeValue(g)
         IN  Lowered(f, V, D, h) /\ Grows(g, h) /\ h.curr = g.curr /\ h.blocks = g.blocks /\ g.nextId \in Nat
<1> DEFINE h == makeValue(g)
<1>1. g \in Function /\ g.curr \in Region(f, g)
  BY DEF Lowered
<1>2. h \in Function /\ h.curr = g.curr /\ h.blocks = g.blocks /\ g.nextId \in Nat
  BY <1>1 DEF makeValue, Function
<1> HIDE DEF h
<1>3. Lowered(f, V, D, h) /\ Grows(g, h)
  BY <1>1, <1>2, LoweredElsewhere
<1> QED BY <1>2, <1>3 DEF h

\* A variable defined in the block being filled.
LEMMA LoweredDefines ==
  ASSUME NEW f, IsGraph(f), NEW V, NEW D, NEW g, Lowered(f, V, D, g), NEW x \in Vars, x \in D
  PROVE  LET h == [g EXCEPT !.blocks[g.curr].defs = @ \union {x}]
         IN  /\ Lowered(f, V, D, h) /\ Grows(g, h) /\ h.curr = g.curr
             /\ h.blocks[h.curr].defs = g.blocks[g.curr].defs \union {x}
             /\ h.blocks[h.curr].code = g.blocks[g.curr].code
<1> DEFINE B == g.blocks[g.curr]
           C == [B EXCEPT !.defs = @ \union {x}]
           h == [g EXCEPT !.blocks[g.curr].defs = @ \union {x}]
<1>1. g \in Function /\ g.curr \in DOMAIN g.blocks
  BY DEF Lowered, Region, New, IsGraph, HasEdges
<1>2. B \in Block
  BY <1>1, ElementOfSeq DEF Function
<1>3. /\ C \in Block /\ C.succs = B.succs /\ C.preds = B.preds /\ C.term = B.term
      /\ C.code = B.code /\ C.defs = B.defs \union {x}
  BY <1>2 DEF Block
<1>4. h = [g EXCEPT !.blocks = [g.blocks EXCEPT ![g.curr] = C]]
  BY <1>1 DEF Function
<1> HIDE DEF C, h
<1>5. CodeReplaced(g, h) /\ h.blocks[g.curr] = C
  BY <1>1, <1>3, <1>4, CurrFilled
<1>6. h.curr = g.curr
  BY <1>5 DEF CodeReplaced
<1>7. Lowered(f, V, D, h) /\ Grows(g, h)
  BY <1>3, <1>5, LoweredFills, SameButSymItself
<1> QED BY <1>3, <1>5, <1>6, <1>7 DEF h

\* The last instruction, an addition, gets a variable's name.
LEMMA LoweredNames ==
  ASSUME NEW f, IsGraph(f), NEW V, NEW D, NEW g, Lowered(f, V, D, g), NEW x \in Vars,
         NEW o, ~IsRef(o), Result(f, V, g, o)
  PROVE  LET h == [g EXCEPT !.blocks[g.curr].code[Len(g.blocks[g.curr].code)].sym = x]
         IN  /\ Lowered(f, V, D, h) /\ Grows(g, h) /\ h.curr = g.curr
             /\ h.blocks[h.curr].defs = g.blocks[g.curr].defs
             /\ Has(h, h.curr, x)
             /\ Result(f, V, h, o)
<1> DEFINE B == g.blocks[g.curr]
           n == Len(g.blocks[g.curr].code)
           i == [B.code[n] EXCEPT !.sym = x]
           code == [B.code EXCEPT ![n] = i]
           C == [B EXCEPT !.code = code]
           h == [g EXCEPT !.blocks[g.curr].code[n].sym = x]
<1>1. g \in Function /\ g.curr \in DOMAIN g.blocks
  BY DEF Lowered, Region, New, IsGraph, HasEdges
<1>2. B \in Block
  BY <1>1, ElementOfSeq DEF Function
<1>3. B.code \in Seq(Instruction) /\ n = Len(B.code)
  BY <1>2 DEF Block
<1>4. /\ n \in DOMAIN B.code /\ Added(f, g.curr, n)
      /\ B.code[n].op # "bind" /\ B.code[n].dst = o.value
  BY DEF Result
<1>5. i \in Instruction /\ SameButSym(i, B.code[n]) /\ i.sym = x
  <2>1. B.code[n] \in Instruction
    BY <1>3, <1>4, ElementOfSeq
  <2> QED BY <2>1 DEF Instruction, SameButSym
<1>6. code \in Seq(Instruction) /\ Len(code) = Len(B.code)
  <2> HIDE DEF B, n, i
  <2> QED BY <1>3, <1>4, <1>5, ExceptSeq
<1>7. /\ DOMAIN code = DOMAIN B.code /\ code[n] = i
      /\ \A k \in DOMAIN B.code : k # n => code[k] = B.code[k]
  BY <1>4
<1>8. h = [g EXCEPT !.blocks = [g.blocks EXCEPT ![g.curr] = C]]
  <2> HIDE DEF n
  <2> QED BY <1>1, <1>2, <1>4 DEF Function, Block
<1> HIDE DEF n, i, code, h
<1>9. /\ C \in Block /\ C.succs = B.succs /\ C.preds = B.preds /\ C.term = B.term
      /\ C.code = code /\ C.defs = B.defs
  BY <1>2, <1>6 DEF Block
<1> HIDE DEF C
<1>10. CodeReplaced(g, h) /\ h.blocks[g.curr] = C
  BY <1>1, <1>8, <1>9, CurrFilled
<1>11. h.curr = g.curr
  BY <1>10 DEF CodeReplaced
<1>12. \A k \in DOMAIN B.code :
         /\ k \in DOMAIN C.code /\ SameButSym(C.code[k], B.code[k])
         /\ ~Added(f, g.curr, k) => C.code[k] = B.code[k]
  BY <1>4, <1>5, <1>7, <1>9, SameButSymItself
<1>13. Lowered(f, V, D, h) /\ Grows(g, h)
  <2>1. \A k \in DOMAIN C.code \ DOMAIN B.code : Sound(f, V, g, C.code[k])
    BY <1>7, <1>9
  <2> QED BY <1>9, <1>10, <1>12, <2>1, LoweredFills
<1>14. Has(h, h.curr, x)
  BY <1>4, <1>5, <1>7, <1>9, <1>10, <1>11 DEF Has
<1>15. Result(f, V, h, o)
  BY <1>3, <1>4, <1>5, <1>6, <1>7, <1>9, <1>10, <1>11 DEF Result, SameButSym
<1> QED BY <1>9, <1>10, <1>11, <1>13, <1>14, <1>15 DEF h, n

LEMMA LoweredBinds ==
  ASSUME NEW f, IsGraph(f), NEW V, NEW D, NEW g, Lowered(f, V, D, g), NEW x \in Vars, x \in D,
         NEW value \in Operand, Result(f, V, g, value)
  PROVE  LET h == bindLocalDefinition(g, x, value)
         IN  /\ Lowered(f, V, D, h) /\ Grows(g, h) /\ h.curr = g.curr
             /\ Has(h, h.curr, x)
             /\ h.blocks[h.curr].defs = g.blocks[g.curr].defs \union {x}
             /\ Result(f, V, h, value)
<1> DEFINE h == bindLocalDefinition(g, x, value)
           d == [g EXCEPT !.blocks[g.curr].defs = @ \union {x}]
<1>1. /\ Lowered(f, V, D, d) /\ Grows(g, d) /\ d.curr = g.curr
      /\ d.blocks[d.curr].defs = g.blocks[g.curr].defs \union {x}
      /\ d.blocks[d.curr].code = g.blocks[g.curr].code
  BY LoweredDefines
<1>2. CASE IsRef(value)
  <2> DEFINE bind == Instr("bind", 0, <<value>>, << >>, x, << >>)
  <2>1. h = emit(d, bind)
    BY <1>2 DEF bindLocalDefinition
  <2>2. bind \in Instruction /\ bind.op = "bind" /\ bind.sym = x /\ ~IsPhi(bind) /\ bind.args = <<value>>
    BY DEF Instr, Instruction, IsPhi
  <2> HIDE DEF bind, d, h
  <2>3. Sound(f, V, d, bind)
    <3>1. value.ref \in V
      BY <1>2 DEF Result
    <3> QED BY <1>2, <2>2, <3>1 DEF Sound
  <2>4. Lowered(f, V, D, h) /\ Grows(d, h) /\ h.curr = d.curr /\ Has(h, h.curr, x)
    BY <1>1, <2>1, <2>2, <2>3, LoweredEmits
  <2>5. h.blocks[h.curr].defs = d.blocks[d.curr].defs
    <3>1. d \in Function /\ d.curr \in DOMAIN d.blocks
      BY <1>1 DEF Lowered, Region, New, IsGraph, HasEdges
    <3> QED BY <2>1, <2>2, <2>4, <3>1, emitAppends
  <2>6. Result(f, V, h, value)
    BY <1>2 DEF Result
  <2>7. Grows(g, h)
    BY <1>1, <2>4 DEF Grows, SameButSym
  <2> QED BY <1>1, <2>4, <2>5, <2>6, <2>7 DEF h
<1>3. CASE ~IsRef(value)
  <2>1. h = [d EXCEPT !.blocks[d.curr].code[Len(d.blocks[d.curr].code)].sym = x]
    BY <1>1, <1>3 DEF bindLocalDefinition
  <2> HIDE DEF d
  <2> DEFINE m == [d EXCEPT !.blocks[d.curr].code[Len(d.blocks[d.curr].code)].sym = x]
  <2>2. Result(f, V, d, value)
    BY <1>1, <1>3 DEF Result
  <2>3. Lowered(f, V, D, d) /\ ~IsRef(value)
    BY <1>1, <1>3
  <2>4. /\ Lowered(f, V, D, m) /\ Grows(d, m) /\ m.curr = d.curr
        /\ m.blocks[m.curr].defs = d.blocks[d.curr].defs
        /\ Has(m, m.curr, x)
        /\ Result(f, V, m, value)
    BY ZenonT(60), <2>2, <2>3, LoweredNames
  <2>5. h = m
    BY <2>1
  <2> HIDE DEF h, m
  <2>6. Grows(g, h)
    BY <1>1, <2>4, <2>5 DEF Grows, SameButSym
  <2> QED BY <1>1, <2>4, <2>5, <2>6 DEF h
<1> QED BY <1>2, <1>3

-----------------------------------------------------------------------------
(* Expressions.                                                            *)
LEMMA ResultComes ==
  ASSUME NEW f, NEW V, NEW g, NEW o, Result(f, V, g, o)
  PROVE  From(g, V, o, g.curr)
BY DEF Result, From, Makes

LEMMA GrowsTwice ==
  ASSUME NEW f, NEW g, NEW h, Grows(f, g), Grows(g, h)
  PROVE  Grows(f, h)
BY DEF Grows, SameButSym

LEMMA ShortSequences ==
  /\ \A a : ToSet(<<a>>) = {a} /\ DOMAIN <<a>> = {1}
  /\ \A a, b : ToSet(<<a, b>>) = {a, b} /\ DOMAIN <<a, b>> = {1, 2}
<1>1. ASSUME NEW a, NEW b
      PROVE  DOMAIN <<a>> = {1} /\ DOMAIN <<a, b>> = {1, 2}
  OBVIOUS
<1> QED BY <1>1 DEF ToSet

LEMMA OperationLowered ==
  ASSUME NEW f, IsGraph(f), NEW V, NEW D, NEW g, Lowered(f, V, D, g),
         NEW args \in Seq(Operand), \A j \in DOMAIN args : IsRef(args[j]) /\ args[j].ref \in V,
         NEW where \in Seq(Nat)
  PROVE  LET v == visitOperation(g, args, where)
         IN  /\ Lowered(f, V, D, v.f) /\ Grows(g, v.f) /\ v.f.curr = g.curr
             /\ v.last \in Operand /\ Result(f, V, v.f, v.last)
<1> DEFINE h == makeValue(g)
           i == Instr("op", g.nextId, args, << >>, None, where)
<1>1. Lowered(f, V, D, h) /\ Grows(g, h) /\ h.curr = g.curr /\ g.nextId \in Nat
  BY LoweredNumbers
<1>2. i \in Instruction /\ ~IsPhi(i) /\ i.args = args /\ i.dst = g.nextId /\ i.op # "bind"
  BY <1>1 DEF Instr, Instruction, IsPhi
<1> HIDE DEF h, i
<1>3. Sound(f, V, h, i)
  BY <1>2 DEF Sound
<1>4. Lowered(f, V, D, emit(h, i)) /\ Grows(h, emit(h, i)) /\ emit(h, i).curr = h.curr
      /\ Result(f, V, emit(h, i), Value(i.dst))
  BY <1>1, <1>2, <1>3, LoweredEmits
<1>5. Value(g.nextId) \in Operand
  BY <1>1 DEF Operand
<1> QED BY <1>1, <1>2, <1>4, <1>5, GrowsTwice DEF visitOperation, Evaluated, h, i

LEMMA DecidedLowered ==
  ASSUME NEW f, IsGraph(f), NEW V, NEW D, NEW g, Lowered(f, V, D, g),
         NEW op \in ShortCircuitOps, NEW left \in Operand, op = "??" => IsRef(left) /\ left.ref \in V,
         NEW where \in Seq(Nat)
  PROVE  LET v == visitDecided(g, op, left, where)
         IN  /\ Lowered(f, V, D, v.f) /\ Grows(g, v.f) /\ v.f.curr = g.curr
             /\ Result(f, V, v.f, v.last)
<1>1. CASE op = "??"
  <2>1. Grows(g, g)
    BY SameButSymItself DEF Grows
  <2> QED BY <1>1, <2>1 DEF visitDecided, Evaluated, Result
<1>2. CASE op # "??"
  <2> DEFINE h == makeValue(g)
             i == Instr(IF op = "&&" THEN "false" ELSE "true", g.nextId, << >>, << >>, None, where)
  <2>1. Lowered(f, V, D, h) /\ Grows(g, h) /\ h.curr = g.curr /\ g.nextId \in Nat
    BY LoweredNumbers
  <2>2. i \in Instruction /\ ~IsPhi(i) /\ i.args = << >> /\ i.dst = g.nextId /\ i.op # "bind"
    BY <2>1 DEF Instr, Instruction, IsPhi
  <2> HIDE DEF h, i
  <2>3. Sound(f, V, h, i)
    BY <2>2, EmptyHolds DEF Sound
  <2>4. Lowered(f, V, D, emit(h, i)) /\ Grows(h, emit(h, i)) /\ emit(h, i).curr = h.curr
        /\ Result(f, V, emit(h, i), Value(i.dst))
    BY <2>1, <2>2, <2>3, LoweredEmits
  <2> QED BY <1>2, <2>1, <2>2, <2>4, GrowsTwice DEF visitDecided, Evaluated, h, i
<1> QED BY <1>1, <1>2

\* A jump to a block of the region that leads nowhere yet, or that others lead to.
LEMMA LoweredJumps ==
  ASSUME NEW f, IsGraph(f), NEW V, NEW D, NEW g, IsGraph(g), IsOpen(g), Lowered(f, V, D, g),
         NEW b \in New(f, g), b # g.curr, NoPhis(g.blocks[b]),
         g.blocks[b].term = Open \/ g.blocks[b].preds # << >>
  PROVE  LET h == JumpTo(g, b)
         IN  Lowered(f, V, D, h) /\ Grows(g, h) /\ h.curr = g.curr
<1> DEFINE h == JumpTo(g, b)
<1>1. b \in DOMAIN g.blocks
  BY DEF New
<1>2. Ended(g, h, {b}) /\ h.blocks[g.curr].term = Jump(b)
  BY <1>1, JumpToBuilds
<1> HIDE DEF h
<1>3. IsGraph(h) /\ g.curr \in DOMAIN h.blocks /\ h.curr = g.curr
  BY <1>2 DEF Ended, SameShape, IsGraph, HasEdges
<1>4. h.blocks[g.curr].succs = <<b>> /\ h.blocks[g.curr].term.args = << >>
  <2>1. Jump(b).targets = <<b>> /\ Jump(b).args = << >>
    BY DEF Jump, Open
  <2>2. h.blocks[g.curr].succs = h.blocks[g.curr].term.targets
    BY <1>3 DEF IsGraph, SuccessorsAreTargets
  <2> QED BY <1>2, <2>1, <2>2
<1>5. ToSet(h.blocks[g.curr].succs) = {b} /\ DOMAIN h.blocks[g.curr].term.args = {}
  BY <1>4, ShortSequences, EmptyHolds
<1>6. g.blocks[b].succs = << >> \/ g.blocks[b].preds # << >>
  BY <1>1 DEF IsGraph, SuccessorsAreTargets, Open
<1>7. Lowered(f, V, D, h) /\ Grows(g, h)
  BY <1>2, <1>5, <1>6, LoweredEnds
<1> QED BY <1>3, <1>7 DEF h

\* A branch to two blocks of the region.
LEMMA LoweredBranches ==
  ASSUME NEW f, IsGraph(f), NEW V, NEW D, NEW g, IsGraph(g), IsOpen(g), Lowered(f, V, D, g),
         NEW o \in Operand, From(g, V, o, g.curr), NEW where \in Seq(Nat),
         NEW t \in New(f, g), NEW e \in New(f, g), t # e, t # g.curr, e # g.curr,
         NoPhis(g.blocks[t]), NoPhis(g.blocks[e]),
         g.blocks[t].term = Open, g.blocks[e].term = Open
  PROVE  LET h == BranchTo(g, o, t, e, where)
         IN  Lowered(f, V, D, h) /\ Grows(g, h) /\ h.curr = g.curr
<1> DEFINE h == BranchTo(g, o, t, e, where)
<1>1. t \in DOMAIN g.blocks /\ e \in DOMAIN g.blocks
  BY DEF New
<1>2. Ended(g, h, {t, e}) /\ h.blocks[g.curr].term = Branch(o, t, e, where)
  BY <1>1, BranchToBuilds
<1> HIDE DEF h
<1>3. IsGraph(h) /\ g.curr \in DOMAIN h.blocks /\ h.curr = g.curr
  BY <1>2 DEF Ended, SameShape, IsGraph, HasEdges
<1>4. h.blocks[g.curr].succs = <<t, e>> /\ h.blocks[g.curr].term.args = <<o>>
  <2>1. Branch(o, t, e, where).targets = <<t, e>> /\ Branch(o, t, e, where).args = <<o>>
    BY DEF Branch
  <2>2. h.blocks[g.curr].succs = h.blocks[g.curr].term.targets
    BY <1>3 DEF IsGraph, SuccessorsAreTargets
  <2> QED BY <1>2, <2>1, <2>2
<1>5. ToSet(h.blocks[g.curr].succs) = {t, e} /\ DOMAIN h.blocks[g.curr].term.args = {1}
  BY <1>4, ShortSequences
<1>6. \A b \in {t, e} : g.blocks[b].succs = << >>
  BY <1>1 DEF IsGraph, SuccessorsAreTargets, Open
<1>7. \A i \in DOMAIN h.blocks[g.curr].term.args : From(g, V, h.blocks[g.curr].term.args[i], g.curr)
  BY <1>4, <1>5
<1>8. Lowered(f, V, D, h) /\ Grows(g, h)
  BY <1>2, <1>5, <1>6, <1>7, LoweredEnds
<1> QED BY <1>3, <1>8 DEF h

\* A phi of two operands that come from blocks of the region.
LEMMA LoweredMerges ==
  ASSUME NEW f, IsGraph(f), NEW V, NEW D, NEW g, Lowered(f, V, D, g),
         NEW o \in Operand, NEW p \in Operand, NEW b \in Region(f, g), NEW c \in Region(f, g),
         b \in Nat, c \in Nat, From(g, V, o, b), From(g, V, p, c), NEW where \in Seq(Nat)
  PROVE  LET h == emit(makeValue(g), Instr("phi", g.nextId, <<o, p>>, <<b, c>>, None, where))
         IN  /\ Lowered(f, V, D, h) /\ Grows(g, h)
             /\ Result(f, V, h, Value(g.nextId))
<1> DEFINE m == makeValue(g)
           phi == Instr("phi", g.nextId, <<o, p>>, <<b, c>>, None, where)
<1>1. Lowered(f, V, D, m) /\ Grows(g, m) /\ m.blocks = g.blocks /\ g.nextId \in Nat
  BY LoweredNumbers
<1>2. /\ phi \in Instruction /\ IsPhi(phi) /\ phi.op # "bind" /\ phi.dst = g.nextId
      /\ phi.args = <<o, p>> /\ phi.preds = <<b, c>>
  BY <1>1 DEF Instr, Instruction, IsPhi
<1> HIDE DEF m, phi
<1>3. Region(f, m) = Region(f, g) /\ From(m, V, o, b) /\ From(m, V, p, c)
  BY <1>1 DEF Region, New, From, Makes
<1>4. Sound(f, V, m, phi)
  <2>1. DOMAIN <<o, p>> = {1, 2} /\ DOMAIN <<b, c>> = {1, 2}
    BY ShortSequences
  <2>2. <<o, p>>[1] = o /\ <<o, p>>[2] = p /\ <<b, c>>[1] = b /\ <<b, c>>[2] = c
    OBVIOUS
  <2> QED BY <1>2, <1>3, <2>1, <2>2 DEF Sound
<1>5. Lowered(f, V, D, emit(m, phi)) /\ Grows(m, emit(m, phi)) /\ Result(f, V, emit(m, phi), Value(phi.dst))
  BY <1>1, <1>2, <1>4, LoweredEmits
<1> QED BY <1>1, <1>2, <1>5, GrowsTwice DEF m, phi

\* A short circuit up to its right operand.
LEMMA BeginLowered ==
  ASSUME NEW f, IsGraph(f), NEW V, NEW D, NEW g, IsGraph(g), IsOpen(g), Lowered(f, V, D, g),
         NEW op \in ShortCircuitOps, NEW left \in Operand, IsRef(left), left.ref \in V,
         NEW where \in Seq(Nat)
  PROVE  LET s == beginShortCircuit(g, op, left, where)
         IN  /\ Lowered(f, V, D, s.f) /\ Grows(g, s.f)
             /\ From(s.f, V, s.decided, s.trueBlock)
<1> DEFINE n == Len(g.blocks)
           t == n + 1
           fb == t + 1
           mb == t + 2
           made == makeBlocks(g, 3)
           split == BranchTo(made, left, t, fb, where)
           branched == At(split, t)
           decided == visitDecided(branched, op, left, where)
           joined == JumpTo(decided.f, mb)
           s == beginShortCircuit(g, op, left, where)
<1>1. /\ IsGraph(made)
      /\ made.curr = g.curr
      /\ n \in Nat
      /\ DOMAIN g.blocks = 1 .. n
      /\ DOMAIN made.blocks = 1 .. n + 3
      /\ \A b \in 1 .. n : made.blocks[b] = g.blocks[b]
      /\ \A b \in n + 1 .. n + 3 : made.blocks[b] = EmptyBlock
  <2>1. BlocksAdded(g, made, 3)
    BY makeBlocksBuilds
  <2> HIDE DEF made
  <2> QED BY <2>1 DEF BlocksAdded
<1>2. Lowered(f, V, D, made) /\ Grows(g, made)
  BY LoweredMakes
<1> HIDE DEF made
<1> HIDE DEF n
<1>3. g.curr \in 1 .. n /\ DOMAIN f.blocks \subseteq 1 .. n
  BY <1>1 DEF IsGraph, HasEdges, Lowered
<1>4. /\ t \in n + 1 .. n + 3 /\ fb \in n + 1 .. n + 3 /\ mb \in n + 1 .. n + 3
      /\ t \in 1 .. n + 3 /\ fb \in 1 .. n + 3 /\ mb \in 1 .. n + 3
      /\ t \notin 1 .. n /\ fb \notin 1 .. n /\ mb \notin 1 .. n
      /\ t # fb /\ mb # t /\ mb # fb
  BY <1>1
<1> HIDE DEF t, fb, mb
<1>5. /\ t \in New(f, made) /\ fb \in New(f, made) /\ mb \in New(f, made)
      /\ t # made.curr /\ fb # made.curr /\ mb # made.curr
  BY <1>1, <1>3, <1>4 DEF New
<1>6. /\ IsOpen(made) /\ made.blocks[t] = EmptyBlock /\ made.blocks[fb] = EmptyBlock
      /\ made.blocks[mb] = EmptyBlock
      /\ NoPhis(made.blocks[t]) /\ NoPhis(made.blocks[fb])
      /\ made.blocks[t].term = Open /\ made.blocks[fb].term = Open
  BY <1>1, <1>3, <1>4, EmptyHasNoPhis, EmptyBlockIs DEF IsOpen
<1>7. Lowered(f, V, D, split) /\ Grows(made, split)
  <2>1. From(made, V, left, made.curr)
    BY DEF From
  <2>2. /\ IsGraph(made) /\ IsOpen(made) /\ Lowered(f, V, D, made)
        /\ t \in New(f, made) /\ fb \in New(f, made) /\ t # fb /\ t # made.curr /\ fb # made.curr
        /\ NoPhis(made.blocks[t]) /\ NoPhis(made.blocks[fb])
        /\ made.blocks[t].term = Open /\ made.blocks[fb].term = Open
    BY <1>1, <1>2, <1>4, <1>5, <1>6
  <2> QED BY ZenonT(60), <2>1, <2>2, LoweredBranches
<1>8. Ended(made, split, {t, fb})
  BY <1>1, <1>4, <1>6, BranchToBuilds
<1> HIDE DEF split
<1>9. /\ IsGraph(split) /\ DOMAIN split.blocks = DOMAIN made.blocks
      /\ split.blocks[t].term = Open
      /\ split.blocks[mb] = EmptyBlock
  <2>1. mb \notin {t, fb} \union {made.curr} /\ mb \in DOMAIN made.blocks
    BY <1>1, <1>4, <1>5
  <2>2. t \in DOMAIN made.blocks /\ t # made.curr
    BY <1>1, <1>4, <1>5
  <2> QED BY <1>6, <1>8, <2>1, <2>2 DEF Ended, SameShape
<1>10. New(f, split) = New(f, made) /\ t \in Region(f, split) /\ fb \in Region(f, split)
  BY <1>5, <1>9 DEF New, Region
<1>11. IsGraph(branched) /\ branched.curr = t /\ branched.blocks = split.blocks
  BY <1>1, <1>4, <1>9, AtBuilds
<1> HIDE DEF branched
<1>12. Lowered(f, V, D, branched) /\ Grows(split, branched)
  BY <1>7, <1>10, <1>11, LoweredElsewhere DEF IsGraph, HasEdges
<1>13. Grows(g, branched)
  BY <1>2, <1>7, <1>12, GrowsTwice
<1>14. CASE op = "&&"
  <2>1. s = [f |-> branched, trueBlock |-> t, decided |-> left]
    BY <1>14 DEF beginShortCircuit, branched, split, made, t, fb, mb, n
  <2>2. s.f = branched /\ s.decided = left
    BY <2>1
  <2> HIDE DEF s
  <2>3. From(s.f, V, s.decided, s.trueBlock)
    BY <2>2 DEF From
  <2> QED BY <1>12, <1>13, <2>2, <2>3 DEF s
<1>15. CASE op # "&&"
  <2>1. Emits(branched, decided.f)
    BY <1>11, visitDecidedEmits
  <2>2. /\ Lowered(f, V, D, decided.f) /\ Grows(branched, decided.f)
        /\ decided.f.curr = t /\ Result(f, V, decided.f, decided.last)
    BY <1>11, <1>12, DecidedLowered
  <2>3. s = [f |-> At(joined, fb), trueBlock |-> t, decided |-> decided.last]
    BY <1>15 DEF beginShortCircuit, joined, decided, branched, split, made, t, fb, mb, n
  <2>4. s.f = At(joined, fb) /\ s.trueBlock = t /\ s.decided = decided.last
    BY <2>3
  <2> HIDE DEF s, decided
  <2>5. /\ IsGraph(decided.f) /\ IsOpen(decided.f)
        /\ DOMAIN decided.f.blocks = DOMAIN split.blocks
        /\ decided.f.blocks[mb] = EmptyBlock
    BY <1>1, <1>4, <1>9, <1>11, <2>1 DEF Emits, OnlyCurrChanged, IsOpen
  <2>6. mb \in New(f, decided.f) /\ mb # decided.f.curr /\ NoPhis(decided.f.blocks[mb])
        /\ decided.f.blocks[mb].term = Open
    BY <1>4, <1>5, <1>9, <2>2, <2>5, EmptyHasNoPhis, EmptyBlockIs DEF New
  <2>7. Lowered(f, V, D, joined) /\ Grows(decided.f, joined)
    BY <2>2, <2>5, <2>6, LoweredJumps
  <2>8. Ended(decided.f, joined, {mb})
    <3>1. mb \in DOMAIN decided.f.blocks
      BY <2>6 DEF New
    <3> QED BY <2>5, <2>6, <3>1, JumpToBuilds
  <2> HIDE DEF joined
  <2>9. IsGraph(joined) /\ fb \in DOMAIN joined.blocks /\ fb \in Region(f, joined)
    <3>1. IsGraph(joined) /\ DOMAIN joined.blocks = DOMAIN split.blocks
      BY <2>5, <2>8 DEF Ended, SameShape
    <3> QED BY <1>1, <1>4, <1>9, <1>10, <3>1 DEF Region, New
  <2>10. /\ IsGraph(s.f) /\ s.f.curr = fb /\ s.f.blocks = joined.blocks
    BY <2>4, <2>9, AtBuilds
  <2>11. Lowered(f, V, D, s.f) /\ Grows(joined, s.f)
    BY <2>7, <2>9, <2>10, LoweredElsewhere DEF IsGraph, HasEdges
  <2>12. Grows(decided.f, s.f) /\ Grows(g, s.f)
    BY <1>13, <2>2, <2>7, <2>11, GrowsTwice
  <2>13. From(s.f, V, s.decided, s.trueBlock)
    <3>1. From(decided.f, V, decided.last, t)
      BY <2>2, ResultComes
    <3>2. t \in DOMAIN decided.f.blocks
      BY <1>1, <1>4, <1>9, <2>5
    <3> QED BY <2>4, <2>12, <3>1, <3>2, FromGrows
  <2> QED BY <2>11, <2>12, <2>13 DEF s
<1> QED BY <1>14, <1>15

\* A short circuit with its right operand.
LEMMA EndLowered ==
  ASSUME NEW f, IsGraph(f), NEW V, NEW D, NEW g, Lowered(f, V, D, g),
         NEW op \in ShortCircuitOps, NEW s, Begun(g, s, op),
         NEW right, Extends(s.f, right.f), Lowered(f, V, D, right.f), right.last \in Operand,
         From(right.f, V, right.last, right.f.curr), From(right.f, V, s.decided, s.trueBlock),
         NEW where \in Seq(Nat)
  PROVE  LET v == endShortCircuit(s, right, op, where)
         IN  /\ Lowered(f, V, D, v.f) /\ Grows(right.f, v.f)
             /\ Result(f, V, v.f, v.last)
<1> DEFINE n == Len(g.blocks)
           t == s.trueBlock
           fb == t + 1
           mb == t + 2
           r == right.f
           joined == JumpTo(r, mb)
           atFalse == At(joined, fb)
           decided == visitDecided(atFalse, op, s.decided, where)
           again == JumpTo(decided.f, mb)
           merged == At(IF op = "&&" THEN again ELSE joined, mb)
           v == endShortCircuit(s, right, op, where)
<1>1. /\ n \in Nat /\ DOMAIN g.blocks = 1 .. n /\ IsGraph(s.f)
      /\ t = n + 1 /\ s.decided \in Operand
      /\ DOMAIN s.f.blocks = 1 .. n + 3
      /\ s.f.blocks[n + 3].term = Open /\ s.f.blocks[n + 3].code = << >>
      /\ op = "&&" => /\ s.f.curr = n + 1
                      /\ s.f.blocks[n + 2].term = Open /\ s.f.blocks[n + 2].code = << >>
      /\ op # "&&" => s.f.curr = n + 2
  BY DEF Begun
<1> HIDE DEF n
<1>2. /\ fb = n + 2 /\ mb = n + 3
      /\ t \in 1 .. n + 3 /\ fb \in 1 .. n + 3 /\ mb \in 1 .. n + 3
      /\ t \notin 1 .. n /\ fb \notin 1 .. n /\ mb \notin 1 .. n
      /\ t # fb /\ mb # t /\ mb # fb /\ s.f.curr # mb
  BY <1>1
<1>3. DOMAIN f.blocks \subseteq 1 .. n
  BY <1>1 DEF Lowered
<1> HIDE DEF t, fb, mb
<1>4. /\ IsGraph(r) /\ IsOpen(r)
      /\ DOMAIN s.f.blocks \subseteq DOMAIN r.blocks
      /\ OnlyCurrChanged(s.f, r)
      /\ r.curr = s.f.curr \/ r.curr \notin DOMAIN s.f.blocks
  BY DEF Extends
<1>5. /\ t \in New(f, r) /\ fb \in New(f, r) /\ mb \in New(f, r)
      /\ r.curr \in Region(f, r) /\ r.curr \in Nat /\ t \in Nat /\ fb \in Nat
  <2>1. t \in New(f, r) /\ fb \in New(f, r) /\ mb \in New(f, r)
    BY <1>1, <1>2, <1>3, <1>4 DEF New
  <2>2. r \in Function /\ r.curr \in Region(f, r)
    BY DEF Lowered
  <2>3. r.curr \in Nat
    BY <2>2 DEF Function
  <2>4. t \in Nat /\ fb \in Nat
    BY <1>1, <1>2
  <2> QED BY <2>1, <2>2, <2>3, <2>4
<1>6. /\ mb # r.curr
      /\ r.blocks[mb] = s.f.blocks[mb]
      /\ r.blocks[mb].term = Open /\ r.blocks[mb].code = << >>
  BY <1>1, <1>2, <1>4 DEF OnlyCurrChanged
<1>7. NoPhis(r.blocks[mb])
  BY <1>6, EmptyHasNoPhis
<1>8. Lowered(f, V, D, joined) /\ Grows(r, joined)
  BY <1>4, <1>5, <1>6, <1>7, LoweredJumps
<1>9. Ended(r, joined, {mb}) /\ joined.blocks[mb].preds = Append(r.blocks[mb].preds, r.curr)
  <2>1. mb \in DOMAIN r.blocks
    BY <1>5 DEF New
  <2> QED BY <1>4, <1>7, <2>1, JumpToBuilds
<1> HIDE DEF joined
<1>10. /\ IsGraph(joined) /\ DOMAIN joined.blocks = DOMAIN r.blocks
       /\ joined.blocks[mb].code = << >>
       /\ op = "&&" => joined.blocks[fb] = s.f.blocks[fb]
  <2>1. IsGraph(joined) /\ DOMAIN joined.blocks = DOMAIN r.blocks
    BY <1>9 DEF Ended, SameShape
  <2>2. mb \in DOMAIN r.blocks /\ fb \in DOMAIN r.blocks
    BY <1>5 DEF New
  <2>3. joined.blocks[mb].code = << >>
    BY <1>6, <1>9, <2>2 DEF Ended
  <2>4. ASSUME op = "&&"
        PROVE  joined.blocks[fb] = s.f.blocks[fb]
    <3>1. fb # s.f.curr /\ fb # r.curr
      BY <1>1, <1>2, <1>4, <2>4
    <3>2. r.blocks[fb] = s.f.blocks[fb]
      BY <1>1, <1>2, <1>4, <3>1 DEF OnlyCurrChanged
    <3> QED BY <1>2, <1>9, <2>2, <3>1, <3>2 DEF Ended
  <2> QED BY <2>1, <2>3, <2>4
<1>11. New(f, joined) = New(f, r) /\ Region(f, joined) = Region(f, r)
  BY <1>10 DEF New, Region
<1>12. CASE op = "&&"
  <2>1. IsGraph(atFalse) /\ atFalse.curr = fb /\ atFalse.blocks = joined.blocks
    BY <1>5, <1>10, AtBuilds DEF New
  <2> HIDE DEF atFalse
  <2>2. Lowered(f, V, D, atFalse) /\ Grows(joined, atFalse)
    BY <1>5, <1>8, <1>11, <2>1, LoweredElsewhere DEF IsGraph, HasEdges, Region
  <2>3. Emits(atFalse, decided.f) /\ decided.last \in Operand
    BY <1>1, <2>1, visitDecidedEmits
  <2>4. /\ Lowered(f, V, D, decided.f) /\ Grows(atFalse, decided.f)
        /\ decided.f.curr = fb /\ Result(f, V, decided.f, decided.last)
    <3>1. op # "??"
      BY <1>12
    <3> QED BY <1>1, <2>1, <2>2, <3>1, DecidedLowered
  <2> HIDE DEF decided
  <2>5. /\ IsGraph(decided.f) /\ IsOpen(decided.f)
        /\ DOMAIN decided.f.blocks = DOMAIN r.blocks
        /\ decided.f.blocks[mb] = joined.blocks[mb]
    <3>1. IsGraph(decided.f) /\ DOMAIN decided.f.blocks = DOMAIN r.blocks
      BY <1>10, <2>1, <2>3 DEF Emits
    <3>2. mb \in DOMAIN r.blocks /\ fb \in DOMAIN r.blocks
      BY <1>5 DEF New
    <3>3. decided.f.blocks[mb] = joined.blocks[mb]
      BY <1>2, <1>10, <2>1, <2>3, <3>2 DEF Emits, OnlyCurrChanged
    <3>4. decided.f.blocks[fb].term = joined.blocks[fb].term
      BY <2>1, <2>3 DEF Emits
    <3> QED BY <1>1, <1>2, <1>10, <1>12, <2>4, <3>1, <3>3, <3>4 DEF IsOpen
  <2>6. decided.f.blocks[mb].preds # << >> /\ NoPhis(decided.f.blocks[mb])
    <3>1. joined.blocks[mb].preds # << >>
      <4>1. r.blocks[mb].preds \in Seq(Nat)
        <5>1. r.blocks \in Seq(Block) /\ mb \in DOMAIN r.blocks
          BY <1>4, <1>5 DEF IsGraph, HasEdges, Function, New
        <5>2. r.blocks[mb] \in Block
          BY <5>1, ElementOfSeq
        <5> QED BY <5>2 DEF Block
      <4>2. Holds(joined.blocks[mb].preds, r.curr)
        <5>1. \A preds \in Seq(Nat), b \in Nat : Holds(Append(preds, b), b)
          BY AppendHolds
        <5> QED BY <1>5, <1>9, <4>1, <5>1
      <4> QED BY <4>2, EmptyHolds
    <3> QED BY <1>10, <2>5, <3>1, EmptyHasNoPhis
  <2>7. mb \in New(f, decided.f) /\ mb # decided.f.curr
    BY <1>2, <1>5, <2>4, <2>5 DEF New
  <2>8. Lowered(f, V, D, again) /\ Grows(decided.f, again)
    BY <2>4, <2>5, <2>6, <2>7, LoweredJumps
  <2>9. Ended(decided.f, again, {mb})
    <3>1. mb \in DOMAIN decided.f.blocks
      BY <2>7 DEF New
    <3> QED BY <2>5, <2>6, <3>1, JumpToBuilds
  <2> HIDE DEF again
  <2>10. IsGraph(again) /\ DOMAIN again.blocks = DOMAIN r.blocks
    BY <2>5, <2>9 DEF Ended, SameShape
  <2>11. merged = At(again, mb)
    BY <1>12
  <2>12. IsGraph(merged) /\ merged.curr = mb /\ merged.blocks = again.blocks
    BY <1>5, <2>10, <2>11, AtBuilds DEF New
  <2>13. Lowered(f, V, D, merged) /\ Grows(again, merged)
    <3>1. mb \in Region(f, again)
      BY <1>5, <2>10 DEF Region, New
    <3> QED BY <2>8, <2>12, <3>1, LoweredElsewhere DEF IsGraph, HasEdges
  <2>14. v = Evaluated(emit(makeValue(merged), Instr("phi", merged.nextId, <<right.last, decided.last>>,
                                                    <<r.curr, fb>>, None, where)), Value(merged.nextId))
    BY <1>12 DEF endShortCircuit, merged, again, decided, atFalse, joined, mb, fb, t
  <2> HIDE DEF merged, v
  <2>15. Grows(decided.f, merged) /\ Grows(r, merged)
    BY <1>8, <2>2, <2>4, <2>8, <2>13, GrowsTwice
  <2>16. r.curr \in Region(f, merged) /\ fb \in Region(f, merged)
    BY <1>5, <2>10, <2>12 DEF Region, New
  <2>17. From(merged, V, right.last, r.curr)
    BY <1>4, <2>15, FromGrows DEF IsGraph, HasEdges
  <2>18. From(merged, V, decided.last, fb)
    <3>1. From(decided.f, V, decided.last, fb)
      BY <2>4, ResultComes
    <3> QED BY <1>5, <2>5, <2>15, <3>1, FromGrows DEF New
  <2> DEFINE h == emit(makeValue(merged), Instr("phi", merged.nextId, <<right.last, decided.last>>,
                                                <<r.curr, fb>>, None, where))
  <2>19. Lowered(f, V, D, h) /\ Grows(merged, h) /\ Result(f, V, h, Value(merged.nextId))
    BY <1>5, <2>3, <2>13, <2>16, <2>17, <2>18, LoweredMerges
  <2>20. v.f = h /\ v.last = Value(merged.nextId)
    BY <2>14 DEF Evaluated
  <2> HIDE DEF h
  <2> QED BY <2>15, <2>19, <2>20, GrowsTwice DEF v
<1>13. CASE op # "&&"
  <2>1. merged = At(joined, mb)
    BY <1>13
  <2>2. IsGraph(merged) /\ merged.curr = mb /\ merged.blocks = joined.blocks
    BY <1>5, <1>10, <2>1, AtBuilds DEF New
  <2>3. Lowered(f, V, D, merged) /\ Grows(joined, merged)
    <3>1. mb \in Region(f, joined)
      BY <1>5, <1>11 DEF Region
    <3> QED BY <1>8, <2>2, <3>1, LoweredElsewhere DEF IsGraph, HasEdges
  <2>4. v = Evaluated(emit(makeValue(merged), Instr("phi", merged.nextId, <<s.decided, right.last>>,
                                                   <<t, r.curr>>, None, where)), Value(merged.nextId))
    BY <1>13 DEF endShortCircuit, merged, again, decided, atFalse, joined, mb, fb, t
  <2> HIDE DEF merged, v
  <2>5. Grows(r, merged)
    BY <1>8, <2>3, GrowsTwice
  <2>6. r.curr \in Region(f, merged) /\ t \in Region(f, merged)
    BY <1>5, <1>10, <2>2 DEF Region, New
  <2>7. From(merged, V, right.last, r.curr)
    BY <1>4, <2>5, FromGrows DEF IsGraph, HasEdges
  <2>8. From(merged, V, s.decided, t)
    <3>1. From(r, V, s.decided, t)
      BY DEF t
    <3> QED BY <1>5, <2>5, <3>1, FromGrows DEF New
  <2> DEFINE h == emit(makeValue(merged), Instr("phi", merged.nextId, <<s.decided, right.last>>,
                                                <<t, r.curr>>, None, where))
  <2>9. Lowered(f, V, D, h) /\ Grows(merged, h) /\ Result(f, V, h, Value(merged.nextId))
    BY <1>1, <1>5, <2>3, <2>6, <2>7, <2>8, LoweredMerges
  <2>10. v.f = h /\ v.last = Value(merged.nextId)
    BY <2>4 DEF Evaluated
  <2> HIDE DEF h
  <2> QED BY <2>5, <2>9, <2>10, GrowsTwice DEF v
<1> QED BY <1>12, <1>13

\* The expressions over some variables.
ReadOver(V) == [kind : {"variable"}, left : V]
ShortOver(V) == [kind : {"short"}, op : ShortCircuitOps, left : V, right : ReadOver(V)]
NestedOver(V) == [kind : {"nested"}, op : ShortCircuitOps, left : V, right : ShortOver(V)]
ExprOver(V) ==
  [kind : {"constant"}] \union ReadOver(V) \union [kind : {"operation", "increment"}, left : V]
    \union [kind : {"assignment"}, left : V, right : V] \union ShortOver(V) \union NestedOver(V)

LEMMA RefSays == \A x : IsRef(Ref(x)) /\ Ref(x).ref = x
BY DEF IsRef, Ref

LEMMA visitShortLowered ==
  ASSUME NEW f, IsGraph(f), NEW V \in SUBSET Vars, NEW D, NEW g, IsGraph(g), IsOpen(g), Lowered(f, V, D, g),
         NEW e \in ShortOver(V), NEW where \in Seq(Nat)
  PROVE  LET v == visitShort(g, e, where)
         IN  Lowered(f, V, D, v.f) /\ Grows(g, v.f) /\ Result(f, V, v.f, v.last)
<1> DEFINE s == beginShortCircuit(g, e.op, Ref(e.left), where)
           right == Evaluated(s.f, Ref(e.right.left))
<1>1. /\ e.op \in ShortCircuitOps /\ Ref(e.left) \in Operand /\ Ref(e.right.left) \in Operand
      /\ IsRef(Ref(e.left)) /\ Ref(e.left).ref \in V
      /\ IsRef(Ref(e.right.left)) /\ Ref(e.right.left).ref \in V
  BY RefIsOperand, RefSays DEF ShortOver, ReadOver
<1>2. Begun(g, s, e.op)
  BY <1>1, beginShortCircuitBegins
<1>3. Lowered(f, V, D, s.f) /\ Grows(g, s.f) /\ From(s.f, V, s.decided, s.trueBlock)
  BY <1>1, BeginLowered
<1>4. right.f = s.f /\ right.last = Ref(e.right.left)
  BY DEF Evaluated
<1> HIDE DEF s
<1>5. Emits(s.f, s.f) /\ IsOpen(s.f)
  BY <1>2 DEF Begun, Emits, OnlyCurrChanged
<1>6. Extends(s.f, right.f) /\ right.last \in Operand
  BY <1>1, <1>4, <1>5, EmitsExtends
<1>7. From(right.f, V, right.last, right.f.curr) /\ From(right.f, V, s.decided, s.trueBlock)
  BY <1>1, <1>3, <1>4 DEF From
<1>8. Lowered(f, V, D, right.f)
  BY <1>3, <1>4
<1> HIDE DEF right
<1>9. LET v == endShortCircuit(s, right, e.op, where)
      IN  Lowered(f, V, D, v.f) /\ Grows(right.f, v.f) /\ Result(f, V, v.f, v.last)
  BY <1>1, <1>2, <1>6, <1>7, <1>8, EndLowered
<1> QED BY <1>3, <1>4, <1>9, GrowsTwice DEF visitShort, s, right

LEMMA ShortOverIsShort ==
  ASSUME NEW V \in SUBSET Vars
  PROVE  ShortOver(V) \subseteq ShortExpr /\ ExprOver(V) \subseteq Expr
BY DEF ShortOver, ReadOver, NestedOver, ExprOver, ShortExpr, ReadExpr, NestedExpr, Expr

LEMMA visitNestedLowered ==
  ASSUME NEW f, IsGraph(f), NEW V \in SUBSET Vars, NEW D, NEW g, IsGraph(g), IsOpen(g), Lowered(f, V, D, g),
         NEW e \in NestedOver(V), NEW t \in Nat
  PROVE  LET v == visitNested(g, e, <<t, 1>>)
         IN  Lowered(f, V, D, v.f) /\ Grows(g, v.f) /\ Result(f, V, v.f, v.last)
<1> DEFINE where == <<t, 1>>
           s == beginShortCircuit(g, e.op, Ref(e.left), where)
           right == visitShort(s.f, e.right, <<t, 3>>)
<1>1. /\ e.op \in ShortCircuitOps /\ Ref(e.left) \in Operand /\ e.right \in ShortOver(V)
      /\ IsRef(Ref(e.left)) /\ Ref(e.left).ref \in V
  BY RefIsOperand, RefSays DEF NestedOver
<1>2. where \in Seq(Nat) /\ <<t, 3>> \in Seq(Nat) /\ where[1] = t
  OBVIOUS
<1> HIDE DEF where
<1>3. Begun(g, s, e.op)
  BY <1>1, <1>2, beginShortCircuitBegins
<1>4. Lowered(f, V, D, s.f) /\ Grows(g, s.f) /\ From(s.f, V, s.decided, s.trueBlock)
  BY <1>1, <1>2, BeginLowered
<1> HIDE DEF s
<1>5. IsGraph(s.f) /\ IsOpen(s.f)
  BY <1>3 DEF Begun
<1>6. Extends(s.f, right.f) /\ right.last \in Operand
  BY <1>1, <1>2, <1>5, visitShortExtends, ShortOverIsShort
<1>7. Lowered(f, V, D, right.f) /\ Grows(s.f, right.f) /\ Result(f, V, right.f, right.last)
  BY <1>1, <1>2, <1>4, <1>5, visitShortLowered
<1>8. visitNested(g, e, where) = endShortCircuit(s, right, e.op, where)
  BY <1>2 DEF visitNested, s, right
<1> HIDE DEF right
<1>9. From(right.f, V, right.last, right.f.curr) /\ From(right.f, V, s.decided, s.trueBlock)
  <2>1. s.trueBlock \in DOMAIN s.f.blocks
    BY <1>3 DEF Begun, IsGraph, HasEdges, Function
  <2> QED BY <1>4, <1>7, <2>1, ResultComes, FromGrows
<1>10. LET v == endShortCircuit(s, right, e.op, where)
       IN  Lowered(f, V, D, v.f) /\ Grows(right.f, v.f) /\ Result(f, V, v.f, v.last)
  BY <1>1, <1>2, <1>3, <1>6, <1>7, <1>9, EndLowered
<1>11. Grows(g, endShortCircuit(s, right, e.op, where).f)
  BY <1>4, <1>7, <1>10, GrowsTwice
<1> QED BY <1>8, <1>10, <1>11 DEF where

\* Any expression.
LEMMA lowerLowered ==
  ASSUME NEW f, IsGraph(f), NEW V \in SUBSET Vars, NEW D, V \subseteq D,
         NEW g, IsGraph(g), IsOpen(g), Lowered(f, V, D, g),
         NEW e \in ExprOver(V), NEW t \in Nat
  PROVE  LET v == lower(g, e, t)
         IN  Lowered(f, V, D, v.f) /\ Result(f, V, v.f, v.last)
<1> DEFINE v == lower(g, e, t)
<1>1. <<t, 1>> \in Seq(Nat) /\ << >> \in Seq(Operand) /\ DOMAIN << >> = {}
  BY EmptyHolds
<1>2. CASE e \in [kind : {"constant"}]
  <2>1. v = visitOperation(g, << >>, <<t, 1>>)
    BY <1>2 DEF lower
  <2> DEFINE none == << >>
  <2>2. none \in Seq(Operand) /\ \A j \in DOMAIN none : IsRef(none[j]) /\ none[j].ref \in V
    BY <1>1
  <2>3. v = visitOperation(g, none, <<t, 1>>)
    BY <2>1
  <2> HIDE DEF none, v
  <2>4. Lowered(f, V, D, v.f) /\ Result(f, V, v.f, v.last)
    BY <1>1, <2>2, <2>3, OperationLowered
  <2> QED BY <2>4 DEF v
<1>3. CASE e \in ReadOver(V)
  <2>1. v = Evaluated(g, Ref(e.left)) /\ e.left \in V
    BY <1>3 DEF lower, ReadOver
  <2> QED BY <2>1, RefSays DEF Evaluated, Result
<1>4. CASE e \in [kind : {"operation", "increment"}, left : V]
  <2> DEFINE u == visitOperation(g, <<Ref(e.left)>>, <<t, 1>>)
             args == <<Ref(e.left)>>
  <2>1. /\ e.left \in Vars /\ e.left \in V /\ e.left \in D
        /\ args \in Seq(Operand) /\ \A j \in DOMAIN args : IsRef(args[j]) /\ args[j].ref \in V
    BY <1>4, RefIsOperand, RefSays
  <2>2. Lowered(f, V, D, u.f) /\ u.last \in Operand /\ Result(f, V, u.f, u.last)
    <3> HIDE DEF args
    <3>1. LET w == visitOperation(g, args, <<t, 1>>)
          IN  Lowered(f, V, D, w.f) /\ w.last \in Operand /\ Result(f, V, w.f, w.last)
      BY <1>1, <2>1, OperationLowered
    <3> QED BY <3>1 DEF args
  <2>3. CASE e.kind = "operation"
    <3>1. v = u
      BY <2>3 DEF lower
    <3> QED BY <2>2, <3>1
  <2>4. CASE e.kind = "increment"
    <3>1. v = Evaluated(bindLocalDefinition(u.f, e.left, u.last), Ref(e.left))
      BY <2>4 DEF lower, visitPostIncrement
    <3>2. v.f = bindLocalDefinition(u.f, e.left, u.last) /\ v.last = Ref(e.left)
      BY <3>1 DEF Evaluated
    <3> HIDE DEF u, v
    <3>3. Lowered(f, V, D, v.f)
      BY <2>1, <2>2, <3>2, LoweredBinds
    <3>4. Result(f, V, v.f, v.last)
      BY <2>1, <3>2, RefSays DEF Result
    <3> QED BY <3>3, <3>4 DEF v
  <2> QED BY <1>4, <2>3, <2>4
<1>5. CASE e \in [kind : {"assignment"}, left : V, right : V]
  <2> DEFINE u == visitOperation(g, <<Ref(e.left)>>, <<t, 1>>)
             args == <<Ref(e.left)>>
  <2>1. /\ e.right \in Vars /\ e.right \in D
        /\ args \in Seq(Operand) /\ \A j \in DOMAIN args : IsRef(args[j]) /\ args[j].ref \in V
    BY <1>5, RefIsOperand, RefSays
  <2>2. Lowered(f, V, D, u.f) /\ u.last \in Operand /\ Result(f, V, u.f, u.last)
    <3> HIDE DEF args
    <3>1. LET w == visitOperation(g, args, <<t, 1>>)
          IN  Lowered(f, V, D, w.f) /\ w.last \in Operand /\ Result(f, V, w.f, w.last)
      BY <1>1, <2>1, OperationLowered
    <3> QED BY <3>1 DEF args
  <2>3. v = Evaluated(bindLocalDefinition(u.f, e.right, u.last), u.last)
    BY <1>5 DEF lower, visitAssignment
  <2>4. v.f = bindLocalDefinition(u.f, e.right, u.last) /\ v.last = u.last
    BY <2>3 DEF Evaluated
  <2> HIDE DEF u, v
  <2>5. Lowered(f, V, D, v.f) /\ Result(f, V, v.f, v.last)
    BY <2>1, <2>2, <2>4, LoweredBinds
  <2> QED BY <2>5 DEF v
<1>6. CASE e \in ShortOver(V)
  <2>1. v = visitShort(g, e, <<t, 1>>)
    BY <1>6 DEF lower, ShortOver
  <2> QED BY <1>1, <1>6, <2>1, visitShortLowered
<1>7. CASE e \in NestedOver(V)
  <2>1. v = visitNested(g, e, <<t, 1>>)
    BY <1>7 DEF lower, NestedOver
  <2> QED BY <1>7, <2>1, visitNestedLowered
<1> QED BY <1>2, <1>3, <1>4, <1>5, <1>6, <1>7 DEF ExprOver

-----------------------------------------------------------------------------
(* Scope.                                                                  *)
\* A variable defined before an instruction on every path to it.
Before(f, b, k, x) ==
  \/ \E j \in DOMAIN f.blocks[b].code : j < k /\ f.blocks[b].code[j].sym = x
  \/ \E d \in DOMAIN f.blocks \ {b} : Has(f, d, x) /\ Dominates(f, d, b)

\* An operand there is at the end of a block.
Comes(f, o, b) == IF IsRef(o) THEN Reaches(f, b, o.ref) ELSE Makes(f, b, o.value)

ScopedInstr(f, b, k) ==
  LET i == f.blocks[b].code[k]
  IN  IF IsPhi(i)
      THEN \A j \in DOMAIN i.args :
             j \in DOMAIN i.preds /\ i.preds[j] \in DOMAIN f.blocks /\ Comes(f, i.args[j], i.preds[j])
      ELSE /\ i.op = "bind" => 1 \in DOMAIN i.args
           /\ \A j \in DOMAIN i.args : IsRef(i.args[j]) /\ Before(f, b, k, i.args[j].ref)
Scoped(f, b) ==
  /\ \A k \in DOMAIN f.blocks[b].code : ScopedInstr(f, b, k)
  /\ \A i \in DOMAIN f.blocks[b].term.args : Comes(f, f.blocks[b].term.args[i], b)
  /\ \A x \in f.blocks[b].defs : Reaches(f, b, x)
WellScoped(f) == \A b \in DOMAIN f.blocks : Scoped(f, b)

\* What there was is there, and dominates what it dominated, but for T.
Keeps(f, g, T) ==
  /\ \A b \in DOMAIN f.blocks :
       /\ b \in DOMAIN g.blocks
       /\ \A k \in DOMAIN f.blocks[b].code :
            k \in DOMAIN g.blocks[b].code /\ g.blocks[b].code[k] = f.blocks[b].code[k]
  /\ \A d : \A b \in DOMAIN f.blocks \ T : Dominates(f, d, b) => Dominates(g, d, b)

LEMMA ReachesKept ==
  ASSUME NEW f, NEW g, NEW T, Keeps(f, g, T), NEW b \in DOMAIN f.blocks \ T
  PROVE  /\ \A x : Reaches(f, b, x) => Reaches(g, b, x)
         /\ \A o : Comes(f, o, b) => Comes(g, o, b)
         /\ \A k, x : Before(f, b, k, x) => Before(g, b, k, x)
<1>1. \A d \in DOMAIN f.blocks : \A x : Has(f, d, x) => Has(g, d, x) /\ d \in DOMAIN g.blocks
  BY DEF Keeps, Has
<1>2. \A x : Reaches(f, b, x) => Reaches(g, b, x)
  BY <1>1 DEF Keeps, Reaches
<1>3. \A v : Makes(f, b, v) => Makes(g, b, v)
  BY DEF Keeps, Makes
<1>4. \A k, x : Before(f, b, k, x) => Before(g, b, k, x)
  BY <1>1 DEF Keeps, Before
<1> QED BY <1>2, <1>3, <1>4 DEF Comes

LEMMA InstrKept ==
  ASSUME NEW f, NEW g, NEW T, Keeps(f, g, T), NEW b \in DOMAIN f.blocks \ T,
         NEW k \in DOMAIN f.blocks[b].code, ScopedInstr(f, b, k),
         IsPhi(f.blocks[b].code[k]) =>
           \A j \in DOMAIN f.blocks[b].code[k].preds : f.blocks[b].code[k].preds[j] \notin T
  PROVE  ScopedInstr(g, b, k)
<1> DEFINE i == f.blocks[b].code[k]
<1>1. k \in DOMAIN g.blocks[b].code /\ g.blocks[b].code[k] = i /\ DOMAIN f.blocks \subseteq DOMAIN g.blocks
  BY DEF Keeps
<1>2. CASE IsPhi(i)
  <2>1. ASSUME NEW j \in DOMAIN i.args
        PROVE  j \in DOMAIN i.preds /\ i.preds[j] \in DOMAIN g.blocks /\ Comes(g, i.args[j], i.preds[j])
    <3>1. j \in DOMAIN i.preds /\ i.preds[j] \in DOMAIN f.blocks \ T /\ Comes(f, i.args[j], i.preds[j])
      BY <1>2 DEF ScopedInstr
    <3> QED BY <1>1, <3>1, ReachesKept
  <2> QED BY <1>1, <1>2, <2>1 DEF ScopedInstr
<1>3. CASE ~IsPhi(i)
  <2>1. ASSUME NEW j \in DOMAIN i.args
        PROVE  IsRef(i.args[j]) /\ Before(g, b, k, i.args[j].ref)
    <3>1. IsRef(i.args[j]) /\ Before(f, b, k, i.args[j].ref)
      BY <1>3 DEF ScopedInstr
    <3> QED BY <3>1, ReachesKept
  <2> QED BY <1>1, <1>3, <2>1 DEF ScopedInstr
<1> QED BY <1>2, <1>3

\* Lowering keeps dominance, and what dominated the block it began in dominates
\* the region.
LEMMA LoweredDominance ==
  ASSUME NEW f, IsGraph(f), NEW V, NEW D, NEW g, IsGraph(g), Lowered(f, V, D, g)
  PROVE  /\ Keeps(f, g, {})
         /\ \A d : Dominates(f, d, f.curr) => \A b \in Region(f, g) : Dominates(g, d, b)
         /\ \A b \in New(f, g) : Dominates(g, f.curr, b)
<1>1. f.curr \in DOMAIN f.blocks /\ DOMAIN f.blocks \subseteq DOMAIN g.blocks
  BY DEF IsGraph, HasEdges, Lowered
<1>2. ASSUME NEW d, Dominates(f, d, f.curr)
      PROVE  LeastReached(g, d) \subseteq LeastReached(f, d)
  <2> DEFINE C == LeastReached(f, d)
  <2>1. LeadsOn(f, d, C) /\ f.curr \notin C /\ C \subseteq DOMAIN f.blocks
    BY <1>2, LeastReachedLeadsOn DEF Dominates, LeastReached
  <2>2. LeadsOn(g, d, C)
    BY <2>1 DEF LeadsOn, Lowered, OnlyCurrChanged
  <2> QED BY <1>1, <2>1, <2>2, LeastReachedIsLeast
<1>3. ASSUME NEW d
      PROVE  LeastReached(g, d) \subseteq LeastReached(f, d) \union New(f, g)
  <2> DEFINE C == LeastReached(f, d) \union New(f, g)
  <2>1. LeadsOn(f, d, LeastReached(f, d)) /\ LeastReached(f, d) \subseteq DOMAIN f.blocks
    BY LeastReachedLeadsOn DEF LeastReached
  <2>2. ASSUME NEW c \in C
        PROVE  ToSet(g.blocks[c].succs) \ {d} \subseteq C
    <3>1. CASE c \in Region(f, g)
      BY <3>1 DEF Lowered
    <3>2. CASE c \notin Region(f, g)
      <4>1. c \in LeastReached(f, d) /\ c # f.curr
        BY <3>2 DEF Region
      <4> QED BY <2>1, <4>1 DEF LeadsOn, Lowered, OnlyCurrChanged
    <3> QED BY <3>1, <3>2
  <2>3. LeadsOn(g, d, C)
    BY <2>1, <2>2 DEF LeadsOn
  <2>4. C \in SUBSET DOMAIN g.blocks
    BY <1>1, <2>1 DEF New
  <2> QED BY <2>3, <2>4, LeastReachedIsLeast
<1>4. Keeps(f, g, {})
  <2>1. ASSUME NEW b \in DOMAIN f.blocks, NEW k \in DOMAIN f.blocks[b].code
        PROVE  k \in DOMAIN g.blocks[b].code /\ g.blocks[b].code[k] = f.blocks[b].code[k]
    <3>1. CASE b = f.curr
      BY <2>1, <3>1 DEF Lowered
    <3>2. CASE b # f.curr
      BY <3>2 DEF Lowered, OnlyCurrChanged
    <3> QED BY <3>1, <3>2
  <2>2. \A d : \A b \in DOMAIN f.blocks : Dominates(f, d, b) => Dominates(g, d, b)
    BY <1>3 DEF Dominates, New
  <2> QED BY <1>1, <2>1, <2>2 DEF Keeps
<1>5. \A d : Dominates(f, d, f.curr) => \A b \in Region(f, g) : Dominates(g, d, b)
  <2> SUFFICES ASSUME NEW d, Dominates(f, d, f.curr), NEW b \in Region(f, g)
               PROVE  Dominates(g, d, b)
    OBVIOUS
  <2>1. b \notin LeastReached(f, d)
    BY DEF Region, New, Dominates, LeastReached
  <2> QED BY <1>2, <2>1 DEF Dominates
<1>6. Dominates(f, f.curr, f.curr)
  BY DominatesItself
<1> QED BY <1>4, <1>5, <1>6 DEF Region

\* Scope is kept in lowering, if the variables used reach the block it begins in.
LEMMA LoweredCarries ==
  ASSUME NEW f, IsGraph(f), NEW V, NEW D, NEW g, IsGraph(g), IsOpen(f), Lowered(f, V, D, g), WellScoped(f),
         \A x \in V : Reaches(f, f.curr, x),
         \A b \in Region(f, g) : \A x \in g.blocks[b].defs :
           x \in V \/ Has(g, b, x) \/ (b = f.curr /\ x \in f.blocks[b].defs)
  PROVE  /\ WellScoped(g)
         /\ \A x \in V : \A b \in Region(f, g) : Reaches(g, b, x)
<1>1. /\ Keeps(f, g, {})
      /\ \A d : Dominates(f, d, f.curr) => \A b \in Region(f, g) : Dominates(g, d, b)
  BY LoweredDominance
<1>2. f.curr \in DOMAIN f.blocks /\ DOMAIN f.blocks \subseteq DOMAIN g.blocks
      /\ Region(f, g) \subseteq DOMAIN g.blocks
  BY DEF IsGraph, HasEdges, Lowered, Region, New
<1>3. ASSUME NEW x \in V, NEW b \in Region(f, g)
      PROVE  Reaches(g, b, x)
  <2>1. PICK d \in DOMAIN f.blocks : Has(f, d, x) /\ Dominates(f, d, f.curr)
    BY DEF Reaches
  <2>2. Has(g, d, x) /\ d \in DOMAIN g.blocks
    BY <1>1, <2>1 DEF Keeps, Has
  <2> QED BY <1>1, <2>1, <2>2 DEF Reaches
<1>4. ASSUME NEW x \in V, NEW b \in Region(f, g), NEW k \in DOMAIN g.blocks[b].code, Added(f, b, k)
      PROVE  Before(g, b, k, x)
  <2>1. PICK d \in DOMAIN f.blocks : Has(f, d, x) /\ Dominates(f, d, f.curr)
    BY DEF Reaches
  <2>2. Has(g, d, x) /\ d \in DOMAIN g.blocks /\ Dominates(g, d, b)
    BY <1>1, <2>1 DEF Keeps, Has
  <2>3. CASE d # b
    BY <2>2, <2>3 DEF Before
  <2>4. CASE d = b
    <3>1. b = f.curr
      BY <2>4 DEF Region, New
    <3>2. PICK j \in DOMAIN f.blocks[b].code : f.blocks[b].code[j].sym = x
      BY <2>1, <2>4 DEF Has
    <3>3. k \notin DOMAIN f.blocks[b].code
      BY <1>4, <3>1 DEF Added
    <3>4. j \in DOMAIN g.blocks[b].code /\ g.blocks[b].code[j].sym = x
      BY <1>1, <1>2, <3>1, <3>2 DEF Keeps
    <3>5. f.blocks[b] \in Block /\ g.blocks[b] \in Block
      BY <1>2, <3>1, ElementOfSeq DEF IsGraph, HasEdges, Function
    <3>6. /\ DOMAIN f.blocks[b].code = 1 .. Len(f.blocks[b].code) /\ Len(f.blocks[b].code) \in Nat
          /\ DOMAIN g.blocks[b].code = 1 .. Len(g.blocks[b].code) /\ Len(g.blocks[b].code) \in Nat
      BY <3>5, LenProperties DEF Block
    <3>7. j < k
      BY <3>2, <3>3, <3>6
    <3> QED BY <3>4, <3>7 DEF Before
  <2> QED BY <2>3, <2>4
<1>5. ASSUME NEW b \in Region(f, g), NEW o, From(g, V, o, b)
      PROVE  Comes(g, o, b)
  BY <1>3, <1>5 DEF From, Comes
<1>6. ASSUME NEW b \in DOMAIN g.blocks, b \notin Region(f, g)
      PROVE  Scoped(g, b)
  <2>1. b \in DOMAIN f.blocks \ {} /\ g.blocks[b] = f.blocks[b] /\ Scoped(f, b)
    BY <1>6 DEF Region, New, Lowered, OnlyCurrChanged, WellScoped
  <2>2. \A k \in DOMAIN g.blocks[b].code : ScopedInstr(g, b, k)
    BY <1>1, <2>1, InstrKept DEF Scoped
  <2>3. \A i \in DOMAIN g.blocks[b].term.args : Comes(g, g.blocks[b].term.args[i], b)
    BY <1>1, <2>1, ReachesKept DEF Scoped
  <2>4. \A x \in g.blocks[b].defs : Reaches(g, b, x)
    BY <1>1, <2>1, ReachesKept DEF Scoped
  <2> QED BY <2>2, <2>3, <2>4 DEF Scoped
<1>7. ASSUME NEW b \in Region(f, g)
      PROVE  Scoped(g, b)
  <2>1. ASSUME NEW k \in DOMAIN g.blocks[b].code
        PROVE  ScopedInstr(g, b, k)
    <3>1. CASE Added(f, b, k)
      <4> DEFINE i == g.blocks[b].code[k]
      <4>1. Sound(f, V, g, i)
        BY <3>1 DEF Lowered
      <4>2. CASE IsPhi(i)
        <5>1. \A j \in DOMAIN i.args : /\ j \in DOMAIN i.preds /\ i.preds[j] \in Region(f, g)
                                       /\ From(g, V, i.args[j], i.preds[j])
          BY <4>1, <4>2 DEF Sound
        <5>2. \A j \in DOMAIN i.args : i.preds[j] \in DOMAIN g.blocks /\ Comes(g, i.args[j], i.preds[j])
          BY <1>2, <1>5, <5>1
        <5> QED BY <4>2, <5>1, <5>2 DEF ScopedInstr
      <4>3. CASE ~IsPhi(i)
        <5>1. /\ i.op = "bind" => 1 \in DOMAIN i.args
              /\ \A j \in DOMAIN i.args : IsRef(i.args[j]) /\ i.args[j].ref \in V
          BY <4>1, <4>3 DEF Sound
        <5> QED BY <1>4, <3>1, <4>3, <5>1 DEF ScopedInstr
      <4> QED BY <4>2, <4>3
    <3>2. CASE ~Added(f, b, k)
      <4>1. b = f.curr /\ k \in DOMAIN f.blocks[b].code /\ b \in DOMAIN f.blocks \ {}
        BY <1>2, <3>2 DEF Added
      <4>2. ScopedInstr(f, b, k)
        BY <4>1 DEF WellScoped, Scoped
      <4> QED BY <1>1, <4>1, <4>2, InstrKept
    <3> QED BY <3>1, <3>2
  <2>2. \A i \in DOMAIN g.blocks[b].term.args : Comes(g, g.blocks[b].term.args[i], b)
    BY <1>5 DEF Lowered
  <2>3. ASSUME NEW x \in g.blocks[b].defs
        PROVE  Reaches(g, b, x)
    <3>1. CASE x \in V
      BY <1>3, <3>1
    <3>2. CASE Has(g, b, x)
      BY <1>2, <3>2, DominatesItself DEF Reaches
    <3>3. CASE b = f.curr /\ x \in f.blocks[b].defs
      <4>1. Reaches(f, b, x) /\ b \in DOMAIN f.blocks \ {}
        BY <1>2, <3>3 DEF WellScoped, Scoped
      <4> QED BY <1>1, <4>1, ReachesKept
    <3> QED BY <3>1, <3>2, <3>3
  <2> QED BY <2>1, <2>2, <2>3 DEF Scoped
<1> QED BY <1>3, <1>6, <1>7 DEF WellScoped

\* A jump, and where it goes.
Jumped(f, g, t) ==
  /\ Ended(f, g, {t})
  /\ ToSet(g.blocks[f.curr].succs) = {t}
  /\ DOMAIN g.blocks[f.curr].term.args = {}
LEMMA JumpGoes ==
  ASSUME NEW f, IsGraph(f), IsOpen(f), NEW t \in DOMAIN f.blocks, NoPhis(f.blocks[t])
  PROVE  Jumped(f, JumpTo(f, t), t)
<1> DEFINE g == JumpTo(f, t)
<1>1. Ended(f, g, {t}) /\ g.blocks[f.curr].term = Jump(t)
  BY JumpToBuilds
<1> HIDE DEF g
<1>2. IsGraph(g) /\ f.curr \in DOMAIN g.blocks
  BY <1>1 DEF Ended, SameShape, IsGraph, HasEdges
<1>3. Jump(t).targets = <<t>> /\ Jump(t).args = << >>
  BY DEF Jump, Open
<1>4. g.blocks[f.curr].succs = <<t>> /\ g.blocks[f.curr].term.args = << >>
  BY <1>1, <1>2, <1>3 DEF IsGraph, SuccessorsAreTargets
<1>5. Jumped(f, g, t)
  BY <1>1, <1>4, ShortSequences, EmptyHolds DEF Jumped
<1> QED BY <1>5 DEF g

\* What a jump does to dominance: the dominators of the block that ends lose nothing;
\* any other loses at most a target that leads nowhere yet, and nothing if the target
\* dominates the block that ends.
LEMMA JumpDominance ==
  ASSUME NEW f, IsGraph(f), NEW t \in DOMAIN f.blocks, NEW g, Jumped(f, g, t)
  PROVE  /\ \A d : Dominates(f, d, f.curr) => \A b : Dominates(f, d, b) => Dominates(g, d, b)
         /\ f.blocks[t].succs = << >> => \A d, b : b # t /\ Dominates(f, d, b) => Dominates(g, d, b)
         /\ Dominates(f, t, f.curr) => \A d, b : Dominates(f, d, b) => Dominates(g, d, b)
<1>1. /\ DOMAIN g.blocks = DOMAIN f.blocks /\ ToSet(g.blocks[f.curr].succs) = {t}
      /\ \A c \in DOMAIN f.blocks : c # f.curr => g.blocks[c].succs = f.blocks[c].succs
  BY DEF Jumped, Ended, SameShape, IsGraph, SuccessorsAreTargets
<1>2. \A d : LeadsOn(f, d, LeastReached(f, d)) /\ LeastReached(f, d) \subseteq DOMAIN f.blocks
  BY LeastReachedLeadsOn DEF LeastReached
<1>3. ASSUME NEW d, Dominates(f, d, f.curr)
      PROVE  LeastReached(g, d) \subseteq LeastReached(f, d)
  <2>1. LeadsOn(g, d, LeastReached(f, d))
    BY <1>1, <1>2, <1>3 DEF LeadsOn, Dominates
  <2> QED BY <1>1, <1>2, <2>1, LeastReachedIsLeast
<1>4. ASSUME NEW d, f.blocks[t].succs = << >>
      PROVE  LeastReached(g, d) \subseteq LeastReached(f, d) \union {t}
  <2> DEFINE C == LeastReached(f, d) \union {t}
  <2>1. ToSet(f.blocks[t].succs) = {}
    BY <1>4, EmptyHolds DEF ToSet
  <2>2. ASSUME NEW c \in C
        PROVE  ToSet(g.blocks[c].succs) \ {d} \subseteq C
    BY <1>1, <1>2, <2>1 DEF LeadsOn
  <2>3. LeadsOn(g, d, C)
    BY <1>2, <2>2 DEF LeadsOn
  <2> QED BY <1>1, <1>2, <2>3, LeastReachedIsLeast
<1>5. ASSUME NEW d, Dominates(f, t, f.curr)
      PROVE  LeastReached(g, d) \subseteq LeastReached(f, d)
  <2>1. f.curr \in LeastReached(f, d) => t \in LeastReached(f, d)
    BY <1>5, DominatesThrough DEF Dominates
  <2>2. ASSUME NEW c \in LeastReached(f, d)
        PROVE  ToSet(g.blocks[c].succs) \ {d} \subseteq LeastReached(f, d)
    BY <1>1, <1>2, <2>1 DEF LeadsOn
  <2>3. LeadsOn(g, d, LeastReached(f, d))
    BY <1>2, <2>2 DEF LeadsOn
  <2> QED BY <1>1, <1>2, <2>3, LeastReachedIsLeast
<1> QED BY <1>3, <1>4, <1>5 DEF Dominates

\* The blocks still to fill are empty, but for the one being filled.
OpenAreEmpty(f) ==
  \A b \in DOMAIN f.blocks :
    b # f.curr /\ f.blocks[b].term = Open => f.blocks[b].code = << >> /\ f.blocks[b].defs = {}

\* Scope is kept by a jump to a block not filled yet or to a dominator.
LEMMA JumpCarries ==
  ASSUME NEW f, IsGraph(f), IsOpen(f), OpenAreEmpty(f), WellScoped(f), NEW t \in DOMAIN f.blocks, t # f.curr,
         f.blocks[t].term = Open \/ Dominates(f, t, f.curr),
         NEW g, Jumped(f, g, t)
  PROVE  WellScoped(g)
<1> DEFINE T == IF f.blocks[t].term = Open THEN {t} ELSE {}
<1>1. /\ DOMAIN g.blocks = DOMAIN f.blocks
      /\ \A b \in DOMAIN f.blocks :
           /\ g.blocks[b].code = f.blocks[b].code /\ g.blocks[b].defs = f.blocks[b].defs
           /\ b # f.curr => g.blocks[b].term = f.blocks[b].term
      /\ DOMAIN g.blocks[f.curr].term.args = {}
  BY DEF Jumped, Ended, SameShape
<1>2. f.blocks[t].term = Open => f.blocks[t].succs = << >>
  BY DEF IsGraph, SuccessorsAreTargets, Open
<1>3. \A d : \A b \in DOMAIN f.blocks \ T : Dominates(f, d, b) => Dominates(g, d, b)
  <2>1. CASE f.blocks[t].term = Open
    BY <1>2, <2>1, JumpDominance
  <2>2. CASE Dominates(f, t, f.curr)
    BY <2>2, JumpDominance
  <2> QED BY <2>1, <2>2
<1>4. Keeps(f, g, T)
  BY <1>1, <1>3 DEF Keeps
<1>5. \A c \in T : f.blocks[c].term = Open /\ c # f.curr /\ ToSet(f.blocks[c].succs) = {}
  BY <1>2, EmptyHolds DEF ToSet
<1>6. ASSUME NEW b \in DOMAIN f.blocks, NEW k \in DOMAIN f.blocks[b].code, IsPhi(f.blocks[b].code[k]),
             NEW j \in DOMAIN f.blocks[b].code[k].preds
      PROVE  f.blocks[b].code[k].preds[j] \notin T
  <2> DEFINE p == f.blocks[b].code[k].preds[j]
  <2>1. p \in ToSet(f.blocks[b].preds) /\ p \in DOMAIN f.blocks
    BY <1>6, GraphBlocks DEF IsGraph, HasEdges, PhisMatchPredecessors, ToSet
  <2>2. b \in ToSet(f.blocks[p].succs)
    BY <2>1, PredecessorsLead
  <2> QED BY <1>5, <2>2
<1> HIDE DEF T
<1> SUFFICES ASSUME NEW b \in DOMAIN f.blocks
             PROVE  Scoped(g, b)
  BY <1>1 DEF WellScoped
<1>7. Scoped(f, b)
  BY DEF WellScoped
<1>8. CASE b \in T
  <2>1. g.blocks[b].code = << >> /\ g.blocks[b].defs = {} /\ g.blocks[b].term = Open
    BY <1>1, <1>5, <1>8 DEF OpenAreEmpty
  <2>2. DOMAIN g.blocks[b].code = {} /\ DOMAIN g.blocks[b].term.args = {}
    BY <2>1, EmptyHolds DEF Open
  <2> QED BY <2>1, <2>2 DEF Scoped
<1>9. CASE b \notin T
  <2>1. \A k \in DOMAIN g.blocks[b].code : ScopedInstr(g, b, k)
    BY <1>1, <1>4, <1>6, <1>7, <1>9, InstrKept DEF Scoped
  <2>2. \A i \in DOMAIN g.blocks[b].term.args : Comes(g, g.blocks[b].term.args[i], b)
    BY <1>1, <1>4, <1>7, <1>9, ReachesKept DEF Scoped
  <2>3. \A x \in g.blocks[b].defs : Reaches(g, b, x)
    BY <1>1, <1>4, <1>7, <1>9, ReachesKept DEF Scoped
  <2> QED BY <2>1, <2>2, <2>3 DEF Scoped
<1> QED BY <1>8, <1>9

\* Blocks and edges are rooted after a jump.
LEMMA JumpRooted ==
  ASSUME NEW f, IsGraph(f), IsOpen(f), NEW t \in DOMAIN f.blocks, t # f.curr,
         f.blocks[t].term = Open \/ f.blocks[t].preds # << >>,
         NEW g, Jumped(f, g, t), Rooted(f)
  PROVE  Rooted(g)
<1>1. Ended(f, g, {t}) /\ ToSet(g.blocks[f.curr].succs) = {t}
  BY DEF Jumped
<1>2. f.blocks[f.curr].succs = << >>
  BY OpenHasNoSuccessors DEF IsOpen
<1>3. ToSet(f.blocks[f.curr].succs) = {}
  BY <1>2, EmptyHolds DEF ToSet
<1>4. \A c \in {t} : f.blocks[c].succs = << >> \/ f.blocks[c].preds # << >>
  BY DEF IsGraph, SuccessorsAreTargets, Open
<1> QED BY <1>1, <1>3, <1>4, EndedRooted

-----------------------------------------------------------------------------
(* The constructs that are open.  Each has a head, the block that was being *)
(* filled when an if was met, or the block of a loop's condition: it        *)
(* dominates the block being filled and the blocks the construct has left   *)
(* to fill, and what was in scope at the construct reaches it.              *)
Seen(tokens, n) == UNION {tokens[i].declares : i \in {i \in DOMAIN tokens : i <= n /\ tokens[i].visible}}

HasHead(f, c, head, tokens) ==
  /\ head \in DOMAIN f.blocks
  /\ f.blocks[head].term # Open
  /\ Dominates(f, head, f.curr)
  /\ \A b \in Unfilled(c) : /\ b \in DOMAIN f.blocks
                            /\ b # f.curr
                            /\ f.blocks[b].term = Open
                            /\ Dominates(f, head, b)
  /\ c.kind = "while" => head = c.cond /\ f.blocks[head].preds # << >>
  /\ c.kind = "then" => c.next # c.merge
  /\ c.token \in 1 .. Len(tokens)
  /\ \A x \in Seen(tokens, c.token) : Reaches(f, head, x)

\* Heads of constructs around each other.
Around(f, cs, heads) ==
  \A i, j \in DOMAIN cs :
    i < j => Dominates(f, heads[i], heads[j]) /\ Unfilled(cs[i]) \intersect Unfilled(cs[j]) = {}
Headed(f, cs, tokens) ==
  \E heads \in [DOMAIN cs -> DOMAIN f.blocks] :
    /\ \A i \in DOMAIN cs : HasHead(f, cs[i], heads[i], tokens)
    /\ Around(f, cs, heads)

InScope(f) ==
  /\ WellScoped(f)
  /\ Rooted(f)
  /\ OpenAreEmpty(f)
InBuild ==
  /\ InScope(fn)
  /\ \A x \in ToSet(dialect.params) : Has(fn, 1, x)
  /\ \A x \in Declared : Reaches(fn, fn.curr, x)
  /\ Headed(fn, open, prog)

\* What statements do to the blocks there are: what is closed stays so, what awaits
\* filling too, and dominators of the block being filled keep what they dominate.
Onward(f, g) ==
  /\ \A b \in DOMAIN f.blocks :
       /\ b \in DOMAIN g.blocks
       /\ \A x : Has(f, b, x) => Has(g, b, x)
       /\ f.blocks[b].term # Open =>
            /\ g.blocks[b].term # Open
            /\ f.blocks[b].preds # << >> => g.blocks[b].preds # << >>
       /\ b # f.curr /\ f.blocks[b].term = Open => g.blocks[b].term = Open
  /\ \A d : Dominates(f, d, f.curr) => \A b \in DOMAIN f.blocks : Dominates(f, d, b) => Dominates(g, d, b)

LEMMA HeadKept ==
  ASSUME NEW f, IsGraph(f), NEW g, Onward(f, g), NEW c, NEW head, NEW tokens, HasHead(f, c, head, tokens),
         NEW to, to \in Seq(Tokens), tokens \in Seq(Tokens), Len(tokens) <= Len(to),
         Seen(to, c.token) \subseteq Seen(tokens, c.token),
         Dominates(g, head, g.curr), g.curr \notin Unfilled(c)
  PROVE  HasHead(g, c, head, to)
<1>1. ASSUME NEW x \in Seen(to, c.token)
      PROVE  Reaches(g, head, x)
  <2>1. PICK d \in DOMAIN f.blocks : Has(f, d, x) /\ Dominates(f, d, head)
    BY DEF HasHead, Reaches
  <2>2. Dominates(f, d, f.curr) /\ head \in DOMAIN f.blocks
    BY <2>1, DominatesThrough DEF HasHead
  <2>3. Has(g, d, x) /\ Dominates(g, d, head) /\ d \in DOMAIN g.blocks
    BY <2>1, <2>2 DEF Onward
  <2> QED BY <2>3 DEF Reaches
<1>2. c.token \in 1 .. Len(to)
  BY LenProperties DEF HasHead
<1>3. \A b \in Unfilled(c) : b \in DOMAIN g.blocks /\ g.blocks[b].term = Open /\ Dominates(g, head, b)
  BY DEF HasHead, Onward
<1>4. head \in DOMAIN g.blocks /\ g.blocks[head].term # Open
  BY DEF HasHead, Onward
<1>5. c.kind = "while" => head = c.cond /\ g.blocks[head].preds # << >>
  BY DEF HasHead, Onward
<1> QED BY <1>1, <1>2, <1>3, <1>4, <1>5 DEF HasHead

\* The heads of all constructs.
LEMMA HeadsKept ==
  ASSUME NEW f, IsGraph(f), NEW g, Onward(f, g), NEW cs, NEW tokens, NEW heads \in [DOMAIN cs -> DOMAIN f.blocks],
         \A i \in DOMAIN cs : HasHead(f, cs[i], heads[i], tokens),
         Around(f, cs, heads),
         NEW to, to \in Seq(Tokens), tokens \in Seq(Tokens), Len(tokens) <= Len(to),
         \A i \in DOMAIN cs : /\ Seen(to, cs[i].token) \subseteq Seen(tokens, cs[i].token)
                              /\ Dominates(g, heads[i], g.curr)
                              /\ g.curr \notin Unfilled(cs[i])
  PROVE  /\ heads \in [DOMAIN cs -> DOMAIN g.blocks]
         /\ \A i \in DOMAIN cs : HasHead(g, cs[i], heads[i], to)
         /\ Around(g, cs, heads)
<1>1. \A i \in DOMAIN cs : HasHead(g, cs[i], heads[i], to)
  BY HeadKept
<1>2. DOMAIN f.blocks \subseteq DOMAIN g.blocks
  BY DEF Onward
<1>3. Around(g, cs, heads)
  <2>1. \A i \in DOMAIN cs : Dominates(f, heads[i], f.curr)
    BY DEF HasHead
  <2> QED BY <2>1 DEF Around, Onward
<1> QED BY <1>1, <1>2, <1>3

\* Lowering goes onward.
LEMMA LoweredOnward ==
  ASSUME NEW f, IsGraph(f), IsOpen(f), NEW V, NEW D, NEW g, IsGraph(g), Lowered(f, V, D, g)
  PROVE  /\ Onward(f, g)
         /\ \A d : Dominates(f, d, f.curr) => Dominates(g, d, g.curr)
         /\ g.curr = f.curr \/ g.curr \notin DOMAIN f.blocks
<1>1. /\ Keeps(f, g, {})
      /\ \A d : Dominates(f, d, f.curr) => \A b \in Region(f, g) : Dominates(g, d, b)
  BY LoweredDominance
<1>2. g.curr \in Region(f, g) /\ \A b \in DOMAIN f.blocks : b # f.curr => g.blocks[b] = f.blocks[b]
  BY DEF Lowered, OnlyCurrChanged
<1>3. \A b \in DOMAIN f.blocks : b \in DOMAIN g.blocks /\ \A x : Has(f, b, x) => Has(g, b, x)
  BY <1>1 DEF Keeps, Has
<1>4. Onward(f, g)
  BY <1>1, <1>2, <1>3 DEF Onward, Keeps, IsOpen
<1>5. g.curr = f.curr \/ g.curr \notin DOMAIN f.blocks
  BY <1>2 DEF Region, New
<1> QED BY <1>1, <1>2, <1>4, <1>5

\* A jump goes onward.
LEMMA JumpOnward ==
  ASSUME NEW f, IsGraph(f), IsOpen(f), NEW t \in DOMAIN f.blocks, NEW g, Jumped(f, g, t)
  PROVE  Onward(f, g) /\ g.curr = f.curr
<1>1. /\ DOMAIN g.blocks = DOMAIN f.blocks /\ IsGraph(g) /\ g.curr = f.curr /\ f.curr \in DOMAIN f.blocks
      /\ \A b \in DOMAIN f.blocks :
           /\ g.blocks[b].code = f.blocks[b].code
           /\ b # f.curr => g.blocks[b].term = f.blocks[b].term
           /\ b # t => g.blocks[b].preds = f.blocks[b].preds
      /\ g.blocks[f.curr].term # Open
  BY DEF Jumped, Ended, SameShape, IsGraph, HasEdges
<1>2. g.blocks[t].preds # << >>
  <2>1. f.curr \in ToSet(g.blocks[t].preds)
    BY <1>1, PredecessorsLead DEF Jumped
  <2> QED BY <2>1, EmptyHolds DEF ToSet
<1>3. \A b \in DOMAIN f.blocks : \A x : Has(f, b, x) => Has(g, b, x)
  BY <1>1 DEF Has
<1>4. \A d : Dominates(f, d, f.curr) => \A b : Dominates(f, d, b) => Dominates(g, d, b)
  BY JumpDominance
<1> QED BY <1>1, <1>2, <1>3, <1>4 DEF Onward

\* Another block to fill, the one being filled having ended.
LEMMA AnotherToFill ==
  ASSUME NEW f, NEW b, NEW h, h.blocks = f.blocks, h.curr = b, InScope(f), f.blocks[f.curr].term # Open
  PROVE  InScope(h) /\ \A g : Onward(g, f) => Onward(g, h)
<1>1. \A d, c, x : /\ Dominates(h, d, c) <=> Dominates(f, d, c)
                   /\ Has(h, c, x) <=> Has(f, c, x)
                   /\ Makes(h, c, x) <=> Makes(f, c, x)
  BY DEF Dominates, LeastReached, LeadsOn, Has, Makes
<1>2. Keeps(f, h, {})
  BY <1>1 DEF Keeps
<1>3. ASSUME NEW c \in DOMAIN f.blocks
      PROVE  Scoped(h, c)
  <2>1. Scoped(f, c) /\ c \in DOMAIN f.blocks \ {}
    BY DEF InScope, WellScoped
  <2>2. \A k \in DOMAIN f.blocks[c].code : ScopedInstr(h, c, k)
    BY <1>2, <2>1, InstrKept DEF Scoped
  <2> QED BY <1>2, <2>1, <2>2, ReachesKept DEF Scoped
<1>4. Rooted(h)
  BY SameEdgesRooted DEF InScope
<1>5. OpenAreEmpty(h)
  BY DEF InScope, OpenAreEmpty
<1>6. \A g : Onward(g, f) => Onward(g, h)
  BY <1>1 DEF Onward
<1> QED BY <1>3, <1>4, <1>5, <1>6 DEF InScope, WellScoped

\* What is seen of the tokens before one that is read.
LEMMA SeenAppended ==
  ASSUME NEW tokens \in Seq(Tokens), NEW t \in Tokens
  PROVE  /\ \A n \in 1 .. Len(tokens) : Seen(Append(tokens, t), n) \subseteq Seen(tokens, n)
         /\ Seen(Append(tokens, t), Len(tokens) + 1) \subseteq Seen(tokens, Len(tokens)) \union t.declares
<1> DEFINE to == Append(tokens, t)
           N == Len(tokens)
<1>1. /\ N \in Nat /\ DOMAIN tokens = 1 .. N /\ DOMAIN to = 1 .. N + 1
      /\ \A i \in 1 .. N : to[i] = tokens[i]
      /\ to[N + 1] = t
  BY AppendPlaces
<1> HIDE DEF to, N
<1>2. ASSUME NEW n \in 1 .. N
      PROVE  Seen(to, n) \subseteq Seen(tokens, n)
  <2>1. \A i \in DOMAIN to : i <= n => i \in 1 .. N
    BY <1>1
  <2> QED BY <1>1, <2>1 DEF Seen
<1>3. Seen(to, N + 1) \subseteq Seen(tokens, N) \union t.declares
  <2>1. \A i \in DOMAIN to : i = N + 1 \/ (i \in 1 .. N /\ i <= N)
    BY <1>1
  <2> QED BY <1>1, <2>1 DEF Seen
<1> QED BY <1>2, <1>3 DEF to, N

\* The end of a scope hides what was declared in it.
LEMMA SeenEnded ==
  ASSUME NEW tokens \in Seq(Tokens), NEW from \in 1 .. Len(tokens), NEW n \in Nat, NEW t \in Tokens, t.declares = {},
         NEW to,
         \/ to = [EndScope(tokens, from) EXCEPT ![from].end = n]
         \/ to = [EndScope(tokens, from) EXCEPT ![from].alt = n]
  PROVE  /\ Append(to, t) \in Seq(Tokens) /\ Len(Append(to, t)) = Len(tokens) + 1
         /\ \A m \in 1 .. Len(tokens) : Seen(Append(to, t), m) \subseteq Seen(tokens, m)
         /\ Seen(Append(to, t), Len(tokens) + 1) \subseteq Seen(tokens, from)
<1> DEFINE N == Len(tokens)
           hidden == EndScope(tokens, from)
<1>1. N \in Nat /\ DOMAIN tokens = 1 .. N /\ \A i \in 1 .. N : tokens[i] \in Tokens
  BY LenProperties, ElementOfSeq
<1>2. /\ DOMAIN hidden = 1 .. N
      /\ \A i \in 1 .. N : /\ hidden[i] = IF i > from THEN [tokens[i] EXCEPT !.visible = FALSE] ELSE tokens[i]
  BY <1>1 DEF EndScope
<1>3. ASSUME NEW i \in 1 .. N
      PROVE  /\ hidden[i] \in Tokens
             /\ hidden[i].declares = tokens[i].declares
             /\ i > from => ~hidden[i].visible
             /\ hidden[i].visible => tokens[i].visible
  <2> DEFINE h == [tokens[i] EXCEPT !.visible = FALSE]
  <2>1. tokens[i] \in Tokens
    BY <1>1
  <2>2. h \in Tokens /\ h.declares = tokens[i].declares /\ h.visible = FALSE
    BY <2>1 DEF Tokens
  <2> HIDE DEF h
  <2>3. i > from => hidden[i] = h
    BY <1>2 DEF h
  <2>4. ~(i > from) => hidden[i] = tokens[i]
    BY <1>2
  <2> QED BY <2>1, <2>2, <2>3, <2>4
<1>4. to \in Seq(Tokens)
  <2>1. /\ [EndScope(tokens, from) EXCEPT ![from].end = n] \in Seq(Tokens)
        /\ [EndScope(tokens, from) EXCEPT ![from].alt = n] \in Seq(Tokens)
    BY EndScopeTyped
  <2> QED BY <2>1
<1> HIDE DEF hidden
<1>5. /\ DOMAIN to = 1 .. N
      /\ \A i \in 1 .. N : to[i].declares = hidden[i].declares /\ to[i].visible = hidden[i].visible
  <2>1. CASE to = [hidden EXCEPT ![from] = [hidden[from] EXCEPT !.end = n]]
    <3>1. /\ [hidden[from] EXCEPT !.end = n].declares = hidden[from].declares
          /\ [hidden[from] EXCEPT !.end = n].visible = hidden[from].visible
      BY <1>1, <1>3 DEF Tokens
    <3> QED BY <1>2, <2>1, <3>1
  <2>2. CASE to = [hidden EXCEPT ![from] = [hidden[from] EXCEPT !.alt = n]]
    <3>1. /\ [hidden[from] EXCEPT !.alt = n].declares = hidden[from].declares
          /\ [hidden[from] EXCEPT !.alt = n].visible = hidden[from].visible
      BY <1>1, <1>3 DEF Tokens
    <3> QED BY <1>2, <2>2, <3>1
  <2> QED BY <2>1, <2>2 DEF hidden
<1>6. Len(to) = N
  <2>1. Len(to) \in Nat /\ 1 .. Len(to) = 1 .. N
    BY <1>4, <1>5, LenProperties
  <2> QED BY <1>1, <2>1
<1> DEFINE all == Append(to, t)
<1>7. /\ all \in Seq(Tokens) /\ Len(all) = N + 1 /\ DOMAIN all = 1 .. N + 1
      /\ \A i \in 1 .. N : all[i] = to[i]
      /\ all[N + 1] = t
  BY <1>4, <1>6, AppendHolds
<1> HIDE DEF all, N
<1>8. ASSUME NEW m \in 1 .. N
      PROVE  Seen(all, m) \subseteq Seen(tokens, m)
  <2>1. \A i \in DOMAIN all : i <= m => i \in 1 .. N
    BY <1>1, <1>7
  <2>2. \A i \in DOMAIN all : i <= m /\ all[i].visible =>
          i \in DOMAIN tokens /\ tokens[i].visible /\ all[i].declares = tokens[i].declares
    BY <1>1, <1>3, <1>5, <1>7, <2>1
  <2> QED BY <2>2 DEF Seen
<1>9. Seen(all, N + 1) \subseteq Seen(tokens, from)
  <2>1. \A i \in DOMAIN all : all[i].visible /\ i # N + 1 =>
          i \in DOMAIN tokens /\ i <= from /\ tokens[i].visible /\ all[i].declares = tokens[i].declares
    <3> SUFFICES ASSUME NEW i \in DOMAIN all, all[i].visible, i # N + 1
                 PROVE  i \in DOMAIN tokens /\ i <= from /\ tokens[i].visible
                          /\ all[i].declares = tokens[i].declares
      OBVIOUS
    <3>1. i \in 1 .. N
      BY <1>1, <1>7
    <3>2. ~(i > from)
      BY <1>3, <1>5, <1>7, <3>1
    <3>3. i <= from
      BY <1>1, <3>1, <3>2 DEF N
    <3> QED BY <1>1, <1>3, <1>5, <1>7, <3>1, <3>3
  <2>2. \A i \in DOMAIN all : i = N + 1 => all[i].declares = {}
    BY <1>7
  <2> QED BY <2>1, <2>2 DEF Seen
<1> QED BY <1>7, <1>8, <1>9 DEF all, N

LEMMA DeclaredSeen == BuilderTypes => Declared = ToSet(dialect.params) \union Seen(prog, Len(prog))
<1> SUFFICES ASSUME BuilderTypes
             PROVE  Declared = ToSet(dialect.params) \union Seen(prog, Len(prog))
  OBVIOUS
<1>1. \A i \in DOMAIN prog : i <= Len(prog)
  BY LenProperties DEF BuilderTypes
<1> QED BY <1>1 DEF Declared, Seen

-----------------------------------------------------------------------------
(* Every statement keeps what is in scope.                                 *)
LEMMA InBuildNext ==
  ASSUME InBuild, IsGraph(fn), IsGraph(fn'), Onward(fn, fn'), dialect' = dialect,
         prog' \in Seq(Tokens), InScope(fn'),
         \A x \in Seen(prog', Len(prog')) : Reaches(fn', fn'.curr, x),
         Headed(fn', open', prog')
  PROVE  InBuild'
<1>1. Declared' \subseteq ToSet(dialect.params) \union Seen(prog', Len(prog'))
  <2>1. \A i \in DOMAIN prog' : i <= Len(prog')
    BY LenProperties
  <2> QED BY <2>1 DEF Declared, Seen
<1>2. \A x \in ToSet(dialect.params) : Has(fn', 1, x) /\ Reaches(fn', fn'.curr, x)
  <2>1. 1 \in DOMAIN fn.blocks /\ 1 \in DOMAIN fn'.blocks
    BY GraphBlocks
  <2>2. \A x \in ToSet(dialect.params) : Has(fn', 1, x)
    BY <2>1 DEF InBuild, Onward
  <2> QED BY <2>1, <2>2, EntryDominates DEF Reaches
<1>3. \A x \in Declared' : Reaches(fn', fn'.curr, x)
  BY <1>1, <1>2
<1> QED BY <1>2, <1>3 DEF InBuild

\* A statement that opens or closes no construct.
LEMMA StatementScopes ==
  ASSUME Built, InBuild, IsGraph(fn'), UNCHANGED <<dialect, open>>, NEW t \in Tokens, prog' = Append(prog, t),
         Onward(fn, fn'), InScope(fn'),
         \A d : Dominates(fn, d, fn.curr) => Dominates(fn', d, fn'.curr),
         fn'.curr = fn.curr \/ fn'.curr \notin DOMAIN fn.blocks,
         \A x \in Declared \union t.declares : Reaches(fn', fn'.curr, x)
  PROVE  InBuild'
<1>1. prog \in Seq(Tokens) /\ IsGraph(fn) /\ Seen(prog, Len(prog)) \subseteq Declared /\ Len(prog) \in Nat
  BY DeclaredSeen, LenProperties DEF Built, BuilderTypes
<1>2. prog' \in Seq(Tokens) /\ Len(prog') = Len(prog) + 1
  BY <1>1, AppendHolds
<1>3. PICK heads \in [DOMAIN open -> DOMAIN fn.blocks] :
        /\ \A i \in DOMAIN open : HasHead(fn, open[i], heads[i], prog)
        /\ Around(fn, open, heads)
  BY DEF InBuild, Headed
<1>4. \A i \in DOMAIN open : /\ Seen(prog', open[i].token) \subseteq Seen(prog, open[i].token)
                             /\ Dominates(fn', heads[i], fn'.curr)
                             /\ fn'.curr \notin Unfilled(open[i])
  <2> TAKE i \in DOMAIN open
  <2>1. HasHead(fn, open[i], heads[i], prog)
    BY <1>3
  <2>2. Seen(prog', open[i].token) \subseteq Seen(prog, open[i].token)
    BY <1>1, <2>1, SeenAppended DEF HasHead
  <2> QED BY <2>1, <2>2 DEF HasHead
<1>5. /\ heads \in [DOMAIN open -> DOMAIN fn'.blocks]
      /\ \A i \in DOMAIN open : HasHead(fn', open[i], heads[i], prog')
      /\ Around(fn', open, heads)
  <2>1. Len(prog) <= Len(prog') /\ Around(fn, open, heads)
    BY <1>1, <1>2, <1>3
  <2>2. heads \in [DOMAIN open -> DOMAIN fn'.blocks]
    BY DEF Onward
  <2>3. \A i \in DOMAIN open : HasHead(fn', open[i], heads[i], prog')
    BY <1>1, <1>2, <1>3, <1>4, <2>1, HeadsKept
  <2>4. Around(fn', open, heads)
    BY <1>1, <1>2, <1>3, <1>4, <2>1, HeadsKept
  <2> QED BY <2>2, <2>3, <2>4
<1>6. Headed(fn', open', prog')
  BY <1>5 DEF Headed
<1>7. \A x \in Seen(prog', Len(prog')) : Reaches(fn', fn'.curr, x)
  BY <1>1, <1>2, SeenAppended
<1> QED BY <1>1, <1>2, <1>6, <1>7, InBuildNext

\* More may be defined.
LEMMA LoweredWidens ==
  ASSUME NEW f, NEW V, NEW D, NEW E, D \subseteq E, NEW g, Lowered(f, V, D, g)
  PROVE  Lowered(f, V, E, g)
BY DEF Lowered

LEMMA ExtendsEmpty ==
  ASSUME NEW f, NEW g, Extends(f, g), OpenAreEmpty(f)
  PROVE  OpenAreEmpty(g)
BY DEF Extends, OnlyCurrChanged, OpenAreEmpty

\* What is read in a statement is in scope.
LEMMA ExprsInScope ==
  ASSUME BuilderTypes, NEW kind \in Kinds, NEW e \in Exprs(kind)
  PROVE  e \in ExprOver(Declared) /\ e \in Expr
<1>1. PICK form \in dialect.forms[kind] : e \in OfForm(form)
  BY DEF Exprs
<1>2. form \in ExprKinds /\ dialect.ops \subseteq ShortCircuitOps
  BY DialectTyped
<1> DEFINE V == Declared
<1>3. Variable \subseteq ReadOver(V) /\ Short \subseteq ShortOver(V) /\ Nested \subseteq NestedOver(V)
  <2>1. Variable \subseteq ReadOver(V)
    BY DEF Variable, ReadOver
  <2>2. Short \subseteq ShortOver(V)
    BY <1>2, <2>1 DEF Short, ShortOver
  <2> QED BY <1>2, <2>1, <2>2 DEF Nested, NestedOver
<1> HIDE DEF V
<1>4. e \in ExprOver(V)
  <2>1. CASE form = "constant"
    BY <1>1, <2>1 DEF OfForm, ExprOver
  <2>2. CASE form = "variable"
    BY <1>1, <2>2 DEF OfForm, ExprOver, ReadOver, V
  <2>3. CASE form \in {"operation", "increment"}
    BY <1>1, <2>3 DEF OfForm, ExprOver, V
  <2>4. CASE form = "assignment"
    BY <1>1, <2>4 DEF OfForm, ExprOver, V
  <2>5. CASE form = "short"
    BY <1>1, <1>3, <2>5 DEF OfForm, ExprOver
  <2>6. CASE form = "nested"
    BY <1>1, <1>3, <2>6 DEF OfForm, ExprOver
  <2> QED BY <1>2, <2>1, <2>2, <2>3, <2>4, <2>5, <2>6 DEF ExprKinds
<1>5. e \in Expr
  BY ExprsTyped
<1> QED BY <1>4, <1>5 DEF V

\* The value of an expression.
LEMMA ExprScopes ==
  ASSUME Built, InBuild, Reachable, NEW e \in ExprOver(Declared), e \in Expr
  PROVE  LET v == lower(fn, e, Here)
         IN  /\ Extends(fn, v.f) /\ v.last \in Operand
             /\ Lowered(fn, Declared, Declared, v.f)
             /\ Result(fn, Declared, v.f, v.last)
             /\ InScope(v.f)
             /\ \A x \in Declared : Reaches(v.f, v.f.curr, x)
<1> DEFINE v == lower(fn, e, Here)
<1>1. IsOpen(fn) /\ Here \in Nat /\ IsGraph(fn) /\ Declared \in SUBSET Vars
  BY CurrIsBlock, DeclaredTyped DEF Built
<1>2. Extends(fn, v.f) /\ v.last \in Operand
  BY <1>1, lowerExtends
<1>3. Lowered(fn, Declared, Declared, v.f) /\ Result(fn, Declared, v.f, v.last)
  <2>1. Lowered(fn, Declared, Declared, fn)
    BY <1>1, LoweredAtFirst
  <2> QED BY <1>1, <2>1, lowerLowered
<1> HIDE DEF v
<1>4. IsGraph(v.f) /\ OpenAreEmpty(v.f)
  BY <1>2, ExtendsEmpty DEF Extends, InBuild, InScope
<1>5. \A b \in Region(fn, v.f) : \A x \in v.f.blocks[b].defs :
        x \in Declared \/ Has(v.f, b, x) \/ (b = fn.curr /\ x \in fn.blocks[b].defs)
  BY <1>3 DEF Lowered
<1>6. WellScoped(v.f) /\ \A x \in Declared : \A b \in Region(fn, v.f) : Reaches(v.f, b, x)
  BY <1>1, <1>3, <1>4, <1>5, LoweredCarries DEF InBuild, InScope
<1>7. Rooted(v.f) /\ v.f.curr \in Region(fn, v.f)
  BY <1>3 DEF Lowered, InBuild, InScope
<1> QED BY <1>2, <1>3, <1>4, <1>6, <1>7 DEF v, InScope

\* A value that is given a name.
LEMMA DefinitionScopes ==
  ASSUME Built, InBuild, Reachable, NEW e \in ExprOver(Declared), e \in Expr, NEW x \in Vars
  PROVE  LET v == lower(fn, e, Here)
             g == bindLocalDefinition(v.f, x, v.last)
         IN  /\ Onward(fn, g) /\ InScope(g)
             /\ \A d : Dominates(fn, d, fn.curr) => Dominates(g, d, g.curr)
             /\ g.curr = fn.curr \/ g.curr \notin DOMAIN fn.blocks
             /\ \A y \in Declared \union {x} : Reaches(g, g.curr, y)
<1> DEFINE v == lower(fn, e, Here)
           g == bindLocalDefinition(v.f, x, v.last)
           V == Declared
           D == Declared \union {x}
<1>1. /\ Extends(fn, v.f) /\ v.last \in Operand
      /\ Lowered(fn, V, V, v.f)
      /\ Result(fn, V, v.f, v.last)
  BY ExprScopes
<1> HIDE DEF v
<1>2. IsOpen(fn) /\ IsGraph(fn) /\ IsGraph(v.f) /\ fn.curr \in DOMAIN fn.blocks
  BY <1>1, CurrIsBlock DEF Built, Extends
<1>3. /\ Lowered(fn, V, D, g) /\ g.curr = v.f.curr
      /\ Has(g, g.curr, x)
      /\ g.blocks[g.curr].defs = v.f.blocks[v.f.curr].defs \union {x}
  <2>1. Lowered(fn, V, D, v.f)
    BY <1>1, LoweredWidens
  <2> HIDE DEF V
  <2> QED BY <1>1, <1>2, <2>1, LoweredBinds
<1>4. Emits(v.f, g)
  BY <1>1, <1>2, bindLocalDefinitionEmits
<1> HIDE DEF g
<1>5. Extends(fn, g)
  <2>1. Extends(v.f, g)
    BY <1>1, <1>4, EmitsExtends DEF Extends
  <2> QED BY <1>1, <1>2, <2>1, ExtendsTwice
<1>6. IsGraph(g) /\ OpenAreEmpty(g)
  BY <1>5, ExtendsEmpty DEF Extends, InBuild, InScope
<1>7. \A b \in Region(fn, g) : \A y \in g.blocks[b].defs :
        y \in V \/ Has(g, b, y) \/ (b = fn.curr /\ y \in fn.blocks[b].defs)
  <2> TAKE b \in Region(fn, g)
  <2>1. b \in Region(fn, v.f) /\ b \in DOMAIN v.f.blocks
    BY <1>1, <1>2, <1>4 DEF Region, New, Emits, Extends
  <2>2. \A y \in v.f.blocks[b].defs : y \in V \/ (b = fn.curr /\ y \in fn.blocks[b].defs)
    BY <1>1, <2>1 DEF Lowered
  <2>3. CASE b = g.curr
    BY <1>3, <2>2, <2>3
  <2>4. CASE b # g.curr
    <3>1. g.blocks[b] = v.f.blocks[b]
      BY <1>3, <1>4, <2>1, <2>4 DEF Emits, OnlyCurrChanged
    <3> QED BY <2>2, <3>1
  <2> QED BY <2>3, <2>4
<1>8. WellScoped(g) /\ \A y \in V : \A b \in Region(fn, g) : Reaches(g, b, y)
  <2>1. WellScoped(fn) /\ \A y \in V : Reaches(fn, fn.curr, y)
    BY DEF InBuild, InScope
  <2> HIDE DEF V, D
  <2> QED BY <1>2, <1>3, <1>6, <1>7, <2>1, LoweredCarries
<1>9. Rooted(g) /\ g.curr \in Region(fn, g) /\ g.curr \in DOMAIN g.blocks
  BY <1>3, <1>6 DEF Lowered, InBuild, InScope, IsGraph, HasEdges
<1>10. Reaches(g, g.curr, x)
  BY <1>3, <1>6, <1>9, DominatesItself DEF Reaches
<1>11. /\ Onward(fn, g)
       /\ \A d : Dominates(fn, d, fn.curr) => Dominates(g, d, g.curr)
       /\ g.curr = fn.curr \/ g.curr \notin DOMAIN fn.blocks
  <2> HIDE DEF V, D
  <2> QED BY <1>2, <1>3, <1>6, LoweredOnward
<1> QED BY <1>6, <1>8, <1>9, <1>10, <1>11 DEF g, v, InScope

\* Whatever is lowered from what is in scope.
LEMMA LoweredScopes ==
  ASSUME Built, InBuild, Reachable, NEW g, IsGraph(g), OpenAreEmpty(g), Lowered(fn, Declared, Declared, g)
  PROVE  /\ Onward(fn, g) /\ InScope(g)
         /\ \A d : Dominates(fn, d, fn.curr) => Dominates(g, d, g.curr)
         /\ g.curr = fn.curr \/ g.curr \notin DOMAIN fn.blocks
         /\ \A b \in Region(fn, g) : \A x \in Declared : Reaches(g, b, x)
         /\ g.curr \in Region(fn, g)
<1>1. IsOpen(fn) /\ IsGraph(fn)
  BY CurrIsBlock DEF Built
<1>2. \A b \in Region(fn, g) : \A x \in g.blocks[b].defs :
        x \in Declared \/ Has(g, b, x) \/ (b = fn.curr /\ x \in fn.blocks[b].defs)
  BY DEF Lowered
<1>3. WellScoped(g) /\ \A x \in Declared : \A b \in Region(fn, g) : Reaches(g, b, x)
  BY <1>1, <1>2, LoweredCarries DEF InBuild, InScope
<1>4. Rooted(g) /\ g.curr \in Region(fn, g)
  BY DEF Lowered, InBuild, InScope
<1>5. /\ Onward(fn, g)
      /\ \A d : Dominates(fn, d, fn.curr) => Dominates(g, d, g.curr)
      /\ g.curr = fn.curr \/ g.curr \notin DOMAIN fn.blocks
  BY <1>1, LoweredOnward
<1> QED BY <1>3, <1>4, <1>5 DEF InScope

LEMMA EndedEmpty ==
  ASSUME NEW f, NEW g, NEW T, Ended(f, g, T), OpenAreEmpty(f)
  PROVE  OpenAreEmpty(g)
BY DEF Ended, SameShape, OpenAreEmpty

\* A return ends a block without an edge.
LEMMA ReturnEnds ==
  ASSUME NEW f, IsGraph(f), IsOpen(f), NEW args \in Seq(Operand), NEW t \in Nat
  PROVE  LET g == SetTerm(f, Return(args, <<t, 2>>))
         IN  Ended(f, g, {}) /\ ToSet(g.blocks[f.curr].succs) = {} /\ g.blocks[f.curr].term.args = args
<1> DEFINE term == Return(args, <<t, 2>>)
           g == SetTerm(f, term)
<1>1. /\ f.curr \in DOMAIN f.blocks /\ f.blocks[f.curr].succs = << >>
      /\ f \in Function
  BY OpenHasNoSuccessors DEF IsGraph, HasEdges
<1>2. term \in Terminator /\ term.targets = << >> /\ term # Open /\ term.args = args
  BY ReturnTyped DEF Return
<1> HIDE DEF term
<1>3. TermSet(f, g, term)
  BY <1>2, SetTermSets DEF IsGraph
<1> HIDE DEF g
<1>4. DOMAIN g.blocks = DOMAIN f.blocks
  BY <1>3 DEF TermSet, SameShape
<1>5. IsGraph(g)
  BY <1>1, <1>2, <1>3, <1>4 DEF TermSet, IsGraph, SuccessorsAreTargets
<1>6. Ended(f, g, {})
  BY <1>1, <1>2, <1>3, <1>4, <1>5 DEF TermSet, Ended
<1>7. g.blocks[f.curr].succs = << >>
  BY <1>1, <1>3 DEF TermSet
<1>8. ToSet(g.blocks[f.curr].succs) = {}
  BY <1>7, EmptyHolds DEF ToSet
<1> QED BY <1>1, <1>2, <1>3, <1>6, <1>8 DEF g, term, TermSet

LEMMA OnwardItself == \A f : (\A b \in DOMAIN f.blocks : TRUE) => Onward(f, f)
BY DEF Onward

LEMMA SkipDeadStatementScopes ==
  ASSUME Built, Built', InBuild, SkipDeadStatement
  PROVE  InBuild'
<1>1. /\ fn' = fn /\ UNCHANGED <<dialect, open>> /\ prog' = Append(prog, Token("dead"))
      /\ Token("dead") \in Tokens /\ Token("dead").declares = {}
  BY TokenTyped DEF SkipDeadStatement, TokenKinds, Token
<1>2. Onward(fn, fn') /\ InScope(fn')
  BY <1>1, OnwardItself DEF InBuild
<1>3. \A x \in Declared \union Token("dead").declares : Reaches(fn', fn'.curr, x)
  BY <1>1 DEF InBuild
<1>4. IsGraph(fn')
  BY DEF Built
<1> QED BY <1>1, <1>2, <1>3, <1>4, StatementScopes

LEMMA LetScopes ==
  ASSUME Built, Built', InBuild, NEW e \in Exprs("let"), Let(e)
  PROVE  InBuild'
<1> DEFINE x == CHOOSE x \in Unused : TRUE
           v == lower(fn, e, Here)
           t == [Token("assign") EXCEPT !.x = x, !.e = e, !.declares = {x}]
<1>1. e \in Expr /\ e \in ExprOver(Declared)
  BY ExprsInScope DEF Built, Kinds
<1>2. x \in Vars
  BY DialectTyped DEF Let, Unused, Built
<1>3. /\ Reachable
      /\ fn' = bindLocalDefinition(v.f, x, v.last)
      /\ prog' = Append(prog, t)
      /\ UNCHANGED <<dialect, open>>
  BY DEF Let
<1> HIDE DEF x
<1>4. /\ Onward(fn, fn') /\ InScope(fn')
      /\ \A d : Dominates(fn, d, fn.curr) => Dominates(fn', d, fn'.curr)
      /\ fn'.curr = fn.curr \/ fn'.curr \notin DOMAIN fn.blocks
      /\ \A y \in Declared \union {x} : Reaches(fn', fn'.curr, y)
  BY <1>1, <1>2, <1>3, DefinitionScopes
<1>5. t \in Tokens /\ t.declares = {x}
  <2>1. t \in Tokens
    BY <1>1, <1>2, TokenTyped DEF Tokens, TokenKinds
  <2> QED BY <2>1 DEF Token
<1> HIDE DEF t
<1>6. IsGraph(fn')
  BY DEF Built
<1> QED BY <1>3, <1>4, <1>5, <1>6, StatementScopes

LEMMA AssignScopes ==
  ASSUME Built, Built', InBuild, NEW x \in Vars, NEW e \in Exprs("assign"), Assign(x, e)
  PROVE  InBuild'
<1> DEFINE v == lower(fn, e, Here)
           t == [Token("assign") EXCEPT !.x = x, !.e = e]
<1>1. e \in Expr /\ e \in ExprOver(Declared)
  BY ExprsInScope DEF Built, Kinds
<1>2. /\ Reachable
      /\ fn' = bindLocalDefinition(v.f, x, v.last)
      /\ prog' = Append(prog, t)
      /\ UNCHANGED <<dialect, open>>
  BY DEF Assign
<1>3. /\ Onward(fn, fn') /\ InScope(fn')
      /\ \A d : Dominates(fn, d, fn.curr) => Dominates(fn', d, fn'.curr)
      /\ fn'.curr = fn.curr \/ fn'.curr \notin DOMAIN fn.blocks
      /\ \A y \in Declared \union {x} : Reaches(fn', fn'.curr, y)
  BY <1>1, <1>2, DefinitionScopes
<1>4. t \in Tokens /\ t.declares = {}
  <2>1. t \in Tokens
    BY <1>1, TokenTyped DEF Tokens, TokenKinds
  <2> QED BY <2>1 DEF Token
<1> HIDE DEF t
<1>5. IsGraph(fn')
  BY DEF Built
<1> QED BY <1>2, <1>3, <1>4, <1>5, StatementScopes

LEMMA ExpressionScopes ==
  ASSUME Built, Built', InBuild, NEW e \in Exprs("expression"), Expression(e)
  PROVE  InBuild'
<1> DEFINE v == lower(fn, e, Here)
           t == [Token("expression") EXCEPT !.e = e]
<1>1. e \in Expr /\ e \in ExprOver(Declared)
  BY ExprsInScope DEF Built, Kinds
<1>2. /\ Reachable
      /\ fn' = v.f
      /\ prog' = Append(prog, t)
      /\ UNCHANGED <<dialect, open>>
  BY DEF Expression
<1>3. Lowered(fn, Declared, Declared, v.f) /\ InScope(v.f)
  BY <1>1, <1>2, ExprScopes
<1> HIDE DEF v
<1>4. IsGraph(fn') /\ OpenAreEmpty(fn')
  BY <1>2, <1>3 DEF Built, InScope
<1>5. /\ Onward(fn, fn') /\ InScope(fn')
      /\ \A d : Dominates(fn, d, fn.curr) => Dominates(fn', d, fn'.curr)
      /\ fn'.curr = fn.curr \/ fn'.curr \notin DOMAIN fn.blocks
      /\ \A b \in Region(fn, fn') : \A x \in Declared : Reaches(fn', b, x)
      /\ fn'.curr \in Region(fn, fn')
  BY <1>2, <1>3, <1>4, LoweredScopes
<1>6. t \in Tokens /\ t.declares = {}
  <2>1. t \in Tokens
    BY <1>1, TokenTyped DEF Tokens, TokenKinds
  <2> QED BY <2>1 DEF Token
<1> HIDE DEF t
<1> QED BY <1>2, <1>4, <1>5, <1>6, StatementScopes

LEMMA ReturnValueScopes ==
  ASSUME Built, Built', InBuild, NEW e \in Exprs("return"), ReturnValue(e)
  PROVE  InBuild'
<1> DEFINE v == lower(fn, e, Here)
           t == [Token("return") EXCEPT !.e = e]
<1>1. e \in Expr /\ e \in ExprOver(Declared)
  BY ExprsInScope DEF Built, Kinds
<1>2. /\ Reachable
      /\ fn' = SetTerm(v.f, Return(<<v.last>>, <<Here, 2>>))
      /\ prog' = Append(prog, t)
      /\ UNCHANGED <<dialect, open>>
  BY DEF ReturnValue
<1>3. /\ Extends(fn, v.f) /\ v.last \in Operand
      /\ Lowered(fn, Declared, Declared, v.f) /\ InScope(v.f)
      /\ Result(fn, Declared, v.f, v.last)
  BY <1>1, <1>2, ExprScopes
<1> HIDE DEF v
<1>4. IsGraph(v.f) /\ IsOpen(v.f) /\ Here \in Nat /\ <<v.last>> \in Seq(Operand) /\ IsGraph(fn)
  BY <1>3, CurrIsBlock DEF Extends, Built
<1>5. Ended(v.f, fn', {}) /\ ToSet(fn'.blocks[v.f.curr].succs) = {}
      /\ fn'.blocks[v.f.curr].term.args = <<v.last>>
  BY <1>2, <1>4, ReturnEnds
<1>6. Lowered(fn, Declared, Declared, fn')
  <2>1. From(v.f, Declared, v.last, v.f.curr)
    BY <1>3, ResultComes
  <2>2. DOMAIN <<v.last>> = {1} /\ <<v.last>>[1] = v.last
    BY ShortSequences
  <2>3. \A i \in DOMAIN fn'.blocks[v.f.curr].term.args :
          From(v.f, Declared, fn'.blocks[v.f.curr].term.args[i], v.f.curr)
    BY <1>5, <2>1, <2>2
  <2> QED BY <1>3, <1>4, <1>5, <2>3, LoweredEnds
<1>7. IsGraph(fn') /\ OpenAreEmpty(fn')
  BY <1>3, <1>5, EndedEmpty DEF Built, InScope
<1>8. /\ Onward(fn, fn') /\ InScope(fn')
      /\ \A d : Dominates(fn, d, fn.curr) => Dominates(fn', d, fn'.curr)
      /\ fn'.curr = fn.curr \/ fn'.curr \notin DOMAIN fn.blocks
      /\ \A b \in Region(fn, fn') : \A x \in Declared : Reaches(fn', b, x)
      /\ fn'.curr \in Region(fn, fn')
  BY <1>2, <1>6, <1>7, LoweredScopes
<1>9. t \in Tokens /\ t.declares = {}
  <2>1. t \in Tokens
    BY <1>1, TokenTyped DEF Tokens, TokenKinds
  <2> QED BY <2>1 DEF Token
<1> HIDE DEF t
<1> QED BY <1>2, <1>7, <1>8, <1>9, StatementScopes
\* The block being filled goes on with a block of a construct around it, if it does
\* not end otherwise.
LEMMA TargetScopes ==
  ASSUME Built, InBuild, NEW i \in DOMAIN open, NEW head, HasHead(fn, open[i], head, prog),
         NEW to \in Target(open[i])
  PROVE  LET g == FellThrough(fn, to)
         IN  /\ Onward(fn, g) /\ InScope(g) /\ IsGraph(g)
             /\ g.curr = fn.curr
             /\ g.blocks[g.curr].term # Open
             /\ \A d : Dominates(fn, d, fn.curr) => Dominates(g, d, fn.curr)
<1> DEFINE g == FellThrough(fn, to)
<1>1. /\ IsGraph(fn) /\ fn.curr \in DOMAIN fn.blocks
      /\ to \in DOMAIN fn.blocks /\ NoPhis(fn.blocks[to])
  BY CurrIsBlock DEF Built, TargetsAwait
<1>2. CASE hasTerminator(fn)
  <2>1. g = fn /\ fn.blocks[fn.curr].term # Open
    BY <1>2 DEF FellThrough, hasTerminator
  <2>2. Onward(fn, fn)
    BY OnwardItself
  <2> QED BY <1>1, <2>1, <2>2 DEF InBuild
<1>3. CASE ~hasTerminator(fn)
  <2>1. IsOpen(fn) /\ g = JumpTo(fn, to)
    BY <1>3 DEF FellThrough, hasTerminator, IsOpen
  <2> HIDE DEF g
  <2>2. /\ to # fn.curr
        /\ fn.blocks[to].term = Open \/ (Dominates(fn, to, fn.curr) /\ fn.blocks[to].preds # << >>)
    <3>1. CASE to = open[i].merge
      BY <3>1 DEF HasHead, Unfilled
    <3>2. CASE to # open[i].merge
      <4>1. open[i].kind = "while" /\ to = open[i].cond
        BY <3>2 DEF Target
      <4> QED BY <2>1, <4>1 DEF HasHead, IsOpen
    <3> QED BY <3>1, <3>2
  <2>3. Jumped(fn, g, to)
    BY <1>1, <2>1, JumpGoes
  <2>4. Onward(fn, g) /\ g.curr = fn.curr
    BY <1>1, <2>1, <2>3, JumpOnward
  <2>5. WellScoped(g)
    BY <1>1, <2>1, <2>2, <2>3, JumpCarries DEF InBuild, InScope
  <2>6. Rooted(g)
    BY <1>1, <2>1, <2>2, <2>3, JumpRooted DEF InBuild, InScope
  <2>7. OpenAreEmpty(g) /\ IsGraph(g) /\ g.blocks[fn.curr].term # Open
    BY <2>3, EndedEmpty DEF InBuild, InScope, Jumped, Ended
  <2>8. \A d : Dominates(fn, d, fn.curr) => Dominates(g, d, fn.curr)
    BY <1>1, <2>4 DEF Onward
  <2> QED BY <2>4, <2>5, <2>6, <2>7, <2>8 DEF g, InScope
<1> QED BY <1>2, <1>3

\* What reaches the block being filled goes on reaching it.
LEMMA OnwardReaches ==
  ASSUME NEW f, NEW g, Onward(f, g), NEW x, Reaches(f, f.curr, x),
         \A d : Dominates(f, d, f.curr) => Dominates(g, d, g.curr)
  PROVE  Reaches(g, g.curr, x)
BY DEF Reaches, Onward

LEMMA LeavingScopes ==
  ASSUME Built, Built', InBuild, Reachable, loopStack # {}, NEW to \in {innermostLoop.merge, innermostLoop.cond},
         fn' = JumpTo(fn, to), NEW t \in Tokens, t.declares = {}, prog' = Append(prog, t), UNCHANGED <<dialect, open>>
  PROVE  InBuild'
<1>1. PICK i \in DOMAIN open : innermostLoop = open[i] /\ open[i].kind = "while"
  BY InnermostLoopIsOpen DEF Built
<1>2. PICK heads \in [DOMAIN open -> DOMAIN fn.blocks] : \A j \in DOMAIN open : HasHead(fn, open[j], heads[j], prog)
  BY DEF InBuild, Headed
<1>3. to \in Target(open[i]) /\ HasHead(fn, open[i], heads[i], prog)
  BY <1>1, <1>2 DEF Target
<1>4. FellThrough(fn, to) = fn'
  BY DEF FellThrough, Reachable
<1>5. /\ Onward(fn, fn') /\ InScope(fn') /\ IsGraph(fn')
      /\ fn'.curr = fn.curr
      /\ \A d : Dominates(fn, d, fn.curr) => Dominates(fn', d, fn.curr)
  <2>1. LET g == FellThrough(fn, to)
        IN  /\ Onward(fn, g) /\ InScope(g) /\ IsGraph(g)
            /\ g.curr = fn.curr
            /\ \A d : Dominates(fn, d, fn.curr) => Dominates(g, d, fn.curr)
    BY <1>3, TargetScopes
  <2> QED BY <1>4, <2>1
<1>6. \A d : Dominates(fn, d, fn.curr) => Dominates(fn', d, fn'.curr)
  BY <1>5
<1>7. \A x \in Declared \union t.declares : Reaches(fn', fn'.curr, x)
  BY <1>5, <1>6, OnwardReaches DEF InBuild
<1> QED BY <1>5, <1>6, <1>7, StatementScopes

LEMMA BreakScopes ==
  ASSUME Built, Built', InBuild, Break
  PROVE  InBuild'
<1> DEFINE t == [Token("break") EXCEPT !.up = innermostLoop.token]
<1>1. /\ Reachable /\ loopStack # {} /\ fn' = JumpTo(fn, innermostLoop.merge)
      /\ prog' = Append(prog, t) /\ UNCHANGED <<dialect, open>>
  BY DEF Break
<1>2. innermostLoop.token \in Nat
  BY <1>1, LeavingAdvances
<1>3. t \in Tokens /\ t.declares = {}
  <2>1. t \in Tokens
    BY <1>2, TokenTyped DEF Tokens, TokenKinds
  <2> QED BY <2>1 DEF Token
<1> HIDE DEF t
<1> QED BY <1>1, <1>3, LeavingScopes

LEMMA ContinueScopes ==
  ASSUME Built, Built', InBuild, Continue
  PROVE  InBuild'
<1> DEFINE t == [Token("continue") EXCEPT !.up = innermostLoop.token]
<1>1. /\ Reachable /\ loopStack # {} /\ fn' = JumpTo(fn, innermostLoop.cond)
      /\ prog' = Append(prog, t) /\ UNCHANGED <<dialect, open>>
  BY DEF Continue
<1>2. innermostLoop.token \in Nat
  BY <1>1, LeavingAdvances
<1>3. t \in Tokens /\ t.declares = {}
  <2>1. t \in Tokens
    BY <1>2, TokenTyped DEF Tokens, TokenKinds
  <2> QED BY <2>1 DEF Token
<1> HIDE DEF t
<1> QED BY <1>1, <1>3, LeavingScopes

\* The innermost construct goes on with another of its blocks, or ends with the last.
LEMMA GoingOnScopes ==
  ASSUME Built, Built', InBuild, open # << >>,
         NEW to \in Target(Innermost), NEW next \in Unfilled(Innermost), fn' = At(FellThrough(fn, to), next),
         dialect' = dialect, NEW t \in Tokens, t.declares = {},
         \/ prog' = Append([EndScope(prog, Innermost.token) EXCEPT ![Innermost.token].end = Here], t)
         \/ prog' = Append([EndScope(prog, Innermost.token) EXCEPT ![Innermost.token].alt = Here], t),
         DOMAIN open' \subseteq DOMAIN open,
         \A i \in DOMAIN open' : \/ i # Len(open) /\ open'[i] = open[i]
                                 \/ /\ i = Len(open)
                                    /\ Innermost.kind = "then" /\ next = Innermost.next
                                    /\ open'[i] = [Innermost EXCEPT !.kind = "last"]
  PROVE  InBuild'
<1> DEFINE N == Len(open)
           g == FellThrough(fn, to)
<1>1. /\ N \in DOMAIN open /\ Innermost = open[N] /\ Innermost \in Construct
      /\ \A i \in DOMAIN open : i = N \/ i < N
  <2>1. N \in Nat \ {0} /\ DOMAIN open = 1 .. N /\ Last(open) = open[N] /\ Last(open) \in Construct
    BY FrontIsPrefix DEF Built, BuilderTypes
  <2> HIDE DEF N
  <2>2. N \in DOMAIN open /\ \A i \in DOMAIN open : i = N \/ i < N
    BY <2>1
  <2> QED BY <2>1, <2>2 DEF Innermost
<1> HIDE DEF N
<1>2. PICK heads \in [DOMAIN open -> DOMAIN fn.blocks] :
        /\ \A i \in DOMAIN open : HasHead(fn, open[i], heads[i], prog)
        /\ Around(fn, open, heads)
  BY DEF InBuild, Headed
<1>3. HasHead(fn, Innermost, heads[N], prog) /\ heads[N] \in DOMAIN fn.blocks
  BY <1>1, <1>2
<1>4. /\ Onward(fn, g) /\ InScope(g) /\ IsGraph(g)
      /\ g.blocks[g.curr].term # Open
  BY <1>1, <1>3, TargetScopes
<1>5. fn'.blocks = g.blocks /\ fn'.curr = next
  <2>1. g \in Function
    BY <1>4 DEF IsGraph, HasEdges
  <2> HIDE DEF g
  <2> QED BY <2>1 DEF g, At, Function
<1> HIDE DEF g
<1>6. InScope(fn') /\ Onward(fn, fn') /\ IsGraph(fn) /\ IsGraph(fn')
  BY <1>4, <1>5, AnotherToFill DEF Built
<1>7. ASSUME NEW d, Dominates(fn, d, heads[N])
      PROVE  Dominates(fn', d, next)
  <2>1. Dominates(fn, heads[N], fn.curr) /\ Dominates(fn, heads[N], next) /\ next \in DOMAIN fn.blocks
    BY <1>3 DEF HasHead
  <2>2. Dominates(fn, d, fn.curr) /\ Dominates(fn, d, next)
    BY <1>6, <1>7, <2>1, DominatesThrough
  <2> QED BY <1>6, <2>1, <2>2 DEF Onward
<1>8. /\ prog' \in Seq(Tokens) /\ Len(prog) \in Nat /\ Len(prog') = Len(prog) + 1
      /\ \A m \in 1 .. Len(prog) : Seen(prog', m) \subseteq Seen(prog, m)
      /\ Seen(prog', Len(prog')) \subseteq Seen(prog, Innermost.token)
  <2>1. prog \in Seq(Tokens) /\ Innermost.token \in 1 .. Len(prog) /\ Here \in Nat /\ Len(prog) \in Nat
    BY <1>3, CurrIsBlock, LenProperties DEF HasHead, Built, BuilderTypes
  <2> DEFINE ends == [EndScope(prog, Innermost.token) EXCEPT ![Innermost.token].end = Here]
             alts == [EndScope(prog, Innermost.token) EXCEPT ![Innermost.token].alt = Here]
             was == IF prog' = Append(ends, t) THEN ends ELSE alts
  <2>2. prog' = Append(was, t) /\ (was = ends \/ was = alts)
    OBVIOUS
  <2> HIDE DEF was
  <2>3. /\ Append(was, t) \in Seq(Tokens) /\ Len(Append(was, t)) = Len(prog) + 1
        /\ \A m \in 1 .. Len(prog) : Seen(Append(was, t), m) \subseteq Seen(prog, m)
        /\ Seen(Append(was, t), Len(prog) + 1) \subseteq Seen(prog, Innermost.token)
    BY <2>1, <2>2, SeenEnded
  <2> QED BY <2>1, <2>2, <2>3
<1>9. \A x \in Seen(prog', Len(prog')) : Reaches(fn', fn'.curr, x)
  <2> SUFFICES ASSUME NEW x \in Seen(prog, Innermost.token)
               PROVE  Reaches(fn', next, x)
    BY <1>5, <1>8
  <2>1. PICK d \in DOMAIN fn.blocks : Has(fn, d, x) /\ Dominates(fn, d, heads[N])
    BY <1>3 DEF HasHead, Reaches
  <2>2. Has(fn', d, x) /\ d \in DOMAIN fn'.blocks
    BY <1>6, <2>1 DEF Onward
  <2> QED BY <1>7, <2>1, <2>2 DEF Reaches
<1>10. ASSUME NEW i \in DOMAIN open'
       PROVE  /\ HasHead(fn, open'[i], heads[i], prog)
              /\ Unfilled(open'[i]) \subseteq Unfilled(open[i])
              /\ fn'.curr \notin Unfilled(open'[i])
              /\ Dominates(fn', heads[i], fn'.curr)
              /\ Seen(prog', open'[i].token) \subseteq Seen(prog, open'[i].token)
  <2>1. i \in DOMAIN open /\ HasHead(fn, open[i], heads[i], prog)
    BY <1>2
  <2>2. Dominates(fn', heads[i], fn'.curr)
    <3>1. CASE i = N
      BY <1>3, <1>5, <1>6, <1>7, <3>1, DominatesItself
    <3>2. CASE i # N
      <4>1. i < N /\ N \in DOMAIN open
        BY <1>1, <2>1, <3>2
      <4> QED BY <1>2, <1>5, <1>7, <2>1, <4>1 DEF Around
    <3> QED BY <3>1, <3>2
  <2>3. HasHead(fn, open'[i], heads[i], prog) /\ Unfilled(open'[i]) \subseteq Unfilled(open[i])
          /\ fn'.curr \notin Unfilled(open'[i])
    <3>1. CASE i # N
      <4>1. open'[i] = open[i] /\ i < N /\ N \in DOMAIN open
        BY <1>1, <2>1, <3>1 DEF N
      <4>2. next \notin Unfilled(open[i])
        BY <1>1, <1>2, <2>1, <4>1 DEF Around
      <4> QED BY <1>5, <2>1, <4>1, <4>2
    <3>2. CASE i = N
      <4> DEFINE c == [Innermost EXCEPT !.kind = "last"]
      <4>1. open'[i] = c /\ Innermost.kind = "then" /\ next = Innermost.next /\ open[i] = Innermost
        BY <1>1, <3>2 DEF N
      <4>2. c.kind = "last" /\ c.merge = Innermost.merge /\ c.token = Innermost.token
        BY <1>1 DEF Construct
      <4> HIDE DEF c
      <4>3. Unfilled(c) = {Innermost.merge} /\ Unfilled(c) \subseteq Unfilled(Innermost)
        BY <4>2 DEF Unfilled
      <4>4. HasHead(fn, c, heads[i], prog) /\ next \notin Unfilled(c)
        BY <1>3, <3>2, <4>1, <4>2, <4>3 DEF HasHead
      <4> QED BY <1>5, <4>1, <4>3, <4>4
    <3> QED BY <3>1, <3>2
  <2>4. Seen(prog', open'[i].token) \subseteq Seen(prog, open'[i].token)
    BY <1>8, <2>3 DEF HasHead
  <2> QED BY <2>2, <2>3, <2>4
<1> DEFINE kept == [i \in DOMAIN open' |-> heads[i]]
<1>11. Headed(fn', open', prog')
  <2>1. kept \in [DOMAIN open' -> DOMAIN fn.blocks] /\ \A i \in DOMAIN open' : kept[i] = heads[i]
    BY <1>2
  <2> HIDE DEF kept
  <2>2. /\ \A i \in DOMAIN open' : HasHead(fn, open'[i], kept[i], prog)
        /\ \A i \in DOMAIN open' : /\ Seen(prog', open'[i].token) \subseteq Seen(prog, open'[i].token)
                                   /\ Dominates(fn', kept[i], fn'.curr)
                                   /\ fn'.curr \notin Unfilled(open'[i])
    BY <1>10, <2>1
  <2>3. Around(fn, open', kept)
    BY <1>2, <1>10, <2>1 DEF Around
  <2>4. prog \in Seq(Tokens) /\ Len(prog) <= Len(prog')
    BY <1>8 DEF Built, BuilderTypes
  <2>5. kept \in [DOMAIN open' -> DOMAIN fn'.blocks]
    BY <1>6, <2>1 DEF Onward
  <2>6. \A i \in DOMAIN open' : HasHead(fn', open'[i], kept[i], prog')
    BY <1>6, <1>8, <2>1, <2>2, <2>3, <2>4, HeadsKept
  <2>7. Around(fn', open', kept)
    <3>1. \A i \in DOMAIN open' : Dominates(fn, kept[i], fn.curr) /\ kept[i] \in DOMAIN fn.blocks
      BY <2>1, <2>2 DEF HasHead
    <3> QED BY <1>6, <2>3, <3>1 DEF Around, Onward
  <2> QED BY <2>5, <2>6, <2>7 DEF Headed
<1> QED BY <1>6, <1>8, <1>9, <1>11, InBuildNext

\* The constructs that are left when the innermost ends.
LEMMA EndingScopes ==
  ASSUME Built, Built', InBuild, open # << >>, Innermost.kind # "then",
         NEW to \in Target(Innermost), fn' = At(FellThrough(fn, to), Innermost.merge),
         open' = Front(open), dialect' = dialect, NEW t \in Tokens, t.declares = {},
         prog' = Append([EndScope(prog, Innermost.token) EXCEPT ![Innermost.token].end = Here], t)
  PROVE  InBuild'
<1>1. /\ DOMAIN open' \subseteq DOMAIN open
      /\ \A i \in DOMAIN open' : i # Len(open) /\ open'[i] = open[i]
  <2> DEFINE N == Len(open)
             front == Front(open)
  <2>1. /\ N \in Nat \ {0} /\ DOMAIN open = 1 .. N /\ DOMAIN front = 1 .. N - 1
        /\ \A i \in 1 .. N - 1 : front[i] = open[i]
    BY FrontIsPrefix DEF Built, BuilderTypes
  <2>2. open' = front
    OBVIOUS
  <2> HIDE DEF N, front
  <2>3. \A i \in 1 .. N - 1 : i \in 1 .. N /\ i # N
    BY <2>1
  <2> QED BY <2>1, <2>2, <2>3 DEF N
<1>2. Innermost.merge \in Unfilled(Innermost)
  BY DEF Unfilled
<1> QED BY <1>1, <1>2, GoingOnScopes

LEMMA EndIfScopes ==
  ASSUME Built, Built', InBuild, EndIf
  PROVE  InBuild'
<1> DEFINE t == [Token("end if") EXCEPT !.up = Innermost.token]
<1>1. /\ open # << >> /\ Innermost.kind # "then" /\ Innermost.merge \in Target(Innermost)
      /\ fn' = At(FellThrough(fn, Innermost.merge), Innermost.merge)
      /\ open' = Front(open) /\ dialect' = dialect
      /\ prog' = Append([EndScope(prog, Innermost.token) EXCEPT ![Innermost.token].end = Here], t)
  BY DEF EndIf, Target
<1>2. Innermost \in Construct
  BY <1>1, FrontIsPrefix DEF Built, BuilderTypes, Innermost
<1>3. t \in Tokens /\ t.declares = {}
  <2>1. t \in Tokens
    BY <1>2, TokenTyped DEF Tokens, TokenKinds, Construct
  <2> QED BY <2>1 DEF Token
<1> HIDE DEF t
<1> QED BY <1>1, <1>3, EndingScopes

LEMMA EndWhileScopes ==
  ASSUME Built, Built', InBuild, EndWhile
  PROVE  InBuild'
<1> DEFINE t == [Token("end while") EXCEPT !.up = Innermost.token]
<1>1. /\ open # << >> /\ Innermost.kind # "then" /\ Innermost.cond \in Target(Innermost)
      /\ fn' = At(FellThrough(fn, Innermost.cond), Innermost.merge)
      /\ open' = Front(open) /\ dialect' = dialect
      /\ prog' = Append([EndScope(prog, Innermost.token) EXCEPT ![Innermost.token].end = Here], t)
  BY DEF EndWhile, Target
<1>2. Innermost \in Construct
  BY <1>1, FrontIsPrefix DEF Built, BuilderTypes, Innermost
<1>3. t \in Tokens /\ t.declares = {}
  <2>1. t \in Tokens
    BY <1>2, TokenTyped DEF Tokens, TokenKinds, Construct
  <2> QED BY <2>1 DEF Token
<1> HIDE DEF t
<1> QED BY <1>1, <1>3, EndingScopes

LEMMA BeginElseScopes ==
  ASSUME Built, Built', InBuild, BeginElse
  PROVE  InBuild'
<1> DEFINE c == [Innermost EXCEPT !.kind = "last"]
           t == [Token("else") EXCEPT !.up = Innermost.token]
<1>1. /\ open # << >> /\ Innermost.kind = "then"
      /\ fn' = At(FellThrough(fn, Innermost.merge), Innermost.next)
      /\ open' = Append(Front(open), c)
      /\ prog' = Append([EndScope(prog, Innermost.token) EXCEPT ![Innermost.token].alt = Here], t)
      /\ dialect' = dialect
  BY DEF BeginElse
<1>2. Innermost.merge \in Target(Innermost) /\ Innermost.next \in Unfilled(Innermost)
  BY <1>1 DEF Target, Unfilled
<1>3. Innermost \in Construct
  BY <1>1, FrontIsPrefix DEF Built, BuilderTypes, Innermost
<1>4. t \in Tokens /\ t.declares = {}
  <2>1. t \in Tokens
    BY <1>3, TokenTyped DEF Tokens, TokenKinds, Construct
  <2> QED BY <2>1 DEF Token
<1>5. c \in Construct
  BY <1>3 DEF Construct
<1> HIDE DEF t, c
<1>6. /\ DOMAIN open' \subseteq DOMAIN open
      /\ \A i \in DOMAIN open' : \/ i # Len(open) /\ open'[i] = open[i]
                                 \/ i = Len(open) /\ open'[i] = c
  <2> DEFINE N == Len(open)
             front == Front(open)
  <2>1. /\ N \in Nat \ {0} /\ DOMAIN open = 1 .. N
        /\ front \in Seq(Construct) /\ DOMAIN front = 1 .. N - 1
        /\ \A i \in 1 .. N - 1 : front[i] = open[i]
    BY <1>1, FrontIsPrefix DEF Built, BuilderTypes
  <2>2. open' = Append(front, c)
    BY <1>1
  <2> HIDE DEF front, N
  <2>3. /\ Len(front) \in Nat /\ DOMAIN front = 1 .. Len(front)
        /\ DOMAIN Append(front, c) = 1 .. Len(front) + 1
        /\ \A i \in 1 .. Len(front) : Append(front, c)[i] = front[i]
        /\ Append(front, c)[Len(front) + 1] = c
    BY <1>5, <2>1, AppendPlaces
  <2>4. Len(front) = N - 1
    BY <2>1, <2>3
  <2>5. /\ DOMAIN open' = 1 .. N
        /\ \A i \in 1 .. N - 1 : open'[i] = open[i]
        /\ open'[N] = c
    BY <2>1, <2>2, <2>3, <2>4
  <2>6. \A i \in 1 .. N : i = N \/ (i \in 1 .. N - 1 /\ i # N)
    BY <2>1
  <2> QED BY <2>1, <2>5, <2>6 DEF N
<1> QED BY ZenonT(60), <1>1, <1>2, <1>4, <1>6, GoingOnScopes DEF c

\* A construct that opens.
LEMMA OpeningScopes ==
  ASSUME Built, Built', InBuild, Reachable, dialect' = dialect,
         Lowered(fn, Declared, Declared, fn'), OpenAreEmpty(fn'), fn'.curr \notin DOMAIN fn.blocks,
         NEW t \in Tokens, t.declares = {}, prog' = Append(prog, t),
         NEW c \in Construct, open' = Append(open, c), c.token = Here, c.kind = "then" => c.next # c.merge,
         NEW head \in Region(fn, fn'), fn'.blocks[head].term # Open, Dominates(fn', head, fn'.curr),
         c.kind = "while" => head = c.cond /\ fn'.blocks[head].preds # << >>,
         \A b \in Unfilled(c) : /\ b \in New(fn, fn') /\ b # fn'.curr
                                /\ fn'.blocks[b].term = Open
                                /\ Dominates(fn', head, b)
  PROVE  InBuild'
<1> DEFINE N == Len(open)
<1>1. /\ IsGraph(fn) /\ IsGraph(fn') /\ fn.curr \in DOMAIN fn.blocks
      /\ prog \in Seq(Tokens) /\ open \in Seq(Construct)
      /\ Len(prog) \in Nat /\ Here = Len(prog) + 1
      /\ Seen(prog, Len(prog)) \subseteq Declared
  BY CurrIsBlock, LenProperties, DeclaredSeen DEF Built, BuilderTypes, Here
<1>2. /\ Onward(fn, fn') /\ InScope(fn')
      /\ \A d : Dominates(fn, d, fn.curr) => Dominates(fn', d, fn'.curr)
      /\ \A b \in Region(fn, fn') : \A x \in Declared : Reaches(fn', b, x)
      /\ fn'.curr \in Region(fn, fn')
  BY <1>1, LoweredScopes
<1>3. \A d : Dominates(fn, d, fn.curr) => Dominates(fn', d, head)
  BY <1>1, LoweredDominance
<1>4. /\ prog' \in Seq(Tokens) /\ Len(prog') = Len(prog) + 1
      /\ \A n \in 1 .. Len(prog) : Seen(prog', n) \subseteq Seen(prog, n)
      /\ Seen(prog', Len(prog) + 1) \subseteq Declared
  <2>1. prog' \in Seq(Tokens) /\ Len(prog') = Len(prog) + 1
    BY <1>1, AppendHolds
  <2>2. \A n \in 1 .. Len(prog) : Seen(prog', n) \subseteq Seen(prog, n)
    BY <1>1, SeenAppended
  <2>3. Seen(prog', Len(prog) + 1) \subseteq Seen(prog, Len(prog)) \union t.declares
    BY <1>1, SeenAppended
  <2> HIDE DEF Declared
  <2> QED BY <1>1, <2>1, <2>2, <2>3
<1>5. /\ N \in Nat /\ DOMAIN open = 1 .. N /\ DOMAIN open' = 1 .. N + 1
      /\ \A i \in 1 .. N : open'[i] = open[i]
      /\ open'[N + 1] = c
  BY <1>1, AppendPlaces
<1> HIDE DEF N
<1>6. PICK heads \in [DOMAIN open -> DOMAIN fn.blocks] :
        /\ \A i \in DOMAIN open : HasHead(fn, open[i], heads[i], prog)
        /\ Around(fn, open, heads)
  BY DEF InBuild, Headed
<1>7. \A i \in DOMAIN open : /\ Unfilled(open[i]) \subseteq DOMAIN fn.blocks
                             /\ Dominates(fn, heads[i], fn.curr)
                             /\ open[i].token \in 1 .. Len(prog)
  BY <1>6 DEF HasHead
<1>8. \A i \in DOMAIN open : /\ Seen(prog', open[i].token) \subseteq Seen(prog, open[i].token)
                             /\ Dominates(fn', heads[i], fn'.curr)
                             /\ fn'.curr \notin Unfilled(open[i])
  BY <1>2, <1>4, <1>7
<1>9. /\ heads \in [DOMAIN open -> DOMAIN fn'.blocks]
      /\ \A i \in DOMAIN open : HasHead(fn', open[i], heads[i], prog')
      /\ Around(fn', open, heads)
  <2>1. Len(prog) <= Len(prog') /\ Around(fn, open, heads)
    BY <1>1, <1>4, <1>6
  <2>2. heads \in [DOMAIN open -> DOMAIN fn'.blocks]
    BY <1>2 DEF Onward
  <2>3. \A i \in DOMAIN open : HasHead(fn', open[i], heads[i], prog')
    BY <1>1, <1>2, <1>4, <1>6, <1>8, <2>1, HeadsKept
  <2>4. Around(fn', open, heads)
    BY <1>2, <1>7, <2>1 DEF Around, Onward
  <2> QED BY <2>2, <2>3, <2>4
<1>10. head \in DOMAIN fn'.blocks /\ \A b \in New(fn, fn') : b \in DOMAIN fn'.blocks /\ b \notin DOMAIN fn.blocks
  BY <1>1 DEF Region, New, Lowered
<1>11. HasHead(fn', c, head, prog')
  <2>1. c.token \in 1 .. Len(prog')
    BY <1>1, <1>4
  <2>2. \A x \in Seen(prog', c.token) : Reaches(fn', head, x)
    BY <1>1, <1>2, <1>4
  <2> QED BY <1>10, <2>1, <2>2 DEF HasHead
<1> DEFINE all == [i \in DOMAIN open' |-> IF i = N + 1 THEN head ELSE heads[i]]
<1>12. /\ all[N + 1] = head /\ N + 1 \in DOMAIN open'
       /\ \A i \in DOMAIN open : all[i] = heads[i]
       /\ \A i \in DOMAIN open' : i = N + 1 \/ i \in DOMAIN open
       /\ \A i, j \in DOMAIN open' : i < j => i \in DOMAIN open
  BY <1>5
<1>13. all \in [DOMAIN open' -> DOMAIN fn'.blocks]
  BY <1>9, <1>10, <1>12
<1> HIDE DEF all
<1>14. \A i \in DOMAIN open' : HasHead(fn', open'[i], all[i], prog')
  BY <1>5, <1>9, <1>11, <1>12
<1>15. Around(fn', open', all)
  <2> SUFFICES ASSUME NEW i \in DOMAIN open', NEW j \in DOMAIN open', i < j
               PROVE  /\ Dominates(fn', all[i], all[j])
                      /\ Unfilled(open'[i]) \intersect Unfilled(open'[j]) = {}
    BY DEF Around
  <2>1. i \in DOMAIN open /\ open'[i] = open[i] /\ all[i] = heads[i]
    BY <1>5, <1>12
  <2>2. CASE j = N + 1
    <3>1. open'[j] = c /\ all[j] = head
      BY <1>5, <1>12, <2>2
    <3>2. Dominates(fn', heads[i], head)
      BY <1>3, <1>7, <2>1
    <3>3. Unfilled(open[i]) \intersect Unfilled(c) = {}
      BY <1>7, <1>10, <2>1
    <3> QED BY <2>1, <3>1, <3>2, <3>3
  <2>3. CASE j \in DOMAIN open
    <3>1. open'[j] = open[j] /\ all[j] = heads[j]
      BY <1>5, <1>12, <2>3
    <3> QED BY <1>9, <2>1, <2>3, <3>1 DEF Around
  <2> QED BY <1>12, <2>2, <2>3
<1>16. Headed(fn', open', prog')
  BY <1>13, <1>14, <1>15 DEF Headed
<1>17. \A x \in Seen(prog', Len(prog')) : Reaches(fn', fn'.curr, x)
  BY <1>2, <1>4
<1> QED BY <1>1, <1>2, <1>4, <1>16, <1>17, InBuildNext

\* The branch on a condition.
Forked(f, V, D, g, h, t, e) ==
  /\ Lowered(f, V, D, h) /\ IsGraph(h) /\ OpenAreEmpty(h)
  /\ h.curr = t /\ DOMAIN h.blocks = DOMAIN g.blocks
  /\ h.blocks[g.curr].term # Open
  /\ h.blocks[e].term = Open
  /\ \A b \in DOMAIN g.blocks \ {g.curr, t, e} : h.blocks[b] = g.blocks[b]
LEMMA BranchScopes ==
  ASSUME NEW f, IsGraph(f), NEW V, NEW D, NEW g, IsGraph(g), IsOpen(g), OpenAreEmpty(g), Lowered(f, V, D, g),
         NEW o \in Operand, From(g, V, o, g.curr), NEW where \in Seq(Nat),
         NEW t \in New(f, g), NEW e \in New(f, g), t # e, t # g.curr, e # g.curr,
         g.blocks[t] = EmptyBlock, g.blocks[e] = EmptyBlock
  PROVE  Forked(f, V, D, g, At(BranchTo(g, o, t, e, where), t), t, e)
<1> DEFINE k == BranchTo(g, o, t, e, where)
           h == At(k, t)
<1>1. NoPhis(g.blocks[t]) /\ NoPhis(g.blocks[e]) /\ g.blocks[t].term = Open /\ g.blocks[e].term = Open
  BY EmptyBlockIs, EmptyHasNoPhis
<1>2. t \in DOMAIN g.blocks /\ e \in DOMAIN g.blocks /\ g.curr \in DOMAIN g.blocks
  BY DEF New, IsGraph, HasEdges
<1>3. Ended(g, k, {t, e}) /\ k.blocks[g.curr].term = Branch(o, t, e, where)
  BY <1>1, <1>2, BranchToBuilds
<1>4. Lowered(f, V, D, k) /\ k.curr = g.curr
  BY <1>1, LoweredBranches
<1> HIDE DEF k
<1>5. /\ DOMAIN k.blocks = DOMAIN g.blocks /\ IsGraph(k) /\ k.blocks[g.curr].term # Open
      /\ \A b \in DOMAIN g.blocks \ {g.curr, t, e} : k.blocks[b] = g.blocks[b]
      /\ k.blocks[e].term = Open
      /\ OpenAreEmpty(k)
  BY <1>1, <1>2, <1>3, EndedEmpty DEF Ended, SameShape
<1>6. IsGraph(h) /\ h.curr = t /\ h.blocks = k.blocks
  BY <1>2, <1>5, AtBuilds
<1> HIDE DEF h
<1>7. Lowered(f, V, D, h)
  <2>1. t \in Region(f, k) /\ h \in Function
    BY <1>5, <1>6 DEF Region, New, IsGraph, HasEdges
  <2> QED BY <1>4, <1>6, <2>1, LoweredElsewhere
<1>8. OpenAreEmpty(h)
  BY <1>4, <1>5, <1>6 DEF OpenAreEmpty
<1> QED BY <1>5, <1>6, <1>7, <1>8 DEF Forked, h, k

LEMMA BeginIfScopes ==
  ASSUME Built, Built', InBuild, NEW e \in Exprs("if"), NEW hasElse \in BOOLEAN, BeginIf(e, hasElse)
  PROVE  InBuild'
<1> DEFINE N == Len(fn.blocks)
           n == IF hasElse THEN 3 ELSE 2
           made == makeBlocks(fn, n)
           thenBB == N + 1
           mergeBB == thenBB + 1
           elseBB == IF hasElse THEN mergeBB + 1 ELSE mergeBB
           v == lower(made, e, Here)
           c == [kind |-> IF hasElse THEN "then" ELSE "last", token |-> Here,
                 next |-> elseBB, merge |-> mergeBB, cond |-> 0]
           t == [Token("if") EXCEPT !.e = e]
           fresh == N + 1 .. N + n
           V == Declared
<1>1. e \in Expr /\ e \in ExprOver(V) /\ V \in SUBSET Vars
  BY ExprsInScope, DeclaredTyped DEF Built, Kinds
<1>2. /\ Reachable
      /\ fn' = At(BranchTo(v.f, v.last, thenBB, elseBB, <<Here, 2>>), thenBB)
      /\ open' = Append(open, c)
      /\ prog' = Append(prog, t)
      /\ UNCHANGED dialect
  BY DEF BeginIf
<1>3. fn.curr \in DOMAIN fn.blocks /\ IsOpen(fn) /\ Here \in Nat /\ IsGraph(fn)
  BY <1>2, CurrIsBlock DEF Built
<1>4. /\ IsGraph(made)
      /\ N \in Nat
      /\ DOMAIN fn.blocks = 1 .. N
      /\ DOMAIN made.blocks = 1 .. N + n
      /\ made.curr = fn.curr
      /\ \A b \in 1 .. N : made.blocks[b] = fn.blocks[b]
      /\ \A b \in fresh : made.blocks[b] = EmptyBlock
  <2>1. n \in Nat /\ IsGraph(fn)
    BY <1>3
  <2>2. fresh = N + 1 .. N + n
    OBVIOUS
  <2> HIDE DEF n, fresh
  <2>3. BlocksAdded(fn, made, n)
    BY <2>1, makeBlocksBuilds
  <2> HIDE DEF made
  <2> QED BY <2>2, <2>3 DEF BlocksAdded
<1> HIDE DEF V
<1>5. Lowered(fn, V, V, made)
  <2>1. n \in Nat /\ Lowered(fn, V, V, fn)
    BY <1>3, LoweredAtFirst
  <2> HIDE DEF n
  <2> QED BY <1>3, <2>1, LoweredMakes
<1> HIDE DEF made, N
<1>6. /\ thenBB \in fresh /\ mergeBB \in fresh /\ elseBB \in fresh
      /\ fresh \subseteq 1 .. N + n
      /\ thenBB # elseBB /\ thenBB # mergeBB
      /\ hasElse => elseBB # mergeBB
      /\ \A b \in fresh : b \notin 1 .. N /\ b \in Nat
      /\ \A b \in 1 .. N + n : b \in 1 .. N \/ b \in fresh
  BY <1>4
<1>7. IsOpen(made) /\ OpenAreEmpty(made)
  <2>1. OpenAreEmpty(fn)
    BY DEF InBuild, InScope
  <2>2. EmptyBlock.code = << >> /\ EmptyBlock.defs = {}
    BY DEF EmptyBlock
  <2> QED BY <1>3, <1>4, <1>6, <2>1, <2>2 DEF IsOpen, OpenAreEmpty
<1>8. /\ Extends(made, v.f) /\ v.last \in Operand
      /\ Lowered(fn, V, V, v.f) /\ Result(fn, V, v.f, v.last)
  BY <1>1, <1>3, <1>4, <1>5, <1>7, lowerExtends, lowerLowered
<1> HIDE DEF v, fresh, n, thenBB
<1>9. /\ IsGraph(v.f) /\ IsOpen(v.f) /\ OpenAreEmpty(v.f) /\ From(v.f, V, v.last, v.f.curr)
      /\ v.f.curr = fn.curr \/ v.f.curr \notin DOMAIN made.blocks
  BY <1>4, <1>7, <1>8, ExtendsEmpty, ResultComes DEF Extends
<1>10. \A b \in fresh : b \in New(fn, v.f) /\ b # v.f.curr /\ b # fn.curr /\ v.f.blocks[b] = EmptyBlock
  <2> TAKE b \in fresh
  <2>1. b \in DOMAIN made.blocks /\ b \notin DOMAIN fn.blocks /\ b # made.curr
    BY <1>3, <1>4, <1>6
  <2> QED BY <1>4, <1>8, <1>9, <2>1 DEF Extends, OnlyCurrChanged, New
<1>11. <<Here, 2>> \in Seq(Nat)
  BY <1>3
<1> HIDE DEF mergeBB, elseBB
<1>12. /\ Lowered(fn, V, V, fn') /\ IsGraph(fn') /\ OpenAreEmpty(fn')
       /\ fn'.curr = thenBB /\ DOMAIN fn'.blocks = DOMAIN v.f.blocks
       /\ fn'.blocks[v.f.curr].term # Open
       /\ fn'.blocks[elseBB].term = Open
       /\ \A b \in DOMAIN v.f.blocks \ {v.f.curr, thenBB, elseBB} : fn'.blocks[b] = v.f.blocks[b]
  <2>1. Forked(fn, V, V, v.f, At(BranchTo(v.f, v.last, thenBB, elseBB, <<Here, 2>>), thenBB), thenBB, elseBB)
    BY <1>3, <1>6, <1>8, <1>9, <1>10, <1>11, BranchScopes
  <2> QED BY <1>2, <2>1 DEF Forked
<1>13. fn'.blocks[fn.curr].term # Open /\ fn.curr \in Region(fn, fn')
  <2>1. CASE v.f.curr = fn.curr
    BY <1>12, <2>1 DEF Region
  <2>2. CASE v.f.curr # fn.curr
    <3>1. fn.curr \in DOMAIN v.f.blocks /\ v.f.blocks[fn.curr].term # Open
      BY <1>3, <1>4, <1>8, <2>2 DEF Extends, Lowered
    <3>2. fn'.blocks[fn.curr] = v.f.blocks[fn.curr]
      BY <1>6, <1>10, <1>12, <2>2, <3>1
    <3> QED BY <3>1, <3>2 DEF Region
  <2> QED BY <2>1, <2>2
<1>14. \A b \in New(fn, fn') : Dominates(fn', fn.curr, b)
  BY <1>3, <1>12, LoweredDominance
<1>15. /\ c \in Construct /\ Unfilled(c) = {mergeBB, elseBB} /\ c.token = Here
       /\ c.kind # "while" /\ (c.kind = "then" => c.next # c.merge)
  <2>1. hasElse = FALSE => elseBB = mergeBB
    BY DEF elseBB
  <2>2. c \in Construct
    BY <1>3, <1>6 DEF Construct
  <2> QED BY <1>6, <2>1, <2>2 DEF Unfilled
<1> HIDE DEF c
<1>16. ASSUME NEW b \in Unfilled(c)
       PROVE  /\ b \in New(fn, fn') /\ b # fn'.curr
              /\ fn'.blocks[b].term = Open
              /\ Dominates(fn', fn.curr, b)
  <2>1. b \in fresh /\ b # thenBB
    BY <1>6, <1>15
  <2>2. b \in New(fn, fn')
    BY <1>10, <1>12, <2>1 DEF New
  <2>3. fn'.blocks[b].term = Open
    <3>1. CASE b = elseBB
      BY <1>12, <3>1
    <3>2. CASE b # elseBB
      BY <1>10, <1>12, <2>1, <3>2, EmptyBlockIs DEF New
    <3> QED BY <3>1, <3>2
  <2> QED BY <1>12, <1>14, <2>1, <2>2, <2>3
<1>17. fn'.curr \in New(fn, fn') /\ fn'.curr \notin DOMAIN fn.blocks
  BY <1>6, <1>10, <1>12 DEF New
<1>18. t \in Tokens /\ t.declares = {}
  <2>1. t \in Tokens
    BY <1>1, TokenTyped DEF Tokens, TokenKinds
  <2> QED BY <2>1 DEF Token
<1> HIDE DEF t
<1> QED BY <1>2, <1>12, <1>13, <1>14, <1>15, <1>16, <1>17, <1>18, OpeningScopes DEF V

LEMMA BeginWhileScopes ==
  ASSUME Built, Built', InBuild, NEW e \in Exprs("while"), BeginWhile(e)
  PROVE  InBuild'
<1> DEFINE N == Len(fn.blocks)
           made == makeBlocks(fn, 3)
           condBB == N + 1
           bodyBB == condBB + 1
           exitBB == bodyBB + 1
           jumped == JumpTo(made, condBB)
           cond == At(jumped, condBB)
           v == lower(cond, e, Here)
           c == [kind |-> "while", token |-> Here, next |-> exitBB, merge |-> exitBB, cond |-> condBB]
           t == [Token("while") EXCEPT !.e = e]
           V == Declared
<1>1. e \in Expr /\ e \in ExprOver(V) /\ V \in SUBSET Vars
  BY ExprsInScope, DeclaredTyped DEF Built, Kinds
<1>2. /\ Reachable
      /\ fn' = At(BranchTo(v.f, v.last, bodyBB, exitBB, <<Here, 2>>), bodyBB)
      /\ open' = Append(open, c)
      /\ prog' = Append(prog, t)
      /\ UNCHANGED dialect
  BY DEF BeginWhile
<1>3. fn.curr \in DOMAIN fn.blocks /\ IsOpen(fn) /\ Here \in Nat /\ IsGraph(fn)
  BY <1>2, CurrIsBlock DEF Built
<1>4. /\ IsGraph(made)
      /\ N \in Nat
      /\ DOMAIN fn.blocks = 1 .. N
      /\ DOMAIN made.blocks = 1 .. N + 3
      /\ made.curr = fn.curr
      /\ \A b \in 1 .. N : made.blocks[b] = fn.blocks[b]
      /\ \A b \in N + 1 .. N + 3 : made.blocks[b] = EmptyBlock
  <2>1. BlocksAdded(fn, made, 3)
    BY <1>3, makeBlocksBuilds
  <2> HIDE DEF made
  <2> QED BY <2>1 DEF BlocksAdded
<1> HIDE DEF V
<1>5. Lowered(fn, V, V, made)
  <2>1. Lowered(fn, V, V, fn)
    BY <1>3, LoweredAtFirst
  <2> QED BY <1>3, <2>1, LoweredMakes
<1> HIDE DEF made, N
<1>6. /\ N + 1 .. N + 3 = {condBB, bodyBB, exitBB}
      /\ condBB # bodyBB /\ condBB # exitBB /\ bodyBB # exitBB
      /\ \A b \in {condBB, bodyBB, exitBB} : b \notin 1 .. N /\ b \in Nat
      /\ {condBB, bodyBB, exitBB} \subseteq DOMAIN made.blocks
      /\ \A b \in 1 .. N + 3 : b \in 1 .. N \/ b \in {condBB, bodyBB, exitBB}
  BY <1>4
<1> HIDE DEF condBB, bodyBB, exitBB
<1>7. /\ \A b \in {condBB, bodyBB, exitBB} :
           /\ made.blocks[b] = EmptyBlock /\ made.blocks[b].term = Open /\ NoPhis(made.blocks[b])
           /\ b \in New(fn, made) /\ b # fn.curr
      /\ IsOpen(made) /\ OpenAreEmpty(made)
  <2>1. OpenAreEmpty(fn)
    BY DEF InBuild, InScope
  <2>2. EmptyBlock.code = << >> /\ EmptyBlock.defs = {}
    BY DEF EmptyBlock
  <2>3. \A b \in {condBB, bodyBB, exitBB} : made.blocks[b] = EmptyBlock
    BY <1>4, <1>6
  <2>4. IsOpen(made) /\ OpenAreEmpty(made)
    BY SMTT(30), <1>3, <1>4, <1>6, <2>1, <2>2, <2>3 DEF IsOpen, OpenAreEmpty
  <2>5. \A b \in {condBB, bodyBB, exitBB} : made.blocks[b].term = Open /\ NoPhis(made.blocks[b])
    BY <2>3, EmptyBlockIs, EmptyHasNoPhis
  <2>6. \A b \in {condBB, bodyBB, exitBB} : b \in New(fn, made) /\ b # fn.curr
    BY <1>3, <1>4, <1>6 DEF New
  <2> QED BY <2>3, <2>4, <2>5, <2>6
\* The condition's block is filled next.
<1>8. /\ Jumped(made, jumped, condBB)
      /\ Lowered(fn, V, V, jumped)
  <2>1. condBB \in New(fn, made) /\ condBB # made.curr /\ NoPhis(made.blocks[condBB])
          /\ made.blocks[condBB].term = Open
    BY <1>4, <1>7
  <2> QED BY <1>3, <1>4, <1>5, <1>6, <1>7, <2>1, JumpGoes, LoweredJumps
<1> HIDE DEF jumped
<1>9. /\ DOMAIN jumped.blocks = DOMAIN made.blocks
      /\ jumped.curr = fn.curr
      /\ jumped.blocks[fn.curr].term # Open
      /\ ToSet(jumped.blocks[fn.curr].succs) = {condBB}
      /\ jumped.blocks[condBB].term = Open
      /\ jumped.blocks[bodyBB] = EmptyBlock /\ jumped.blocks[exitBB] = EmptyBlock
      /\ IsGraph(jumped) /\ OpenAreEmpty(jumped)
  BY <1>4, <1>6, <1>7, <1>8, EndedEmpty DEF Jumped, Ended, SameShape
<1>10. IsGraph(cond) /\ cond.curr = condBB /\ cond.blocks = jumped.blocks
  BY <1>6, <1>9, AtBuilds
<1> HIDE DEF cond
<1>11. Lowered(fn, V, V, cond) /\ IsOpen(cond) /\ OpenAreEmpty(cond)
  <2>1. condBB \in Region(fn, jumped) /\ cond \in Function
    BY <1>7, <1>9, <1>10 DEF Region, New, IsGraph, HasEdges
  <2>2. Lowered(fn, V, V, cond)
    BY <1>3, <1>8, <1>10, <2>1, LoweredElsewhere
  <2>3. IsOpen(cond) /\ OpenAreEmpty(cond)
    BY <1>9, <1>10 DEF IsOpen, OpenAreEmpty
  <2> QED BY <2>2, <2>3
<1>12. /\ Extends(cond, v.f) /\ v.last \in Operand
       /\ Lowered(fn, V, V, v.f) /\ Result(fn, V, v.f, v.last)
  BY <1>1, <1>3, <1>10, <1>11, lowerExtends, lowerLowered
<1> HIDE DEF v
<1>13. /\ IsGraph(v.f) /\ IsOpen(v.f) /\ OpenAreEmpty(v.f) /\ From(v.f, V, v.last, v.f.curr)
       /\ v.f.curr = condBB \/ v.f.curr \notin DOMAIN cond.blocks
       /\ \A b \in DOMAIN made.blocks \ {condBB} : b \in DOMAIN v.f.blocks /\ v.f.blocks[b] = jumped.blocks[b]
       /\ condBB \in DOMAIN v.f.blocks
       /\ v.f.blocks[condBB].term = Open => v.f.curr = condBB
  <2>1. condBB \in DOMAIN cond.blocks
    BY <1>6, <1>9, <1>10
  <2> QED BY <1>9, <1>10, <1>11, <1>12, <2>1, ExtendsEmpty, ResultComes DEF Extends, OnlyCurrChanged
<1>14. /\ \A b \in {bodyBB, exitBB} : b \in New(fn, v.f) /\ b # v.f.curr /\ v.f.blocks[b] = EmptyBlock
       /\ fn.curr # v.f.curr /\ fn.curr \in DOMAIN made.blocks /\ fn.curr # condBB
       /\ fn.curr # bodyBB /\ fn.curr # exitBB
       /\ DOMAIN cond.blocks = DOMAIN made.blocks
  BY SMTT(30), <1>3, <1>4, <1>6, <1>7, <1>9, <1>10, <1>13 DEF New
<1>15. <<Here, 2>> \in Seq(Nat)
  BY <1>3
<1>16. /\ Lowered(fn, V, V, fn') /\ IsGraph(fn') /\ OpenAreEmpty(fn')
       /\ fn'.curr = bodyBB /\ DOMAIN fn'.blocks = DOMAIN v.f.blocks
       /\ fn'.blocks[v.f.curr].term # Open
       /\ fn'.blocks[exitBB].term = Open
       /\ \A b \in DOMAIN v.f.blocks \ {v.f.curr, bodyBB, exitBB} : fn'.blocks[b] = v.f.blocks[b]
  <2>1. Forked(fn, V, V, v.f, At(BranchTo(v.f, v.last, bodyBB, exitBB, <<Here, 2>>), bodyBB), bodyBB, exitBB)
    BY <1>3, <1>6, <1>12, <1>13, <1>14, <1>15, BranchScopes
  <2> QED BY <1>2, <2>1 DEF Forked
<1>17. fn'.blocks[fn.curr] = jumped.blocks[fn.curr] /\ condBB \in New(fn, fn') /\ condBB \in Region(fn, fn')
  BY <1>4, <1>6, <1>13, <1>14, <1>16 DEF New, Region
<1>18. fn'.blocks[condBB].term # Open
  <2>1. CASE v.f.curr = condBB
    BY <1>16, <2>1
  <2>2. CASE v.f.curr # condBB
    BY <1>6, <1>13, <1>16, <2>2
  <2> QED BY <2>1, <2>2
<1>19. fn'.blocks[condBB].preds # << >>
  <2>1. condBB \in ToSet(fn'.blocks[fn.curr].succs) /\ fn.curr \in DOMAIN fn'.blocks /\ condBB \in DOMAIN fn'.blocks
    BY <1>9, <1>13, <1>14, <1>16, <1>17
  <2>2. fn.curr \in ToSet(fn'.blocks[condBB].preds)
    BY <1>16, <2>1, PredecessorsLead
  <2> QED BY <2>2, EmptyHolds DEF ToSet
\* The blocks there were lead to no new one but the condition's.
<1>20. \A b \in New(fn, fn') : Dominates(fn', condBB, b)
  <2> DEFINE C == DOMAIN fn.blocks
  <2>1. ASSUME NEW b \in C
        PROVE  ToSet(fn'.blocks[b].succs) \ {condBB} \subseteq C
    <3>1. CASE b = fn.curr
      BY <1>9, <1>17, <3>1
    <3>2. CASE b # fn.curr
      <4>1. fn'.blocks[b] = fn.blocks[b]
        BY <1>16, <3>2 DEF Lowered, OnlyCurrChanged
      <4> QED BY <1>3, <4>1, GraphBlocks
    <3> QED BY <3>1, <3>2
  <2>2. 1 \in C
    BY <1>3, GraphBlocks
  <2>3. LeadsOn(fn', condBB, C)
    BY <2>1, <2>2 DEF LeadsOn
  <2>4. C \in SUBSET DOMAIN fn'.blocks
    BY <1>16 DEF Lowered
  <2>5. LeastReached(fn', condBB) \subseteq C
    BY <2>3, <2>4, LeastReachedIsLeast
  <2> QED BY <2>5 DEF Dominates, New
<1>21. /\ c \in Construct /\ Unfilled(c) = {exitBB} /\ c.token = Here
       /\ c.kind = "while" /\ c.cond = condBB
  <2>1. c \in Construct
    BY <1>3, <1>6 DEF Construct
  <2> QED BY <2>1 DEF Unfilled
<1> HIDE DEF c
<1>22. ASSUME NEW b \in Unfilled(c)
       PROVE  /\ b \in New(fn, fn') /\ b # fn'.curr
              /\ fn'.blocks[b].term = Open
              /\ Dominates(fn', condBB, b)
  BY <1>6, <1>14, <1>16, <1>20, <1>21 DEF New
<1>23. fn'.curr \in New(fn, fn') /\ fn'.curr \notin DOMAIN fn.blocks /\ Dominates(fn', condBB, fn'.curr)
  BY <1>14, <1>16, <1>20 DEF New
<1>24. t \in Tokens /\ t.declares = {}
  <2>1. t \in Tokens
    BY <1>1, TokenTyped DEF Tokens, TokenKinds
  <2> QED BY <2>1 DEF Token
<1> HIDE DEF t
<1> QED BY ZenonT(60), <1>2, <1>16, <1>17, <1>18, <1>19, <1>21, <1>22, <1>23, <1>24, OpeningScopes DEF V

-----------------------------------------------------------------------------
(* The promise, from the first statement to the phis.                      *)
\* At first only the parameters are in scope.
LEMMA InBuildHolds == Init => InBuild
<1> SUFFICES ASSUME Init PROVE InBuild
  OBVIOUS
<1>1. dialect \in Dialects /\ fn = WithParams(dialect.params) /\ open = << >> /\ prog = << >>
  BY DEF Init, BuilderInit
<1>2. dialect.params \in Seq(Vars)
  BY <1>1, ControlFlowAssumption
<1>3. /\ IsGraph(fn) /\ DOMAIN fn.blocks = {1} /\ fn.curr = 1
      /\ fn.blocks[1].code =
           [i \in DOMAIN dialect.params |-> Instr("param", i - 1, << >>, << >>, dialect.params[i], <<i>>)]
      /\ fn.blocks[1].term = Open /\ fn.blocks[1].defs = ToSet(dialect.params)
  BY <1>1, <1>2, WithParamsBuilds
<1>4. \A k \in DOMAIN fn.blocks[1].code :
        /\ k \in DOMAIN dialect.params
        /\ fn.blocks[1].code[k].op = "param" /\ ~IsPhi(fn.blocks[1].code[k])
        /\ fn.blocks[1].code[k].sym = dialect.params[k]
        /\ DOMAIN fn.blocks[1].code[k].args = {}
  BY <1>3, EmptyHolds DEF Instr, IsPhi
<1>5. \A x \in ToSet(dialect.params) : Has(fn, 1, x) /\ Reaches(fn, 1, x)
  <2> SUFFICES ASSUME NEW k \in DOMAIN dialect.params
               PROVE  Has(fn, 1, dialect.params[k]) /\ Reaches(fn, 1, dialect.params[k])
    BY DEF ToSet
  <2>1. k \in DOMAIN fn.blocks[1].code
    BY <1>3
  <2>2. Has(fn, 1, dialect.params[k])
    BY <1>4, <2>1 DEF Has
  <2> QED BY <1>3, <2>2, EntryDominates DEF Reaches
<1>6. WellScoped(fn)
  <2>1. DOMAIN fn.blocks[1].term.args = {}
    BY <1>3, EmptyHolds DEF Open
  <2>2. \A k \in DOMAIN fn.blocks[1].code : ScopedInstr(fn, 1, k)
    BY <1>4 DEF ScopedInstr
  <2> QED BY <1>3, <1>5, <2>1, <2>2 DEF WellScoped, Scoped
<1>7. Rooted(fn) /\ OpenAreEmpty(fn)
  BY <1>3 DEF Rooted, ClosedFromEntry, OpenAreEmpty
<1>8. \A x \in Declared : Reaches(fn, fn.curr, x)
  BY <1>1, <1>3, <1>5, EmptyHolds DEF Declared
<1>9. Headed(fn, open, prog)
  <2> DEFINE heads == [i \in DOMAIN open |-> 1]
  <2>1. DOMAIN open = {}
    BY <1>1, EmptyHolds
  <2>2. heads \in [DOMAIN open -> DOMAIN fn.blocks]
    BY <2>1
  <2> QED BY <2>1, <2>2 DEF Headed, Around
<1> QED BY <1>5, <1>6, <1>7, <1>8, <1>9 DEF InBuild, InScope

\* The end of the function has no use of its own.
LEMMA FinishFunctionScopes ==
  ASSUME Built, InBuild, FinishFunction
  PROVE  WellScoped(fn') /\ Rooted(fn')
<1>1. fn' = IF hasTerminator(fn) THEN fn ELSE SetTerm(fn, Return(<< >>, <<Here, 2>>))
  BY DEF FinishFunction
<1>2. CASE hasTerminator(fn)
  BY <1>1, <1>2 DEF InBuild, InScope
<1>3. CASE ~hasTerminator(fn)
  <2>1. IsOpen(fn) /\ IsGraph(fn) /\ Here \in Nat /\ Reachable /\ << >> \in Seq(Operand)
    BY <1>3, CurrIsBlock DEF hasTerminator, IsOpen, Built, Reachable
  <2>2. Ended(fn, fn', {}) /\ ToSet(fn'.blocks[fn.curr].succs) = {} /\ fn'.blocks[fn.curr].term.args = << >>
    BY <1>1, <1>3, <2>1, ReturnEnds
  <2>3. Lowered(fn, Declared, Declared, fn')
    <3>1. Lowered(fn, Declared, Declared, fn)
      BY <2>1, LoweredAtFirst
    <3>2. DOMAIN fn'.blocks[fn.curr].term.args = {}
      BY <2>2, EmptyHolds
    <3> QED BY <2>1, <2>2, <3>1, <3>2, LoweredEnds
  <2>4. IsGraph(fn') /\ OpenAreEmpty(fn')
    BY <2>2, EndedEmpty DEF Ended, InBuild, InScope
  <2> QED BY <2>1, <2>3, <2>4, LoweredScopes DEF InScope
<1> QED BY <1>2, <1>3

\* What building promises, and what computeDoms asserts on the way.
ScopeInv ==
  /\ phase = "build" => InBuild
  /\ phase \in {"dominators", "phis"} => WellScoped(fn) /\ Rooted(fn)
  /\ phase = "dominators" => \A b \in Blocks : b # entry /\ b < visiting => Preds(b) # {}
  /\ phase = "phis" => AllReached(fn)

LEMMA BuildScopes ==
  ASSUME BuilderInv, BuilderInv', DominatorInv, ScopeInv, Build, UNCHANGED ssa
  PROVE  ScopeInv'
<1>1. phase = "build" /\ Built /\ InBuild /\ phase' \in {"build", "dominators"} /\ visiting' = 0
  BY BuildPhases DEF Build, BuilderInv, Built, ScopeInv, DominatorInv, ssa
<1>2. phase' = "build" => Built'
  BY DEF BuilderInv, Built
<1>3. ASSUME InBuild', phase' = "build"
      PROVE  ScopeInv'
  BY <1>3 DEF ScopeInv
<1>4. CASE SkipDeadStatement
  BY <1>1, <1>2, <1>3, <1>4, SkipDeadStatementScopes DEF SkipDeadStatement
<1>5. ASSUME NEW e \in Exprs("let"), Let(e) PROVE ScopeInv'
  <2>1. phase' = "build"
    BY <1>1, <1>5 DEF Let
  <2> QED BY <1>1, <1>2, <1>3, <1>5, <2>1, LetScopes
<1>6. ASSUME NEW x \in Vars, NEW e \in Exprs("assign"), Assign(x, e) PROVE ScopeInv'
  <2>1. phase' = "build"
    BY <1>1, <1>6 DEF Assign
  <2> QED BY <1>1, <1>2, <1>3, <1>6, <2>1, AssignScopes
<1>7. ASSUME NEW e \in Exprs("expression"), Expression(e) PROVE ScopeInv'
  <2>1. phase' = "build"
    BY <1>1, <1>7 DEF Expression
  <2> QED BY <1>1, <1>2, <1>3, <1>7, <2>1, ExpressionScopes
<1>8. ASSUME NEW e \in Exprs("if"), NEW hasElse \in BOOLEAN, BeginIf(e, hasElse) PROVE ScopeInv'
  <2>1. phase' = "build"
    BY <1>1, <1>8 DEF BeginIf
  <2> QED BY <1>1, <1>2, <1>3, <1>8, <2>1, BeginIfScopes
<1>9. CASE BeginElse
  <2>1. phase' = "build"
    BY <1>1, <1>9 DEF BeginElse
  <2> QED BY <1>1, <1>2, <1>3, <1>9, <2>1, BeginElseScopes
<1>10. CASE EndIf
  <2>1. phase' = "build"
    BY <1>1, <1>10 DEF EndIf
  <2> QED BY <1>1, <1>2, <1>3, <1>10, <2>1, EndIfScopes
<1>11. ASSUME NEW e \in Exprs("while"), BeginWhile(e) PROVE ScopeInv'
  <2>1. phase' = "build"
    BY <1>1, <1>11 DEF BeginWhile
  <2> QED BY <1>1, <1>2, <1>3, <1>11, <2>1, BeginWhileScopes
<1>12. CASE EndWhile
  <2>1. phase' = "build"
    BY <1>1, <1>12 DEF EndWhile
  <2> QED BY <1>1, <1>2, <1>3, <1>12, <2>1, EndWhileScopes
<1>13. CASE Break
  <2>1. phase' = "build"
    BY <1>1, <1>13 DEF Break
  <2> QED BY <1>1, <1>2, <1>3, <1>13, <2>1, BreakScopes
<1>14. CASE Continue
  <2>1. phase' = "build"
    BY <1>1, <1>14 DEF Continue
  <2> QED BY <1>1, <1>2, <1>3, <1>14, <2>1, ContinueScopes
<1>15. ASSUME NEW e \in Exprs("return"), ReturnValue(e) PROVE ScopeInv'
  <2>1. phase' = "build"
    BY <1>1, <1>15 DEF ReturnValue
  <2> QED BY <1>1, <1>2, <1>3, <1>15, <2>1, ReturnValueScopes
<1>16. CASE FinishFunction
  <2>1. phase' = "dominators" /\ WellScoped(fn') /\ Rooted(fn')
    BY <1>1, <1>16, FinishFunctionScopes DEF FinishFunction
  <2>2. IsGraph(fn')
    BY <2>1 DEF BuilderInv
  <2>3. Blocks' \subseteq Nat /\ \A b \in Nat : ~(b < 0)
    BY <2>2, GraphBlocks DEF Blocks
  <2> QED BY <1>1, <2>1, <2>3 DEF ScopeInv
<1> QED BY <1>4, <1>5, <1>6, <1>7, <1>8, <1>9, <1>10, <1>11, <1>12, <1>13, <1>14, <1>15, <1>16 DEF Build

\* Where every block but the entry has a predecessor, all are reached from the entry.
LEMMA RootedAreReached ==
  ASSUME Rooted(fn), \A b \in Blocks : b # entry => Preds(b) # {}
  PROVE  AllReached(fn)
<1> SUFFICES ASSUME NEW C \in SUBSET DOMAIN fn.blocks, ClosedFromEntry(fn, C)
             PROVE  C = DOMAIN fn.blocks
  BY DEF AllReached
<1>1. ASSUME NEW b \in DOMAIN fn.blocks, fn.blocks[b].preds = << >>
      PROVE  b \in C
  <2>1. Preds(b) = {}
    BY <1>1, EmptyHolds DEF Preds, ToSet
  <2> QED BY <2>1 DEF Blocks, entry, ClosedFromEntry
<1> QED BY <1>1 DEF Rooted

LEMMA DominatorsKeepScope ==
  ASSUME BuilderInv, DominatorInv, ScopeInv, phase \in {"dominators", "phis"}, fn' = fn,
         \/ StartDominators \/ VisitBlock \/ EndSweep
         \/ phase = "phis" /\ phase' = "phis"
  PROVE  ScopeInv'
<1>1. /\ IsGraph(fn) /\ Blocks' = Blocks /\ \A b \in Blocks : Preds(b)' = Preds(b)
      /\ Len(fn.blocks) \in Nat /\ Blocks = 1 .. Len(fn.blocks)
      /\ WellScoped(fn) /\ Rooted(fn)
  BY GraphBlocks DEF BuilderInv, Blocks, Preds, ScopeInv
<1>2. /\ WellScoped(fn') /\ Rooted(fn')
      /\ AllReached(fn) => AllReached(fn')
  BY <1>1
<1>3. CASE StartDominators
  <2>1. phase' = "dominators" /\ visiting' = 1
    BY <1>3 DEF StartDominators
  <2>2. \A b \in Blocks : ~(b < 1)
    BY <1>1
  <2> QED BY <1>1, <1>2, <2>1, <2>2 DEF ScopeInv
<1>4. CASE VisitBlock
  <2>1. phase' = "dominators" /\ phase = "dominators" /\ visiting' = visiting + 1 /\ visiting \in Blocks
        /\ (visiting = entry \/ Preds(visiting) # {})
    BY <1>4 DEF VisitBlock
  <2>2. \A b \in Blocks : b < visiting + 1 => b < visiting \/ b = visiting
    BY <1>1, <2>1
  <2>3. \A b \in Blocks : b # entry /\ b < visiting => Preds(b) # {}
    BY <2>1 DEF ScopeInv
  <2>4. \A b \in Blocks : b # entry /\ b < visiting + 1 => Preds(b) # {}
    BY <2>1, <2>2, <2>3
  <2>5. (\A b \in Blocks : b # entry /\ b < visiting => Preds(b) # {})'
    BY <1>1, <2>1, <2>4
  <2> QED BY <1>2, <2>1, <2>5 DEF ScopeInv
<1>5. CASE EndSweep
  <2>1. phase = "dominators" /\ visiting = Len(fn.blocks) + 1
        /\ \/ phase' = "dominators" /\ visiting' = 1
           \/ phase' = "phis"
    BY <1>5 DEF EndSweep
  <2>2. \A b \in Blocks : b < visiting /\ ~(b < 1)
    BY <1>1, <2>1
  <2>3. AllReached(fn)
    BY <1>1, <2>1, <2>2, RootedAreReached DEF ScopeInv
  <2> QED BY <1>1, <1>2, <2>1, <2>2, <2>3 DEF ScopeInv
<1>6. CASE phase = "phis" /\ phase' = "phis"
  BY <1>2, <1>6 DEF ScopeInv
<1> QED BY <1>3, <1>4, <1>5, <1>6

LEMMA ScopeInvKept == BuilderInv /\ BuilderInv' /\ DominatorInv /\ ScopeInv /\ [Next]_vars => ScopeInv'
<1> SUFFICES ASSUME BuilderInv, BuilderInv', DominatorInv, ScopeInv, [Next]_vars PROVE ScopeInv'
  OBVIOUS
<1>1. ASSUME phase' \notin {"build", "dominators", "phis"}
      PROVE  ScopeInv'
  BY <1>1 DEF ScopeInv
<1>2. ASSUME UNCHANGED <<builder, ssa>>, phase' = phase
      PROVE  ScopeInv'
  <2>1. UNCHANGED <<dialect, fn, open, prog, visiting>>
    BY <1>2 DEF builder, ssa
  <2>2. Blocks' = Blocks /\ \A b \in Blocks : Preds(b)' = Preds(b)
    BY <2>1 DEF Blocks, Preds
  <2>3. InBuild => InBuild'
    BY <2>1 DEF InBuild, Declared
  <2> QED BY <1>2, <2>1, <2>2, <2>3 DEF ScopeInv
<1>3. CASE Build /\ UNCHANGED ssa
  BY <1>3, BuildScopes
<1>4. CASE StartDominators \/ VisitBlock \/ EndSweep
  <2>1. phase \in {"dominators", "phis"} /\ fn' = fn
    BY <1>4 DEF StartDominators, VisitBlock, EndSweep, builder
  <2> QED BY <1>4, <2>1, DominatorsKeepScope
<1>5. CASE AssertionFails
  BY <1>1, <1>5 DEF AssertionFails
<1>6. ASSUME NEW x \in Vars, NEW b \in Blocks, PlacePhis(x, b)
      PROVE  ScopeInv'
  <2>1. phase = "phis" /\ phase' = "phis" /\ fn' = fn
    BY <1>6 DEF PlacePhis, builder
  <2> QED BY <2>1, DominatorsKeepScope
<1>7. CASE InsertPhis
  BY <1>1, <1>7 DEF InsertPhis
<1>8. CASE Rename \/ LeaveBlock \/ \E c \in Blocks : RenameChild(c)
  <2>1. phase' \in {"rename", "renamed", "no reaching definition"}
    BY <1>8 DEF Rename, LeaveBlock, RenameChild
  <2> QED BY ZenonT(60), <1>1, <2>1
<1>9. CASE phase' \in {"run", "returned"}
  BY <1>1, <1>9
<1>10. CASE UNCHANGED vars
  BY <1>2, <1>10 DEF vars
<1> QED BY <1>2, <1>3, <1>4, <1>5, <1>6, <1>7, <1>8, <1>9, <1>10, RunKeeps DEF Next, BuildSSA

\* A variable in scope has a definition that dominates the block being filled and,
\* by the heads of the constructs, the blocks still to fill: whatever an
\* instruction reads was defined on every path to it.
THEOREM ScopeInvariant == Spec => []ScopeInv
<1>1. Init => BuilderInv /\ DominatorInv /\ ScopeInv
  <2>1. Init => phase = "build"
    BY DEF Init, BuilderInit
  <2> QED BY <2>1, BuilderInvHolds, DominatorInvHolds, InBuildHolds DEF ScopeInv
<1>2. BuilderInv /\ DominatorInv /\ ScopeInv /\ [Next]_vars => (BuilderInv /\ DominatorInv /\ ScopeInv)'
  BY BuilderInvKept, DominatorInvKept, ScopeInvKept
<1> QED BY <1>1, <1>2, PTL DEF Spec

=============================================================================
