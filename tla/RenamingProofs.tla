--------------------------- MODULE RenamingProofs ---------------------------
(***************************************************************************)
(* Renaming finds a definition for every use, leaves no reference to a     *)
(* variable, and gives each use a value whose definition dominates it: the *)
(* nearest one, with a phi wherever two definitions meet.                  *)
(*                                                                         *)
(* The calls of rename that are active are on the path of the dominator    *)
(* tree from the entry to the block being renamed, and the stack of a      *)
(* variable has what the blocks of that path define, so whatever ScopeInv  *)
(* says dominates a use is on it.  Every block not yet renamed is below a  *)
(* block still to be entered.                                              *)
(***************************************************************************)
EXTENDS ScopeProofs

-----------------------------------------------------------------------------
(* The dominator tree.                                                     *)
\* D gives each block of B its dominators, which are in a line from the entry.
InLines(D, B) ==
  /\ IsFiniteSet(B) /\ 1 \in B
  /\ D \in [B -> SUBSET B] /\ D[1] = {1}
  /\ \A b \in B : b \in D[b] /\ 1 \in D[b]
  /\ \A b \in B : \A c \in D[b] : D[c] \subseteq D[b]
  /\ \A b, c \in B : b \in D[c] /\ c \in D[b] => b = c
  /\ \A b \in B : \A c, d \in D[b] : c \in D[d] \/ d \in D[c]

\* Where computeDoms ends, dom is dominance.
LEMMA DomIsDominance ==
  ASSUME BuilderInv, DominatorInv, phase = "phis"
  PROVE  \A d, b \in Blocks : d \in dom[b] <=> Dominates(fn, d, b)
<1>1. /\ IsGraph(fn)
      /\ dom \in [Blocks -> SUBSET Blocks] /\ dom[entry] = {entry}
      /\ RuledOutAreReached /\ \A b \in Blocks : Settled(b)
  BY DEF BuilderInv, DominatorInv
<1>2. \A d, b \in Blocks : d \notin dom[b] => b \in LeastReached(fn, d)
  BY <1>1 DEF RuledOutAreReached
<1>3. \A d \in Blocks : \A b \in LeastReached(fn, d) : d \notin dom[b]
  BY <1>1, SettledIsReached
<1> QED BY <1>2, <1>3 DEF Dominates

LEMMA DominatorsInLines ==
  ASSUME BuilderInv, DominatorInv, ScopeInv, phase = "phis"
  PROVE  InLines(dom, Blocks)
<1>1. /\ IsGraph(fn) /\ AllReached(fn)
      /\ dom \in [Blocks -> SUBSET Blocks] /\ dom[1] = {1}
      /\ Blocks = DOMAIN fn.blocks
  BY DEF BuilderInv, DominatorInv, ScopeInv, entry, Blocks
<1>2. \A d, b \in Blocks : d \in dom[b] <=> Dominates(fn, d, b)
  BY DomIsDominance
<1>3. IsFiniteSet(Blocks) /\ 1 \in Blocks
  <2>1. Len(fn.blocks) \in Nat /\ Blocks = 1 .. Len(fn.blocks) /\ 1 \in Blocks
    BY <1>1, GraphBlocks
  <2> QED BY <2>1, FS_Interval
<1>4. \A b \in Blocks : b \in dom[b] /\ 1 \in dom[b]
  BY <1>1, <1>2, <1>3, DominatesItself, EntryDominates
<1>5. ASSUME NEW b \in Blocks, NEW c \in dom[b], NEW d \in dom[c]
      PROVE  d \in dom[b]
  <2>1. c \in Blocks /\ d \in Blocks
    BY <1>1
  <2>2. Dominates(fn, d, c) /\ Dominates(fn, c, b)
    BY <1>2, <2>1
  <2> QED BY <1>1, <1>2, <2>1, <2>2, DominatesThrough
<1>6. ASSUME NEW b \in Blocks, NEW c \in Blocks, b \in dom[c], c \in dom[b]
      PROVE  b = c
  BY <1>1, <1>2, <1>6, DominanceIsOneWay
<1>7. ASSUME NEW b \in Blocks, NEW c \in dom[b], NEW d \in dom[b]
      PROVE  c \in dom[d] \/ d \in dom[c]
  <2>1. c \in Blocks /\ d \in Blocks
    BY <1>1
  <2>2. Dominates(fn, c, b) /\ Dominates(fn, d, b)
    BY <1>2, <2>1
  <2> QED BY <1>1, <1>2, <2>1, <2>2, DominatorsAreInLine
<1> QED BY <1>1, <1>3, <1>4, <1>5, <1>6, <1>7 DEF InLines

\* A block strictly dominated by another has fewer dominators than it.
LEMMA FewerAbove ==
  ASSUME NEW D, NEW B, InLines(D, B), NEW b \in B
  PROVE  /\ Cardinality(D[b]) \in Nat /\ Cardinality(D[b]) <= Cardinality(B)
         /\ \A c \in D[b] : c # b => Cardinality(D[c]) < Cardinality(D[b])
<1>1. ASSUME NEW c \in B
      PROVE  /\ D[c] \subseteq B /\ IsFiniteSet(D[c])
             /\ Cardinality(D[c]) \in Nat /\ Cardinality(D[c]) <= Cardinality(B)
  <2>1. D[c] \in SUBSET B /\ IsFiniteSet(B)
    BY DEF InLines
  <2>2. IsFiniteSet(D[c]) /\ Cardinality(D[c]) <= Cardinality(B)
    BY <2>1, FS_Subset
  <2> QED BY <2>1, <2>2, FS_CardinalityType
<1>2. ASSUME NEW c \in D[b], c # b
      PROVE  Cardinality(D[c]) < Cardinality(D[b])
  <2>1. c \in B /\ D[c] \subseteq D[b]
    BY <1>1 DEF InLines
  <2>2. D[c] # D[b]
    BY <1>2, <2>1 DEF InLines
  <2>3. Cardinality(D[c]) <= Cardinality(D[b]) /\ Cardinality(D[b]) # Cardinality(D[c])
    BY <1>1, <2>1, <2>2, FS_Subset
  <2>4. Cardinality(D[c]) \in Nat /\ Cardinality(D[b]) \in Nat
    BY <1>1, <2>1
  <2> QED BY <2>3, <2>4
<1> QED BY <1>1, <1>2

\* Every block but the entry has an immediate dominator, which the other strict
\* dominators dominate.
LEMMA ParentExists ==
  ASSUME InLines(dom, Blocks), NEW b \in Blocks \ {entry}
  PROVE  idom(b) \in Blocks /\ idom(b) # b /\ dom[b] = dom[idom(b)] \union {b}
<1> DEFINE above == dom[b] \ {b}
           sizes == {Cardinality(dom[d]) : d \in above}
<1>1. above \subseteq Blocks /\ above # {} /\ dom[b] \subseteq Blocks
  BY DEF InLines, entry
<1>2. IsFiniteSet(Blocks) /\ Cardinality(Blocks) \in Nat
  BY FS_CardinalityType DEF InLines
<1>3. sizes \subseteq Nat /\ sizes # {} /\ \A n \in sizes : n <= Cardinality(Blocks)
  BY <1>1, FewerAbove
<1>4. \E m \in sizes : \A n \in sizes : n <= m
  <2> HIDE DEF sizes
  <2> QED BY <1>2, <1>3, GreatestNatural
<1>5. PICK d \in above : \A e \in above : Cardinality(dom[e]) <= Cardinality(dom[d])
  BY <1>4
<1>6. ASSUME NEW x \in dom[b] \ {b, d}
      PROVE  x \in dom[d]
  <2>1. x \in Blocks /\ d \in Blocks /\ Cardinality(dom[x]) <= Cardinality(dom[d])
    BY <1>1, <1>5
  <2>2. x \in dom[d] \/ d \in dom[x]
    BY DEF InLines
  <2>3. CASE d \in dom[x]
    <3>1. Cardinality(dom[d]) < Cardinality(dom[x])
      BY <2>1, <2>3, FewerAbove
    <3>2. Cardinality(dom[d]) \in Nat /\ Cardinality(dom[x]) \in Nat
      BY <2>1, FewerAbove
    <3> QED BY <2>1, <3>1, <3>2
  <2> QED BY <2>2, <2>3
<1>7. idom(b) \in above /\ \A x \in dom[b] \ {b, idom(b)} : x \in dom[idom(b)]
  BY <1>6 DEF idom
<1> HIDE DEF sizes
<1>8. dom[idom(b)] \subseteq dom[b] /\ idom(b) \in dom[idom(b)] /\ b \in dom[b]
  BY <1>1, <1>7 DEF InLines
<1> QED BY <1>1, <1>7, <1>8

\* A block strictly dominated by b is dominated by a child of b.
LEMMA ChildDominates ==
  ASSUME InLines(dom, Blocks), NEW c \in Blocks, NEW b \in dom[c], b # c
  PROVE  \E a \in domTree(b) : a \in dom[c]
<1> DEFINE between == {a \in dom[c] : b \in dom[a] /\ a # b}
           sizes == {Cardinality(dom[a]) : a \in between}
<1>1. dom[c] \subseteq Blocks /\ c \in between
  BY DEF InLines
<1>2. sizes \subseteq Nat /\ sizes # {}
  BY <1>1, FewerAbove
<1>3. \E m \in sizes : \A n \in sizes : m <= n
  <2> HIDE DEF sizes
  <2> QED BY <1>2, LeastNatural
<1>4. PICK a \in between : \A e \in between : Cardinality(dom[a]) <= Cardinality(dom[e])
  BY <1>3
<1> HIDE DEF sizes
<1>5. a \in Blocks \ {entry}
  BY <1>1 DEF InLines, entry
<1>6. idom(a) \in Blocks /\ idom(a) # a /\ dom[a] = dom[idom(a)] \union {a}
  BY <1>5, ParentExists
<1>7. idom(a) = b
  <2> SUFFICES ASSUME idom(a) # b
               PROVE  FALSE
    OBVIOUS
  <2>1. idom(a) \in dom[a] /\ b \in dom[idom(a)]
    BY <1>6 DEF InLines
  <2>2. idom(a) \in between
    BY <2>1 DEF InLines
  <2>3. Cardinality(dom[idom(a)]) < Cardinality(dom[a])
    BY <1>5, <1>6, <2>1, FewerAbove
  <2>4. Cardinality(dom[a]) <= Cardinality(dom[idom(a)])
    BY <1>4, <2>2
  <2>5. Cardinality(dom[idom(a)]) \in Nat /\ Cardinality(dom[a]) \in Nat
    BY <1>5, <1>6, FewerAbove
  <2> QED BY <2>3, <2>4, <2>5
<1> QED BY <1>5, <1>7 DEF domTree

-----------------------------------------------------------------------------
(* What renaming finds: the operands, and what is above them in the tree.  *)
\* A variable defined, or a value made, in a block that dominates the end of b.
KnownAtEnd(f, D, o, b) ==
  IF IsRef(o) THEN \E d \in D[b] : Has(f, d, o.ref) ELSE \E d \in D[b] : Makes(f, d, o.value)

\* The same before instruction k of b.
KnownBefore(f, D, o, b, k) ==
  IF IsRef(o)
  THEN \/ \E j \in DOMAIN f.blocks[b].code : j < k /\ f.blocks[b].code[j].sym = o.ref
       \/ \E d \in D[b] \ {b} : Has(f, d, o.ref)
  ELSE \E d \in D[b] : Makes(f, d, o.value)

\* An operand of a phi comes from a block with an edge to it.
ArgsKnown(f, D, b, k) ==
  LET i == f.blocks[b].code[k]
  IN  /\ i.op = "bind" => 1 \in DOMAIN i.args
      /\ \A j \in DOMAIN i.args :
           IF IsPhi(i)
           THEN /\ j \in DOMAIN i.preds /\ i.preds[j] \in DOMAIN f.blocks
                /\ b \in ToSet(f.blocks[i.preds[j]].succs)
                /\ KnownAtEnd(f, D, i.args[j], i.preds[j])
           ELSE KnownBefore(f, D, i.args[j], b, k)
CodeKnown(f, D) ==
  /\ FunctionFields(f)
  /\ \A b \in DOMAIN f.blocks :
       /\ f.blocks[b].code \in Seq(Instruction) /\ f.blocks[b].term.args \in Seq(Operand)
       /\ \A i \in DOMAIN f.blocks[b].term.args : KnownAtEnd(f, D, f.blocks[b].term.args[i], b)
       /\ \A k \in DOMAIN f.blocks[b].code : ArgsKnown(f, D, b, k)

\* What building promised, in terms of dom.
LEMMA BuiltIsKnown ==
  ASSUME BuilderInv, DominatorInv, ScopeInv, phase = "phis"
  PROVE  CodeKnown(fn, dom) /\ \A b \in Blocks : \A x \in fn.blocks[b].defs : \E d \in dom[b] : Has(fn, d, x)
<1>1. /\ IsGraph(fn) /\ fn \in Function /\ WellScoped(fn) /\ Blocks = DOMAIN fn.blocks
      /\ \A b \in Blocks : fn.blocks[b] \in Block
  <2>1. IsGraph(fn) /\ fn \in Function /\ WellScoped(fn)
    BY DEF BuilderInv, ScopeInv, IsGraph, HasEdges
  <2>2. \A b \in Blocks : fn.blocks[b] \in Block
    BY <2>1, LenProperties, ElementOfSeq DEF Function, Blocks
  <2> QED BY <2>1, <2>2 DEF Blocks
<1>2. \A d, b \in Blocks : Dominates(fn, d, b) => d \in dom[b]
  BY DomIsDominance
<1>3. \A b \in Blocks : b \in dom[b]
  BY <1>1, <1>2, DominatesItself
<1>4. \A b \in Blocks : \A x : Reaches(fn, b, x) => \E d \in dom[b] : Has(fn, d, x)
  BY <1>1, <1>2 DEF Reaches
<1>5. \A b \in Blocks : \A o : Comes(fn, o, b) => KnownAtEnd(fn, dom, o, b)
  BY <1>3, <1>4 DEF Comes, KnownAtEnd
<1>6. \A b \in Blocks : \A k, o : IsRef(o) /\ Before(fn, b, k, o.ref) => KnownBefore(fn, dom, o, b, k)
  BY <1>1, <1>2 DEF Before, KnownBefore
<1>7. ASSUME NEW b \in Blocks, NEW k \in DOMAIN fn.blocks[b].code
      PROVE  ArgsKnown(fn, dom, b, k)
  <2> DEFINE i == fn.blocks[b].code[k]
  <2>1. ScopedInstr(fn, b, k)
    BY SMTT(30), <1>1 DEF WellScoped, Scoped
  <2>2. CASE IsPhi(i)
    <3>1. ASSUME NEW j \in DOMAIN i.args
          PROVE  /\ j \in DOMAIN i.preds /\ i.preds[j] \in DOMAIN fn.blocks
                 /\ b \in ToSet(fn.blocks[i.preds[j]].succs)
                 /\ KnownAtEnd(fn, dom, i.args[j], i.preds[j])
      <4>1. j \in DOMAIN i.preds /\ i.preds[j] \in Blocks /\ Comes(fn, i.args[j], i.preds[j])
        BY <1>1, <2>1, <2>2 DEF ScopedInstr
      <4>2. i.preds = fn.blocks[b].preds
        BY <1>1, <2>2 DEF IsGraph, HasEdges, PhisMatchPredecessors
      <4>3. i.preds[j] \in ToSet(fn.blocks[b].preds)
        BY <4>1, <4>2 DEF ToSet
      <4> QED BY ZenonT(60), <1>1, <1>5, <4>1, <4>3, PredecessorsLead
    <3>2. i.op # "bind"
      BY <2>2 DEF IsPhi
    <3> QED BY ZenonT(60), <2>2, <3>1, <3>2 DEF ArgsKnown
  <2>3. CASE ~IsPhi(i)
    <3>1. /\ i.op = "bind" => 1 \in DOMAIN i.args
          /\ \A j \in DOMAIN i.args : IsRef(i.args[j]) /\ Before(fn, b, k, i.args[j].ref)
      BY <2>1, <2>3 DEF ScopedInstr
    <3> QED BY <1>6, <2>3, <3>1 DEF ArgsKnown
  <2> QED BY <2>2, <2>3
<1>8. FunctionFields(fn)
  BY <1>1, BlocksHaveFields
<1>9. \A b \in Blocks : /\ fn.blocks[b].code \in Seq(Instruction)
                        /\ fn.blocks[b].term.args \in Seq(Operand)
  <2> TAKE b \in Blocks
  <2>1. fn.blocks[b].code \in Seq(Instruction) /\ fn.blocks[b].term \in Terminator
    BY <1>1 DEF Block
  <2>2. Open.args = << >> /\ << >> \in Seq(Operand)
    BY DEF Open
  <2>3. fn.blocks[b].term # Open => fn.blocks[b].term.args \in Seq(Operand)
    BY <2>1 DEF Terminator
  <2> QED BY <2>1, <2>2, <2>3
<1>10. \A b \in Blocks : \A i \in DOMAIN fn.blocks[b].term.args : KnownAtEnd(fn, dom, fn.blocks[b].term.args[i], b)
  BY <1>1, <1>5 DEF WellScoped, Scoped
<1>11. \A b \in Blocks : \A x \in fn.blocks[b].defs : \E d \in dom[b] : Has(fn, d, x)
  BY <1>1, <1>4 DEF WellScoped, Scoped
<1> QED BY <1>1, <1>7, <1>8, <1>9, <1>10, <1>11 DEF CodeKnown

\* A finite set as a sequence.
LEMMA SetToSeqHolds ==
  ASSUME NEW S, IsFiniteSet(S)
  PROVE  /\ SetToSeq(S) \in Seq(S)
         /\ \A e \in S : \E k \in DOMAIN SetToSeq(S) : SetToSeq(S)[k] = e
<1> DEFINE n == Cardinality(S)
           s == SetToSeq(S)
<1>1. PICK f \in Bijection(1 .. n, S) : TRUE
  BY FS_CardinalityType DEF ExistsBijection
<1>2. f \in [1 .. n -> S] /\ IsInjective(f)
  BY <1>1 DEF Bijection, Injection, IsInjective
<1>3. s \in [1 .. n -> S] /\ IsInjective(s)
  BY <1>2 DEF SetToSeq
<1> HIDE DEF s
<1>4. s \in Injection(1 .. n, S)
  BY <1>3 DEF Injection, IsInjective
<1>5. n \in Nat /\ Cardinality(1 .. n) = n
  <2>1. n \in Nat
    BY FS_CardinalityType
  <2> HIDE DEF n
  <2> QED BY <2>1, FS_Interval
<1>6. s \in Surjection(1 .. n, S)
  BY <1>4, <1>5, FS_Injection
<1>7. DOMAIN s = 1 .. n /\ \A e \in S : \E k \in 1 .. n : s[k] = e
  BY <1>3, <1>6 DEF Surjection
<1> QED BY <1>3, <1>5, <1>7 DEF s

\* g is f with phis put before the code of each block, whose operands are
\* variables known where they come from.
NewPhi(f, D, b, i) ==
  /\ i \in Instruction /\ IsPhi(i)
  /\ i.preds = f.blocks[b].preds /\ DOMAIN i.args = DOMAIN i.preds
  /\ \A j \in DOMAIN i.args : IsRef(i.args[j]) /\ KnownAtEnd(f, D, i.args[j], i.preds[j])
PhisFirst(f, D, g) ==
  /\ FunctionFields(g) /\ SameGraph(f, g)
  /\ \A b \in DOMAIN f.blocks :
       /\ g.blocks[b].term = f.blocks[b].term
       /\ \E added \in Seq(Instruction) :
            /\ g.blocks[b].code = added \o f.blocks[b].code
            /\ \A k \in DOMAIN added : NewPhi(f, D, b, added[k])

LEMMA PhisFirstKeepsKnown ==
  ASSUME NEW f, IsGraph(f), NEW D \in [DOMAIN f.blocks -> SUBSET DOMAIN f.blocks],
         CodeKnown(f, D), NEW g, PhisFirst(f, D, g)
  PROVE  CodeKnown(g, D)
<1>1. /\ DOMAIN g.blocks = DOMAIN f.blocks
      /\ \A b \in DOMAIN f.blocks : g.blocks[b].succs = f.blocks[b].succs
  BY DEF PhisFirst, SameGraph, SameExits
<1>2. ASSUME NEW b \in DOMAIN f.blocks
      PROVE  \E added \in Seq(Instruction) :
               LET n == Len(added)
                   old == f.blocks[b].code
                   code == g.blocks[b].code
               IN  /\ code \in Seq(Instruction) /\ n \in Nat
                   /\ DOMAIN old = 1 .. Len(old) /\ Len(old) \in Nat
                   /\ DOMAIN code = 1 .. n + Len(old)
                   /\ \A k \in 1 .. n : NewPhi(f, D, b, code[k])
                   /\ \A k \in DOMAIN old : code[n + k] = old[k]
  <2> DEFINE old == f.blocks[b].code
  <2>1. PICK added \in Seq(Instruction) :
          /\ g.blocks[b].code = added \o old
          /\ \A k \in DOMAIN added : NewPhi(f, D, b, added[k])
    BY DEF PhisFirst
  <2>2. old \in Seq(Instruction)
    BY DEF CodeKnown
  <2> HIDE DEF old
  <2>3. /\ added \o old \in Seq(Instruction) /\ Len(added) \in Nat /\ Len(old) \in Nat
        /\ DOMAIN added = 1 .. Len(added) /\ DOMAIN old = 1 .. Len(old)
        /\ Len(added \o old) = Len(added) + Len(old)
        /\ DOMAIN (added \o old) = 1 .. Len(added) + Len(old)
        /\ \A k \in 1 .. Len(added) + Len(old) :
             (added \o old)[k] = IF k <= Len(added) THEN added[k] ELSE old[k - Len(added)]
    BY ONLY <2>1, <2>2, ConcatProperties, LenProperties
  <2>4. \A k \in 1 .. Len(old) : (added \o old)[Len(added) + k] = old[k]
    <3> TAKE k \in 1 .. Len(old)
    <3>1. /\ Len(added) + k \in 1 .. Len(added) + Len(old) /\ ~(Len(added) + k <= Len(added))
          /\ (Len(added) + k) - Len(added) = k
      BY <2>3
    <3> QED BY <2>3, <3>1
  <2>5. \A k \in 1 .. Len(added) : (added \o old)[k] = added[k]
    <3> TAKE k \in 1 .. Len(added)
    <3>1. k \in 1 .. Len(added) + Len(old) /\ k <= Len(added)
      BY <2>3
    <3> QED BY <2>3, <3>1
  <2> QED BY ZenonT(60), <2>1, <2>3, <2>4, <2>5 DEF old
<1>3. \A b \in DOMAIN f.blocks : /\ \A x : Has(f, b, x) => Has(g, b, x)
                                 /\ \A v : Makes(f, b, v) => Makes(g, b, v)
  <2> TAKE b \in DOMAIN f.blocks
  <2>1. PICK added \in Seq(Instruction) :
          /\ Len(added) \in Nat /\ DOMAIN f.blocks[b].code = 1 .. Len(f.blocks[b].code)
          /\ Len(f.blocks[b].code) \in Nat
          /\ DOMAIN g.blocks[b].code = 1 .. Len(added) + Len(f.blocks[b].code)
          /\ \A k \in DOMAIN f.blocks[b].code : g.blocks[b].code[Len(added) + k] = f.blocks[b].code[k]
    BY <1>2
  <2>2. \A k \in DOMAIN f.blocks[b].code : Len(added) + k \in DOMAIN g.blocks[b].code
    BY <2>1
  <2> QED BY <2>1, <2>2 DEF Has, Makes
<1>4. ASSUME NEW b \in DOMAIN f.blocks, NEW o, KnownAtEnd(f, D, o, b)
      PROVE  KnownAtEnd(g, D, o, b)
  BY <1>3, <1>4 DEF KnownAtEnd
<1>5. ASSUME NEW b \in DOMAIN f.blocks, NEW k \in DOMAIN g.blocks[b].code
      PROVE  ArgsKnown(g, D, b, k)
  <2> DEFINE old == f.blocks[b].code
             code == g.blocks[b].code
  <2>1. PICK added \in Seq(Instruction) :
          /\ code \in Seq(Instruction) /\ Len(added) \in Nat
          /\ DOMAIN old = 1 .. Len(old) /\ Len(old) \in Nat
          /\ DOMAIN code = 1 .. Len(added) + Len(old)
          /\ \A j \in 1 .. Len(added) : NewPhi(f, D, b, code[j])
          /\ \A j \in DOMAIN old : code[Len(added) + j] = old[j]
    BY SMTT(30), <1>2
  <2>2. CASE k \in 1 .. Len(added)
    <3>1. NewPhi(f, D, b, code[k])
      BY SMTT(30), <2>1, <2>2
    <3>2. ASSUME NEW j \in DOMAIN code[k].args
          PROVE  /\ j \in DOMAIN code[k].preds /\ code[k].preds[j] \in DOMAIN g.blocks
                 /\ b \in ToSet(g.blocks[code[k].preds[j]].succs)
                 /\ KnownAtEnd(g, D, code[k].args[j], code[k].preds[j])
      <4>1. /\ j \in DOMAIN f.blocks[b].preds /\ code[k].preds = f.blocks[b].preds
            /\ KnownAtEnd(f, D, code[k].args[j], code[k].preds[j])
        BY <3>1, <3>2 DEF NewPhi
      <4>2. code[k].preds[j] \in ToSet(f.blocks[b].preds)
        BY <4>1 DEF ToSet
      <4>3. code[k].preds[j] \in DOMAIN f.blocks
        BY <4>2, GraphBlocks
      <4>4. b \in ToSet(f.blocks[code[k].preds[j]].succs)
        BY SMTT(30), <4>2, <4>3, PredecessorsLead
      <4> QED BY <1>1, <1>4, <4>1, <4>3, <4>4
    <3> QED BY <3>1, <3>2 DEF ArgsKnown, NewPhi, IsPhi
  <2>3. CASE k \notin 1 .. Len(added)
    <3> DEFINE n == Len(added)
               m == k - n
    <3>1. m \in DOMAIN old /\ k = n + m /\ n \in Nat
      BY <2>1, <2>3
    <3>2. code[k] = old[m] /\ ArgsKnown(f, D, b, m)
      BY <2>1, <3>1 DEF CodeKnown
    <3>3. ASSUME NEW o, KnownBefore(f, D, o, b, m)
          PROVE  KnownBefore(g, D, o, b, k)
      <4>1. ASSUME NEW j \in DOMAIN old, j < m, IsRef(o), old[j].sym = o.ref
            PROVE  n + j \in DOMAIN code /\ n + j < k /\ code[n + j].sym = o.ref
        <5>1. j \in 1 .. Len(old) /\ m \in 1 .. Len(old) /\ Len(old) \in Nat
          BY <2>1, <3>1
        <5> HIDE DEF m, n, old
        <5>2. n + j \in 1 .. n + Len(old) /\ n + j < k
          BY <3>1, <4>1, <5>1
        <5> QED BY <2>1, <4>1, <5>2 DEF n
      <4> QED BY <1>3, <3>3, <4>1 DEF KnownBefore
    <3> QED BY <1>1, <1>4, <3>2, <3>3 DEF ArgsKnown
  <2> QED BY <2>2, <2>3
<1>6. ASSUME NEW b \in DOMAIN f.blocks
      PROVE  /\ g.blocks[b].code \in Seq(Instruction) /\ g.blocks[b].term.args \in Seq(Operand)
             /\ \A i \in DOMAIN g.blocks[b].term.args : KnownAtEnd(g, D, g.blocks[b].term.args[i], b)
  <2>1. g.blocks[b].term = f.blocks[b].term
    BY DEF PhisFirst
  <2>2. g.blocks[b].code \in Seq(Instruction)
    BY <1>2
  <2> QED BY <1>4, <2>1, <2>2 DEF CodeKnown
<1> QED BY <1>1, <1>5, <1>6 DEF CodeKnown, PhisFirst

\* A phi of insertPhis for x.
IsMerge(i, x) == i.op = "phi" /\ i.sym = x /\ i.at = << >>
HasMerge(f, b, x) == \E k \in DOMAIN f.blocks[b].code : IsMerge(f.blocks[b].code[k], x)

\* insertPhis puts phis first whose operands every predecessor has, and all of these.
LEMMA InsertPhisPutsPhisFirst ==
  ASSUME BuilderInv, DominatorInv, ScopeInv, phase = "phis"
  PROVE  /\ PhisFirst(fn, dom, insertPhis(fn))
         /\ \A b \in Blocks : \A x \in Vars :
              x \in phiBlocks[b] /\ EveryPredecessorHasDefinition(b, x) => HasMerge(insertPhis(fn), b, x)
<1> DEFINE W == {w \in Blocks \X Vars : w[2] \in phiBlocks[w[1]] /\ EveryPredecessorHasDefinition(w[1], w[2])}
           wanted == SetToSeq(W)
           phi(i) == LET x == wanted[i][2]
                         preds == fn.blocks[wanted[i][1]].preds
                     IN  Instr("phi", fn.nextId + i - 1, [k \in DOMAIN preds |-> Ref(x)], preds, x, << >>)
           in(b) == [i \in {i \in DOMAIN wanted : wanted[i][1] = b} |-> phi(i)]
           phisOf(b) == {in(b)[i] : i \in DOMAIN in(b)}
           g == insertPhis(fn)
<1>1. /\ IsGraph(fn) /\ fn \in Function /\ Blocks = DOMAIN fn.blocks /\ FunctionFields(fn)
      /\ fn.nextId \in Nat
  <2>1. IsGraph(fn) /\ fn \in Function
    BY DEF BuilderInv, IsGraph, HasEdges
  <2> QED BY <2>1, BlocksHaveFields DEF Function, Blocks
<1>2. IsFiniteSet(W)
  <2>1. IsFiniteSet(Blocks) /\ IsFiniteSet(Vars)
    BY DominatorsInLines, ControlFlowAssumption DEF InLines
  <2>2. IsFiniteSet(Blocks \X Vars)
    BY <2>1, FS_Product
  <2>3. W \in SUBSET (Blocks \X Vars)
    OBVIOUS
  <2> HIDE DEF W
  <2> QED BY <2>2, <2>3, FS_Subset
<1>3. /\ Len(wanted) \in Nat /\ DOMAIN wanted = 1 .. Len(wanted)
      /\ \A i \in DOMAIN wanted : wanted[i] \in W
      /\ \A w \in W : \E i \in DOMAIN wanted : wanted[i] = w
  <2> HIDE DEF W
  <2>1. wanted \in Seq(W) /\ \A w \in W : \E i \in DOMAIN wanted : wanted[i] = w
    BY <1>2, SetToSeqHolds
  <2> HIDE DEF wanted
  <2> QED BY <2>1, LenProperties, ElementOfSeq
<1>4. SameGraph(fn, g) /\ FunctionFields(g)
  BY SMTT(30), <1>1, insertPhisKeepsGraph
<1>5. \A b \in Blocks : g.blocks[b] = [fn.blocks[b] EXCEPT !.code = SetToSeq(phisOf(b)) \o @]
  BY <1>1 DEF insertPhis, FunctionFields
<1> HIDE DEF wanted, g
<1>6. ASSUME NEW i \in DOMAIN wanted
      PROVE  NewPhi(fn, dom, wanted[i][1], phi(i)) /\ IsMerge(phi(i), wanted[i][2])
  <2> DEFINE b == wanted[i][1]
             x == wanted[i][2]
             preds == fn.blocks[b].preds
  <2>1. b \in Blocks /\ x \in Vars /\ EveryPredecessorHasDefinition(b, x)
    BY <1>3
  <2>2. /\ preds \in Seq(Nat) /\ DOMAIN preds = 1 .. Len(preds) /\ Len(preds) \in Nat
        /\ ToSet(preds) \subseteq Blocks
    <3>1. fn.blocks[b] \in Block
      BY <1>1, <2>1, ElementOfSeq, LenProperties DEF Function
    <3>2. preds \in Seq(Nat)
      BY <3>1 DEF Block
    <3> QED BY <1>1, <2>1, <3>2, LenProperties, GraphBlocks
  <2> HIDE DEF b, x
  <2>3. /\ phi(i) = Instr("phi", fn.nextId + i - 1, [k \in DOMAIN preds |-> Ref(x)], preds, x, << >>)
    BY DEF b, x
  <2>4. fn.nextId + i - 1 \in Nat
    BY <1>1, <1>3
  <2> DEFINE args == [k \in DOMAIN preds |-> Ref(x)]
  <2>5. args \in Seq(Operand)
    <3>1. Ref(x) \in Operand
      BY <2>1 DEF Operand
    <3>2. args \in [1 .. Len(preds) -> Operand]
      BY <2>2, <3>1
    <3> HIDE DEF args
    <3> QED BY <2>2, <3>2
  <2>6. << >> \in Seq(Nat)
    OBVIOUS
  <2>7. /\ phi(i) \in Instruction /\ IsPhi(phi(i)) /\ phi(i).preds = preds /\ phi(i).args = args
        /\ IsMerge(phi(i), x)
    <3> HIDE DEF phi, preds, args
    <3> QED BY <2>1, <2>2, <2>3, <2>4, <2>5, <2>6 DEF Instr, Instruction, IsPhi, IsMerge, args
  <2>8. DOMAIN args = DOMAIN preds /\ \A j \in DOMAIN preds : args[j] = Ref(x)
    OBVIOUS
  <2>9. ASSUME NEW j \in DOMAIN preds
        PROVE  KnownAtEnd(fn, dom, Ref(x), preds[j])
    <3>1. preds[j] \in Preds(b)
      BY DEF Preds, ToSet
    <3>2. PICK d \in dom[preds[j]] : d \in Blocks /\ x \in fn.blocks[d].defs
      BY <2>1, <3>1 DEF EveryPredecessorHasDefinition, DefBlocks
    <3>3. PICK e \in dom[d] : Has(fn, e, x)
      BY <3>2, BuiltIsKnown
    <3>4. preds[j] \in Blocks /\ e \in dom[preds[j]]
      BY <1>1, <2>2, <3>1, <3>2, <3>3, DominatorsInLines DEF InLines, Preds
    <3> QED BY <3>3, <3>4, RefSays DEF KnownAtEnd
  <2> HIDE DEF phi, preds, args
  <2> QED BY <2>7, <2>8, <2>9, RefSays DEF NewPhi, b, x, preds
<1>7. ASSUME NEW b \in Blocks
      PROVE  /\ g.blocks[b].term = fn.blocks[b].term
             /\ \E added \in Seq(Instruction) :
                  /\ g.blocks[b].code = added \o fn.blocks[b].code
                  /\ \A k \in DOMAIN added : NewPhi(fn, dom, b, added[k])
                  /\ \A x \in Vars : <<b, x>> \in W => \E k \in DOMAIN added : IsMerge(added[k], x)
  <2> DEFINE S == phisOf(b)
             I == {i \in DOMAIN wanted : wanted[i][1] = b}
             added == SetToSeq(S)
  <2>1. S = {in(b)[i] : i \in I} /\ \A i \in I : in(b)[i] = phi(i)
    OBVIOUS
  <2>2. \A p \in S : NewPhi(fn, dom, b, p)
    <3> HIDE DEF phi, in
    <3> QED BY <1>6, <2>1
  <2>3. IsFiniteSet(S)
    <3>1. IsFiniteSet(I)
      <4>1. IsFiniteSet(1 .. Len(wanted)) /\ I \in SUBSET (1 .. Len(wanted))
        BY <1>3, FS_Interval
      <4> QED BY <4>1, FS_Subset
    <3> HIDE DEF I, phi
    <3>2. in(b) \in Surjection(I, S)
      BY SMTT(30), <2>1 DEF Surjection, I
    <3> QED BY <3>1, <3>2, FS_Surjection
  <2>4. g.blocks[b] = [fn.blocks[b] EXCEPT !.code = added \o @]
    BY <1>5
  <2>5. ASSUME NEW x \in Vars, <<b, x>> \in W
        PROVE  \E p \in S : IsMerge(p, x)
    <3> HIDE DEF W, phi, in
    <3>1. PICK i \in DOMAIN wanted : wanted[i] = <<b, x>>
      BY <1>3, <2>5
    <3>2. wanted[i][1] = b /\ wanted[i][2] = x
      BY <3>1
    <3> QED BY <1>6, <2>1, <3>2
  <2> HIDE DEF S
  <2>6. added \in Seq(S) /\ \A p \in S : \E k \in DOMAIN added : added[k] = p
    BY <2>3, SetToSeqHolds
  <2>7. \A x \in Vars : <<b, x>> \in W => \E k \in DOMAIN added : IsMerge(added[k], x)
    <3> HIDE DEF W, added
    <3> QED BY <2>6, <2>5
  <2> HIDE DEF added
  <2>8. \A k \in DOMAIN added : added[k] \in S
    BY <2>6, LenProperties, ElementOfSeq
  <2>9. added \in Seq(Instruction)
    <3>1. S \subseteq Instruction
      BY <2>2 DEF NewPhi
    <3> QED BY <2>6, <3>1
  <2>10. g.blocks[b].term = fn.blocks[b].term /\ g.blocks[b].code = added \o fn.blocks[b].code
    BY <1>1, <2>4 DEF FunctionFields, HasFields, BlockFields
  <2> QED BY <2>2, <2>8, <2>9, <2>10, <2>7
<1>8. ASSUME NEW b \in Blocks, NEW x \in Vars, x \in phiBlocks[b], EveryPredecessorHasDefinition(b, x)
      PROVE  HasMerge(g, b, x)
  <2>1. <<b, x>> \in W
    BY <1>8
  <2>2. PICK added \in Seq(Instruction) :
          /\ g.blocks[b].code = added \o fn.blocks[b].code
          /\ \E k \in DOMAIN added : IsMerge(added[k], x)
    BY <1>7, <2>1
  <2>3. fn.blocks[b].code \in Seq(Instruction)
    BY <1>1, BuiltIsKnown DEF CodeKnown
  <2>4. PICK k \in DOMAIN added : IsMerge(added[k], x)
    BY <2>2
  <2>5. k \in DOMAIN g.blocks[b].code /\ g.blocks[b].code[k] = added[k]
    <3> DEFINE old == fn.blocks[b].code
    <3>1. added \in Seq(Instruction) /\ old \in Seq(Instruction) /\ k \in DOMAIN added
      BY <2>3
    <3> HIDE DEF old
    <3>2. k \in DOMAIN (added \o old) /\ (added \o old)[k] = added[k]
      BY ONLY <3>1, ConcatProperties, LenProperties
    <3> QED BY <2>2, <3>2 DEF old
  <2> QED BY <2>4, <2>5 DEF HasMerge
<1>9. PhisFirst(fn, dom, g)
  BY <1>1, <1>4, <1>7 DEF PhisFirst
<1> QED BY <1>8, <1>9 DEF g

-----------------------------------------------------------------------------
(* Renaming the code of a block.                                           *)
LEMMA ValueSays == \A v : ~IsRef(Value(v)) /\ Value(v).value = v
BY DEF IsRef, Value

\* A value some block above the end of b makes.
MadeAbove(f, D, b, v) == \E d \in D[b] : Makes(f, d, v)
StackKnown(f, D, stack, b) == \A x \in Vars : \A m \in DOMAIN stack[x] : MadeAbove(f, D, b, stack[x][m])

IsValue(f, D, b, o) == o \in Operand /\ ~IsRef(o) /\ o.value \in Nat /\ MadeAbove(f, D, b, o.value)

\* What stands for o: a value in the place of a variable.
Replaces(f, D, b, p, o) == p = o \/ (IsRef(o) /\ IsValue(f, D, b, p))

\* An instruction whose operands, unless it is a phi, have been looked up.
LookedUp(f, D, b, new, old) ==
  /\ new.op = old.op /\ new.dst = old.dst /\ new.preds = old.preds /\ new.sym = old.sym /\ new.at = old.at
  /\ DOMAIN new.args = DOMAIN old.args
  /\ IF IsPhi(old) THEN new.args = old.args
     ELSE \A i \in DOMAIN new.args : IsValue(f, D, b, new.args[i]) /\ Replaces(f, D, b, new.args[i], old.args[i])

\* After n instructions of b: nothing has failed, and each variable they define has
\* been pushed on the stack it had.
Renamings == [failed : BOOLEAN, stack : [Vars -> Seq(Nat)], pushed : Seq(Vars), code : Seq(Instruction)]
Grown(old, new, n) == Len(new) = Len(old) + n /\ \A m \in DOMAIN old : new[m] = old[m]
RenamedUpTo(f, D, stack, b, r, n) ==
  /\ r \in Renamings /\ ~r.failed
  /\ \A x \in Vars : Grown(stack[x], r.stack[x], Count(r.pushed, x))
  /\ StackKnown(f, D, r.stack, b)
  /\ \A k \in 1 .. n : f.blocks[b].code[k].sym # None => r.stack[f.blocks[b].code[k].sym] # << >>
  /\ Len(r.code) = n
  /\ \A k \in 1 .. n : LookedUp(f, D, b, r.code[k], f.blocks[b].code[k])

\* i gives v to the variable it defines, for good: what it binds is a value.
GivesValue(i, v) == v = Given(i) /\ (i.op = "bind" => ~IsRef(i.args[1]))

\* Each variable that the first n instructions define has on top what the last of
\* them gave it; of the others nothing has been pushed.
TopsGiven(r, n) ==
  \A x \in Vars :
    LET given == {k \in 1 .. n : r.code[k].sym = x}
    IN  IF given = {} THEN Count(r.pushed, x) = 0
        ELSE \E k \in given : /\ \A j \in given : j <= k
                              /\ GivesValue(r.code[k], r.stack[x][Len(r.stack[x])])

\* With new, an instruction renamed, r becomes t.
Renames(r, new, t) ==
  /\ new \in Instruction
  /\ new.op = "bind" => ~IsRef(new.args[1])
  /\ t.code = Append(r.code, new)
  /\ t.stack = PushTo(r.stack, new.sym, Given(new))
  /\ t.pushed = IF new.sym = None THEN r.pushed ELSE Append(r.pushed, new.sym)

\* The stack has what the blocks above b define.
StackBelow(f, D, stack, b) ==
  /\ stack \in [Vars -> Seq(Nat)]
  /\ StackKnown(f, D, stack, b)
  /\ \A x \in Vars : \A d \in D[b] \ {b} : Has(f, d, x) => stack[x] # << >>

\* What a variable with a stack is looked up to.
LEMMA LookupSays ==
  ASSUME NEW f, NEW D, NEW stack \in [Vars -> Seq(Nat)], NEW b, StackKnown(f, D, stack, b),
         NEW o \in Operand, Bound(stack, o), ~IsRef(o) => MadeAbove(f, D, b, o.value)
  PROVE  IsValue(f, D, b, Lookup(stack, o))
<1> DEFINE p == Lookup(stack, o)
<1>1. CASE IsRef(o)
  <2>1. PICK x \in Vars : o = Ref(x)
    BY <1>1, ValueSays DEF Operand
  <2>2. o.ref = x /\ stack[x] \in Seq(Nat) /\ stack[x] # << >>
    BY <1>1, <2>1, RefSays DEF Bound
  <2> DEFINE s == stack[x]
  <2>3. Last(s) = s[Len(s)] /\ Last(s) \in Nat /\ Len(s) \in DOMAIN s
    <3>1. s \in Seq(Nat) /\ s # << >>
      BY <2>2
    <3> HIDE DEF s
    <3>2. Last(s) = s[Len(s)] /\ Last(s) \in Nat /\ DOMAIN s = 1 .. Len(s) /\ Len(s) \in Nat \ {0}
      BY <3>1, FrontIsPrefix
    <3> QED BY <3>2
  <2>4. MadeAbove(f, D, b, Last(s))
    BY <2>3 DEF StackKnown
  <2>5. p = Value(Last(s))
    BY <1>1, <2>2 DEF Lookup
  <2> HIDE DEF p, s
  <2> QED BY <2>3, <2>4, <2>5, ValueSays DEF Operand, IsValue, p
<1>2. CASE ~IsRef(o)
  <2>1. PICK v \in Nat : o = Value(v)
    BY <1>2, RefSays DEF Operand
  <2>2. p = o
    BY <1>2 DEF Lookup
  <2> HIDE DEF p
  <2> QED BY <1>2, <2>1, <2>2, ValueSays DEF IsValue, p
<1> QED BY <1>1, <1>2

\* It stands for what was looked up.
LEMMA LookupReplaces ==
  ASSUME NEW f, NEW D, NEW b, NEW stack, NEW o, IsValue(f, D, b, Lookup(stack, o))
  PROVE  Replaces(f, D, b, Lookup(stack, o), o)
BY DEF Lookup, Replaces

\* One instruction.
LEMMA RenamesInstruction ==
  ASSUME NEW f, NEW D, NEW b \in DOMAIN f.blocks, b \in D[b], CodeKnown(f, D),
         NEW stack, StackBelow(f, D, stack, b),
         NEW n \in Nat, n + 1 \in DOMAIN f.blocks[b].code,
         NEW r, RenamedUpTo(f, D, stack, b, r, n)
  PROVE  LET t == renameInstr(r, f.blocks[b].code[n + 1])
         IN  RenamedUpTo(f, D, stack, b, t, n + 1) /\ \E new : Renames(r, new, t)
<1> DEFINE code == f.blocks[b].code
           line == code[n + 1]
           reads == IF line.op = "phi" THEN {} ELSE DOMAIN line.args
           args == [i \in DOMAIN line.args |->
                      IF i \in reads THEN Lookup(r.stack, line.args[i]) ELSE line.args[i]]
           defined == IF line.op = "bind" THEN args[1].value ELSE line.dst
           after == [failed |-> FALSE,
                     stack |-> PushTo(r.stack, line.sym, defined),
                     pushed |-> IF line.sym = None THEN r.pushed ELSE Append(r.pushed, line.sym),
                     code |-> Append(r.code, [line EXCEPT !.args = args])]
<1>1. /\ r.stack \in [Vars -> Seq(Nat)] /\ r.pushed \in Seq(Vars) /\ r.code \in Seq(Instruction) /\ ~r.failed
      /\ StackKnown(f, D, r.stack, b)
  BY DEF RenamedUpTo, Renamings
<1>2. line \in Instruction /\ ArgsKnown(f, D, b, n + 1)
  <2>1. code \in Seq(Instruction)
    BY DEF CodeKnown
  <2> QED BY <2>1, LenProperties, ElementOfSeq DEF CodeKnown
<1>3. line.dst \in Nat /\ line.sym \in Vars \union {None} /\ line.args \in Seq(Operand)
  BY <1>2 DEF Instruction
<1>4. /\ \A i \in DOMAIN line.args : line.args[i] \in Operand
      /\ DOMAIN line.args = 1 .. Len(line.args) /\ Len(line.args) \in Nat
  BY SMTT(30), <1>3, LenProperties, ElementOfSeq
<1>5. ASSUME NEW i \in reads
      PROVE  /\ Bound(r.stack, line.args[i])
             /\ ~IsRef(line.args[i]) => MadeAbove(f, D, b, line.args[i].value)
  <2> DEFINE o == line.args[i]
  <2>1. i \in DOMAIN line.args /\ ~IsPhi(line)
    BY <1>5 DEF IsPhi
  <2>2. KnownBefore(f, D, o, b, n + 1)
    BY <1>2, <2>1 DEF ArgsKnown
  <2>3. CASE IsRef(o)
    <3>1. PICK x \in Vars : o = Ref(x)
      BY <1>4, <2>1, <2>3, ValueSays DEF Operand
    <3>2. o.ref = x
      BY <3>1, RefSays
    <3>3. ASSUME NEW j \in DOMAIN code, j < n + 1, code[j].sym = x
          PROVE  r.stack[x] # << >>
      <4>1. j \in 1 .. n
        <5>1. DOMAIN code = 1 .. Len(code) /\ Len(code) \in Nat
          BY LenProperties DEF CodeKnown
        <5> HIDE DEF code
        <5> QED BY <3>3, <5>1
      <4>2. x # None
        BY ControlFlowAssumption
      <4> QED BY <3>3, <4>1, <4>2 DEF RenamedUpTo
    <3>4. ASSUME NEW d \in D[b] \ {b}, Has(f, d, x)
          PROVE  r.stack[x] # << >>
      <4>1. stack[x] # << >> /\ stack[x] \in Seq(Nat) /\ r.stack[x] \in Seq(Nat)
        BY <1>1, <3>4 DEF StackBelow
      <4>2. Len(r.stack[x]) = Len(stack[x]) + Count(r.pushed, x)
        BY DEF RenamedUpTo, Grown
      <4>3. Count(r.pushed, x) \in Nat
        BY SMTT(30), <1>1, CountGrows
      <4> QED BY <4>1, <4>2, <4>3, EmptySeq, LenProperties
    <3>5. r.stack[x] # << >>
      <4>1. \/ \E j \in DOMAIN code : j < n + 1 /\ code[j].sym = x
            \/ \E d \in D[b] \ {b} : Has(f, d, x)
        BY <2>2, <2>3, <3>2 DEF KnownBefore
      <4> HIDE DEF code
      <4> QED BY <3>3, <3>4, <4>1
    <3> HIDE DEF o
    <3>6. Bound(r.stack, o)
      BY <2>3, <3>2, <3>5 DEF Bound
    <3> QED BY <2>3, <3>6 DEF o
  <2>4. CASE ~IsRef(o)
    BY <2>2, <2>4 DEF KnownBefore, Bound, MadeAbove
  <2> QED BY <2>3, <2>4
<1>6. ASSUME NEW i \in reads
      PROVE  IsValue(f, D, b, args[i]) /\ Replaces(f, D, b, args[i], line.args[i])
  <2>1. i \in DOMAIN line.args
    OBVIOUS
  <2> HIDE DEF reads, line
  <2>2. args[i] = Lookup(r.stack, line.args[i])
    BY <1>6, <2>1
  <2> HIDE DEF args
  <2>3. IsValue(f, D, b, args[i])
    BY SMTT(30), <1>1, <1>4, <1>5, <1>6, <2>1, <2>2, LookupSays
  <2> QED BY <2>2, <2>3, LookupReplaces
<1>7. DOMAIN args = DOMAIN line.args /\ (IsPhi(line) => args = line.args)
  <2>1. IsPhi(line) => reads = {}
    BY DEF IsPhi
  <2>2. line.args = [i \in DOMAIN line.args |-> line.args[i]]
    BY <1>3
  <2> QED BY <2>1, <2>2
<1>8. ~IsPhi(line) => reads = DOMAIN line.args
  BY DEF IsPhi
<1>9. args \in Seq(Operand)
  <2>1. \A i \in DOMAIN line.args : args[i] \in Operand
    BY <1>4, <1>6 DEF IsValue
  <2> HIDE DEF line
  <2>2. args \in [1 .. Len(line.args) -> Operand]
    BY <1>4, <2>1
  <2> HIDE DEF args
  <2> QED BY SMTT(30), <1>4, <2>2
<1> HIDE DEF args, reads
<1>10. defined \in Nat /\ MadeAbove(f, D, b, defined)
  <2>1. CASE line.op = "bind"
    <3>1. 1 \in reads
      BY <1>2, <1>8, <2>1 DEF ArgsKnown, IsPhi
    <3> QED BY <1>6, <2>1, <3>1 DEF IsValue
  <2>2. CASE line.op # "bind"
    <3>1. Makes(f, b, line.dst)
      BY SMTT(30), <2>2 DEF Makes
    <3> QED BY <1>3, <2>2, <3>1 DEF MadeAbove
  <2> QED BY <2>1, <2>2
<1>11. line.op = "bind" => ~IsRef(args[1])
  <2>1. ASSUME line.op = "bind"
        PROVE  1 \in reads
    BY SMTT(30), <1>2, <1>8, <2>1 DEF ArgsKnown, IsPhi
  <2> QED BY <1>6, <2>1 DEF IsValue
<1>12. renameInstr(r, line) = after
  BY <1>1, <1>5 DEF renameInstr, reads, args
<1> DEFINE new == [line EXCEPT !.args = args]
<1>13. new.op = line.op /\ new.dst = line.dst /\ new.sym = line.sym /\ new.args = args
  <2> HIDE DEF line
  <2> QED BY <1>2 DEF Instruction
<1>14. Given(new) = defined
  <2> HIDE DEF line, new
  <2> QED BY <1>13 DEF Given
<1>15. new \in Instruction /\ LookedUp(f, D, b, new, line)
  <2>1. new \in Instruction
    <3> HIDE DEF line
    <3> QED BY <1>2, <1>9 DEF Instruction
  <2>2. /\ new.op = line.op /\ new.dst = line.dst /\ new.preds = line.preds /\ new.sym = line.sym
        /\ new.at = line.at /\ new.args = args
    <3> HIDE DEF line
    <3> QED BY <1>2 DEF Instruction
  <2> HIDE DEF line, new
  <2> QED BY <1>6, <1>7, <1>8, <2>1, <2>2 DEF LookedUp
<1> HIDE DEF line, new, defined
<1>16. after.code \in Seq(Instruction) /\ Len(after.code) = n + 1
       /\ \A k \in 1 .. n + 1 : LookedUp(f, D, b, after.code[k], code[k])
  <2>1. /\ Append(r.code, new) \in Seq(Instruction) /\ Len(Append(r.code, new)) = n + 1
        /\ \A k \in 1 .. n : Append(r.code, new)[k] = r.code[k]
        /\ Append(r.code, new)[n + 1] = new
    <3>1. Len(r.code) = n
      BY DEF RenamedUpTo
    <3> QED BY <1>1, <1>15, <3>1, AppendHolds
  <2>2. \A k \in 1 .. n + 1 : k \in 1 .. n \/ k = n + 1
    OBVIOUS
  <2>3. \A k \in 1 .. n : LookedUp(f, D, b, r.code[k], code[k])
    BY DEF RenamedUpTo
  <2>4. after.code = Append(r.code, new)
    BY DEF new
  <2> HIDE DEF after
  <2> QED BY <1>15, <2>1, <2>2, <2>3, <2>4 DEF line
<1>17. /\ after.stack \in [Vars -> Seq(Nat)] /\ after.pushed \in Seq(Vars)
       /\ \A x \in Vars : Grown(stack[x], after.stack[x], Count(after.pushed, x))
       /\ StackKnown(f, D, after.stack, b)
       /\ \A k \in 1 .. n + 1 : code[k].sym # None => after.stack[code[k].sym] # << >>
  <2>1. after.stack = PushTo(r.stack, line.sym, defined)
        /\ after.pushed = IF line.sym = None THEN r.pushed ELSE Append(r.pushed, line.sym)
    OBVIOUS
  <2> HIDE DEF after
  <2>2. \A k \in 1 .. n + 1 : k \in 1 .. n \/ code[k] = line
    BY DEF line
  <2>3. /\ \A x \in Vars : Grown(stack[x], r.stack[x], Count(r.pushed, x))
        /\ \A k \in 1 .. n : code[k].sym # None => r.stack[code[k].sym] # << >>
    BY DEF RenamedUpTo
  <2>4. CASE line.sym = None
    <3>1. after.stack = r.stack /\ after.pushed = r.pushed
      BY <2>1, <2>4 DEF PushTo
    <3> QED BY <1>1, <2>2, <2>3, <2>4, <3>1
  <2>5. CASE line.sym # None
    <3> DEFINE y == line.sym
    <3>1. y \in Vars /\ after.stack = [r.stack EXCEPT ![y] = Append(@, defined)] /\ after.pushed = Append(r.pushed, y)
      BY <1>3, <2>1, <2>5 DEF PushTo
    <3> DEFINE s == r.stack[y]
               t == Append(s, defined)
    <3>2. /\ t \in Seq(Nat) /\ Len(t) = Len(s) + 1 /\ DOMAIN t = 1 .. Len(s) + 1 /\ Len(s) \in Nat
          /\ DOMAIN s = 1 .. Len(s)
          /\ \A m \in 1 .. Len(s) : t[m] = s[m]
          /\ t[Len(s) + 1] = defined
      <4>1. s \in Seq(Nat)
        BY <1>1, <3>1
      <4> HIDE DEF s
      <4> QED BY <1>10, <4>1, AppendHolds, LenProperties
    <3>3. /\ after.stack[y] = t
          /\ \A x \in Vars : x # y => after.stack[x] = r.stack[x]
          /\ after.stack \in [Vars -> Seq(Nat)]
      BY <1>1, <3>1, <3>2
    <3> HIDE DEF t
    <3>4. /\ after.pushed \in Seq(Vars)
          /\ \A x \in Vars : /\ Count(r.pushed, x) \in Nat
                             /\ Count(after.pushed, x) = Count(r.pushed, x) + (IF x = y THEN 1 ELSE 0)
      BY <1>1, <3>1, AppendHolds, CountGrows
    <3>5. ASSUME NEW x \in Vars
          PROVE  Grown(stack[x], after.stack[x], Count(after.pushed, x))
      <4>1. Grown(stack[x], r.stack[x], Count(r.pushed, x)) /\ stack[x] \in Seq(Nat)
        BY <2>3 DEF StackBelow
      <4>2. DOMAIN stack[x] = 1 .. Len(stack[x]) /\ Len(stack[x]) \in Nat
        BY <4>1, LenProperties
      <4>3. CASE x = y
        <5>1. Len(s) = Len(stack[x]) + Count(r.pushed, x) /\ \A m \in DOMAIN stack[x] : s[m] = stack[x][m]
          BY <4>1, <4>3 DEF Grown
        <5>2. \A m \in 1 .. Len(stack[x]) : m \in 1 .. Len(s)
          <6> HIDE DEF s
          <6> QED BY <3>2, <3>4, <4>2, <5>1
        <5> HIDE DEF s, y
        <5>3. Len(t) = Len(stack[x]) + Count(after.pushed, x)
          BY SMTT(30), <3>2, <3>4, <4>2, <4>3, <5>1
        <5> QED BY <3>2, <3>3, <4>2, <4>3, <5>1, <5>2, <5>3 DEF Grown
      <4>4. CASE x # y
        <5>1. Count(after.pushed, x) = Count(r.pushed, x)
          BY <3>4, <4>4
        <5> QED BY <3>3, <4>1, <4>4, <5>1
      <4> QED BY <4>3, <4>4
    <3>6. ASSUME NEW x \in Vars, NEW m \in DOMAIN after.stack[x]
          PROVE  MadeAbove(f, D, b, after.stack[x][m])
      <4>1. CASE x = y /\ m = Len(s) + 1
        BY <1>10, <3>2, <3>3, <4>1
      <4>2. CASE x = y /\ m # Len(s) + 1
        <5>1. m \in 1 .. Len(s)
          <6> HIDE DEF s, y
          <6> QED BY <3>2, <3>3, <3>6, <4>2
        <5> QED BY <1>1, <3>2, <3>3, <4>2, <5>1 DEF StackKnown
      <4>3. CASE x # y
        BY <1>1, <3>3, <3>6, <4>3 DEF StackKnown
      <4> QED BY <4>1, <4>2, <4>3
    <3>7. t # << >>
      BY <3>2, EmptyHolds
    <3>8. ASSUME NEW k \in 1 .. n + 1, code[k].sym # None
          PROVE  after.stack[code[k].sym] # << >>
      <4>1. CASE code[k].sym = y
        BY <3>3, <3>7, <4>1
      <4>2. CASE code[k].sym # y
        <5>1. k \in 1 .. n
          BY <2>2, <4>2
        <5>2. k \in DOMAIN code /\ code \in Seq(Instruction)
          <6>1. code \in Seq(Instruction)
            BY DEF CodeKnown
          <6>2. DOMAIN code = 1 .. Len(code) /\ Len(code) \in Nat
            BY <6>1, LenProperties
          <6>3. n + 1 \in DOMAIN code
            OBVIOUS
          <6> HIDE DEF code
          <6> QED BY <5>1, <6>1, <6>2, <6>3
        <5>3. code[k] \in Instruction
          BY <5>2, LenProperties, ElementOfSeq
        <5>4. code[k].sym \in Vars
          BY <3>8, <5>3 DEF Instruction
        <5> QED BY <2>3, <3>3, <3>8, <4>2, <5>1, <5>4
      <4> QED BY <4>1, <4>2
    <3> QED BY <3>3, <3>4, <3>5, <3>6, <3>8 DEF StackKnown
  <2> QED BY <2>4, <2>5
<1>18. after \in Renamings /\ ~after.failed
  <2>1. after.failed = FALSE /\ DOMAIN after = {"failed", "stack", "pushed", "code"}
    OBVIOUS
  <2>2. after.stack \in [Vars -> Seq(Nat)] /\ after.pushed \in Seq(Vars) /\ after.code \in Seq(Instruction)
    BY <1>16, <1>17
  <2>3. after = [failed |-> after.failed, stack |-> after.stack, pushed |-> after.pushed, code |-> after.code]
    OBVIOUS
  <2> HIDE DEF after
  <2> QED BY <2>1, <2>2, <2>3 DEF Renamings
<1>19. Renames(r, new, after)
  <2>1. /\ after.code = Append(r.code, new) /\ after.stack = PushTo(r.stack, line.sym, defined)
        /\ after.pushed = IF line.sym = None THEN r.pushed ELSE Append(r.pushed, line.sym)
    BY SMTT(30) DEF new
  <2> HIDE DEF after
  <2> QED BY <1>15, <1>11, <1>13, <1>14, <2>1 DEF Renames
<1> HIDE DEF after
<1>20. RenamedUpTo(f, D, stack, b, after, n + 1)
  BY <1>16, <1>17, <1>18 DEF RenamedUpTo, line
<1> QED BY <1>12, <1>19, <1>20 DEF line

\* The last instruction that defines a variable has its value on top.
LEMMA TopsStayGiven ==
  ASSUME NEW r \in Renamings, NEW n \in Nat, Len(r.code) = n, TopsGiven(r, n), NEW new, NEW t, Renames(r, new, t)
  PROVE  TopsGiven(t, n + 1)
<1>1. /\ r.stack \in [Vars -> Seq(Nat)] /\ r.pushed \in Seq(Vars) /\ r.code \in Seq(Instruction)
      /\ new \in Instruction
  BY DEF Renamings, Renames
<1>2. new.sym \in Vars \union {None} /\ None \notin Vars
  BY <1>1, ControlFlowAssumption DEF Instruction
<1>3. (\A k \in 1 .. n : t.code[k] = r.code[k]) /\ t.code[n + 1] = new
  BY <1>1, AppendHolds DEF Renames
<1> SUFFICES ASSUME NEW x \in Vars
             PROVE  LET given == {k \in 1 .. n + 1 : t.code[k].sym = x}
                    IN  IF given = {} THEN Count(t.pushed, x) = 0
                        ELSE \E k \in given : /\ \A j \in given : j <= k
                                              /\ GivesValue(t.code[k], t.stack[x][Len(t.stack[x])])
  BY DEF TopsGiven
<1> DEFINE before == {k \in 1 .. n : r.code[k].sym = x}
           given == {k \in 1 .. n + 1 : t.code[k].sym = x}
<1>4. n + 1 \in 1 .. n + 1 /\ \A k \in 1 .. n + 1 : k <= n + 1 /\ (k = n + 1 \/ k \in 1 .. n)
  OBVIOUS
<1>5. CASE new.sym = x
  <2>1. n + 1 \in given /\ \A j \in given : j <= n + 1
    BY <1>3, <1>4, <1>5
  <2> DEFINE s == r.stack[x]
             v == Given(new)
  <2>2. t.stack[x] = Append(s, v)
    BY <1>1, <1>2, <1>5 DEF Renames, PushTo
  <2>3. Append(s, v)[Len(Append(s, v))] = v
    <3>1. s \in Seq(Nat \union {v}) /\ v \in Nat \union {v}
      <4>1. s \in Seq(Nat)
        BY <1>1
      <4> HIDE DEF s, v
      <4>2. Len(s) \in Nat /\ DOMAIN s = 1 .. Len(s) /\ s = [i \in 1 .. Len(s) |-> s[i]]
            /\ \A i \in 1 .. Len(s) : s[i] \in Nat
        BY <4>1, LenProperties, ElementOfSeq
      <4> QED BY <4>2
    <3> HIDE DEF s, v
    <3>2. Len(Append(s, v)) = Len(s) + 1 /\ Append(s, v)[Len(s) + 1] = v
      BY <3>1, AppendHolds
    <3> QED BY <3>2
  <2>4. GivesValue(t.code[n + 1], t.stack[x][Len(t.stack[x])])
    BY <1>3, <2>2, <2>3 DEF GivesValue, Renames
  <2> HIDE DEF given
  <2> QED BY <2>1, <2>4 DEF given
<1>6. CASE new.sym # x
  <2>1. given = before
    BY <1>3, <1>4, <1>6
  <2>2. t.stack[x] = r.stack[x]
    BY <1>1, <1>2, <1>6 DEF Renames, PushTo
  <2>3. Count(t.pushed, x) = Count(r.pushed, x)
    <3>1. CASE new.sym = None
      BY <3>1 DEF Renames
    <3>2. CASE new.sym # None
      <4>1. new.sym \in Vars /\ t.pushed = Append(r.pushed, new.sym)
        BY <1>2, <3>2 DEF Renames
      <4>2. Count(r.pushed, x) \in Nat /\ Count(Append(r.pushed, new.sym), x) = Count(r.pushed, x) + 0
        BY <1>1, <1>6, <4>1, CountGrows
      <4> QED BY <4>1, <4>2
    <3> QED BY <3>1, <3>2
  <2>4. IF before = {} THEN Count(r.pushed, x) = 0
        ELSE \E k \in before : /\ \A j \in before : j <= k
                               /\ GivesValue(r.code[k], r.stack[x][Len(r.stack[x])])
    BY DEF TopsGiven
  <2>5. \A k \in before : t.code[k] = r.code[k]
    BY <1>3
  <2> HIDE DEF before, given
  <2>6. IF given = {} THEN Count(t.pushed, x) = 0
        ELSE \E k \in given : /\ \A j \in given : j <= k
                              /\ GivesValue(t.code[k], t.stack[x][Len(t.stack[x])])
    BY ZenonT(60), <2>1, <2>2, <2>3, <2>4, <2>5
  <2> QED BY <2>6 DEF given
<1> QED BY <1>5, <1>6

\* The iteration of renamed goes through the code of a block.
RenamesThrough(code, start, n, h) ==
  h = [i \in 0 .. n |-> IF i = 0 THEN start ELSE renameInstr(h[i - 1], code[i])]
LEMMA RenamesThroughExists ==
  ASSUME NEW code, NEW start, NEW n \in Nat
  PROVE  \E h : RenamesThrough(code, start, n, h)
<1> DEFINE T == {i \in Nat : \E h : RenamesThrough(code, start, i, h)}
<1>1. 0 \in T
  <2> DEFINE h == [i \in 0 .. 0 |-> start]
  <2>1. h = [i \in 0 .. 0 |-> IF i = 0 THEN start ELSE renameInstr(h[i - 1], code[i])]
    <3>1. \A i \in 0 .. 0 : i = 0
      OBVIOUS
    <3> QED BY <3>1
  <2> HIDE DEF h
  <2> QED BY <2>1 DEF RenamesThrough
<1>2. ASSUME NEW m \in Nat, m \in T
      PROVE  m + 1 \in T
  <2>1. PICK h : RenamesThrough(code, start, m, h)
    BY <1>2
  <2> DEFINE k == [i \in 0 .. m + 1 |-> IF i = m + 1 THEN renameInstr(h[m], code[m + 1]) ELSE h[i]]
  <2>2. \A i \in 0 .. m : h[i] = IF i = 0 THEN start ELSE renameInstr(h[i - 1], code[i])
    BY <2>1 DEF RenamesThrough
  <2>3. \A i \in 0 .. m : i \in 0 .. m + 1 /\ i # m + 1
    OBVIOUS
  <2>4. \A i \in 0 .. m : k[i] = h[i]
    BY <2>3
  <2>5. ASSUME NEW i \in 0 .. m + 1
        PROVE  (IF i = m + 1 THEN renameInstr(h[m], code[m + 1]) ELSE h[i])
                 = IF i = 0 THEN start ELSE renameInstr(k[i - 1], code[i])
    <3> HIDE DEF k
    <3>1. CASE i = m + 1
      <4>1. i # 0 /\ i - 1 = m /\ m \in 0 .. m
        BY <3>1
      <4> QED BY <2>4, <3>1, <4>1
    <3>2. CASE i # m + 1 /\ i # 0
      <4>1. i \in 0 .. m /\ i - 1 \in 0 .. m
        BY <3>2
      <4> QED BY <2>2, <2>4, <3>2, <4>1
    <3>3. CASE i # m + 1 /\ i = 0
      <4>1. 0 \in 0 .. m
        OBVIOUS
      <4> QED BY <2>2, <3>3, <4>1
    <3> QED BY <3>1, <3>2, <3>3
  <2>6. k = [i \in 0 .. m + 1 |-> IF i = 0 THEN start ELSE renameInstr(k[i - 1], code[i])]
    BY <2>5
  <2> HIDE DEF k
  <2>7. RenamesThrough(code, start, m + 1, k)
    BY <2>6 DEF RenamesThrough
  <2> QED BY <2>7
<1>3. \A i \in Nat : i \in T
  <2> HIDE DEF T
  <2> QED BY <1>1, <1>2, SetInduction
<1> QED BY <1>3

\* A block renamed.
LEMMA RenamesBlock ==
  ASSUME NEW b \in Blocks, b \in dom[b], CodeKnown(fn, dom), StackBelow(fn, dom, varStack, b)
  PROVE  /\ RenamedUpTo(fn, dom, varStack, b, renamed(b), Len(fn.blocks[b].code))
         /\ TopsGiven(renamed(b), Len(fn.blocks[b].code))
<1> DEFINE code == fn.blocks[b].code
           N == Len(code)
           start == [failed |-> FALSE, stack |-> varStack, pushed |-> << >>, code |-> << >>]
           upTo == CHOOSE h : h = [n \in 0 .. Len(code) |->
                     IF n = 0 THEN [failed |-> FALSE, stack |-> varStack, pushed |-> << >>, code |-> << >>]
                     ELSE renameInstr(h[n - 1], code[n])]
<1>1. renamed(b) = upTo[N]
  BY DEF renamed
<1>2. code \in Seq(Instruction) /\ N \in Nat /\ DOMAIN code = 1 .. N
  <2>1. code \in Seq(Instruction)
    BY DEF CodeKnown, Blocks
  <2> HIDE DEF code
  <2> QED BY <2>1, LenProperties
<1>3. RenamesThrough(code, start, N, upTo)
  <2>1. \E h : RenamesThrough(code, start, N, h)
    <3> HIDE DEF code, start, N
    <3> QED BY <1>2, RenamesThroughExists
  <2>2. \E h : h = [n \in 0 .. Len(code) |-> IF n = 0 THEN start ELSE renameInstr(h[n - 1], code[n])]
    BY SMTT(30), <2>1 DEF RenamesThrough
  <2>3. upTo = [n \in 0 .. Len(code) |-> IF n = 0 THEN start ELSE renameInstr(upTo[n - 1], code[n])]
    BY <2>2
  <2> HIDE DEF upTo, code, start
  <2> QED BY <2>3 DEF RenamesThrough
<1> HIDE DEF upTo
<1>4. \A n \in 0 .. N : upTo[n] = IF n = 0 THEN start ELSE renameInstr(upTo[n - 1], code[n])
  <2> HIDE DEF start, code, N
  <2> QED BY <1>3 DEF RenamesThrough
<1>5. RenamedUpTo(fn, dom, varStack, b, start, 0) /\ TopsGiven(start, 0)
  <2>1. start \in Renamings /\ start.stack = varStack /\ start.pushed = << >> /\ start.code = << >> /\ ~start.failed
    <3>1. << >> \in Seq(Vars) /\ << >> \in Seq(Instruction) /\ varStack \in [Vars -> Seq(Nat)]
      BY DEF StackBelow
    <3> QED BY <3>1 DEF Renamings
  <2>2. \A k : k \notin 1 .. 0
    OBVIOUS
  <2>3. \A x : Count(<< >>, x) = 0
    BY EmptyHolds, FS_EmptySet DEF Count
  <2>4. \A x \in Vars : Len(varStack[x]) \in Nat
    BY LenProperties DEF StackBelow
  <2>5. \A x \in Vars : Grown(varStack[x], varStack[x], Count(<< >>, x))
    BY <2>3, <2>4 DEF Grown
  <2>6. Len(<< >>) = 0
    BY EmptySeq
  <2> HIDE DEF start
  <2>7. RenamedUpTo(fn, dom, varStack, b, start, 0)
    BY <2>1, <2>2, <2>5, <2>6 DEF RenamedUpTo, StackBelow
  <2>8. TopsGiven(start, 0)
    BY <2>1, <2>2, <2>3 DEF TopsGiven
  <2> QED BY <2>7, <2>8
<1> DEFINE T == {n \in Nat : n <= N => RenamedUpTo(fn, dom, varStack, b, upTo[n], n) /\ TopsGiven(upTo[n], n)}
<1>6. 0 \in T
  <2>1. 0 \in 0 .. N
    BY <1>2
  <2>2. upTo[0] = start
    BY <1>4, <2>1
  <2> HIDE DEF start
  <2> QED BY <1>5, <2>2
<1>7. ASSUME NEW n \in Nat, n \in T
      PROVE  n + 1 \in T
  <2> SUFFICES ASSUME n + 1 <= N
               PROVE  RenamedUpTo(fn, dom, varStack, b, upTo[n + 1], n + 1) /\ TopsGiven(upTo[n + 1], n + 1)
    OBVIOUS
  <2>1. n + 1 \in 0 .. N /\ n + 1 # 0 /\ (n + 1) - 1 = n /\ n <= N /\ n + 1 \in 1 .. N
    BY <1>2
  <2>2. upTo[n + 1] = renameInstr(upTo[n], code[n + 1])
    <3> HIDE DEF start, code, N
    <3> QED BY <1>4, <2>1
  <2>3. RenamedUpTo(fn, dom, varStack, b, upTo[n], n) /\ TopsGiven(upTo[n], n)
    BY <1>7, <2>1
  <2>4. n + 1 \in DOMAIN fn.blocks[b].code /\ b \in DOMAIN fn.blocks
    BY <1>2, <2>1 DEF Blocks
  <2> HIDE DEF start, code, N
  <2>5. /\ RenamedUpTo(fn, dom, varStack, b, upTo[n + 1], n + 1)
        /\ \E new : Renames(upTo[n], new, upTo[n + 1])
    BY <2>2, <2>3, <2>4, RenamesInstruction DEF code
  <2>6. upTo[n] \in Renamings /\ Len(upTo[n].code) = n
    BY <2>3 DEF RenamedUpTo
  <2>7. TopsGiven(upTo[n + 1], n + 1)
    BY <2>3, <2>5, <2>6, TopsStayGiven
  <2> QED BY <2>5, <2>7
<1>8. \A n \in Nat : n \in T
  <2> HIDE DEF T
  <2> QED BY <1>6, <1>7, SetInduction
<1>9. RenamedUpTo(fn, dom, varStack, b, upTo[N], N) /\ TopsGiven(upTo[N], N)
  <2>1. N \in T /\ N <= N
    BY <1>2, <1>8
  <2> QED BY <2>1
<1> QED BY <1>1, <1>9

-----------------------------------------------------------------------------
(* Operands replaced by values, which is all rename does to the code.      *)
InstrReplaced(f, D, b, new, old) ==
  /\ new.op = old.op /\ new.dst = old.dst /\ new.preds = old.preds /\ new.sym = old.sym /\ new.at = old.at
  /\ DOMAIN new.args = DOMAIN old.args
  /\ \A j \in DOMAIN old.args :
       Replaces(f, D, IF IsPhi(old) THEN old.preds[j] ELSE b, new.args[j], old.args[j])
OperandsReplaced(f, D, g) ==
  /\ FunctionFields(g) /\ SameGraph(f, g)
  /\ \A b \in DOMAIN f.blocks :
       /\ g.blocks[b].term.args \in Seq(Operand)
       /\ DOMAIN g.blocks[b].term.args = DOMAIN f.blocks[b].term.args
       /\ \A i \in DOMAIN f.blocks[b].term.args :
            Replaces(f, D, b, g.blocks[b].term.args[i], f.blocks[b].term.args[i])
       /\ g.blocks[b].code \in Seq(Instruction)
       /\ DOMAIN g.blocks[b].code = DOMAIN f.blocks[b].code
       /\ \A k \in DOMAIN f.blocks[b].code : InstrReplaced(f, D, b, g.blocks[b].code[k], f.blocks[b].code[k])

\* Nothing b uses, or a phi takes from b, is a reference.
Finished(f, b) ==
  /\ \A i \in DOMAIN f.blocks[b].term.args : ~IsRef(f.blocks[b].term.args[i])
  /\ \A k \in DOMAIN f.blocks[b].code :
       ~IsPhi(f.blocks[b].code[k]) =>
         \A j \in DOMAIN f.blocks[b].code[k].args : ~IsRef(f.blocks[b].code[k].args[j])
  /\ \A s \in DOMAIN f.blocks : \A k \in DOMAIN f.blocks[s].code :
       IsPhi(f.blocks[s].code[k]) =>
         \A j \in DOMAIN f.blocks[s].code[k].args :
           f.blocks[s].code[k].preds[j] = b => ~IsRef(f.blocks[s].code[k].args[j])

\* What defines a variable or makes a value still does.
LEMMA ReplacedDefines ==
  ASSUME NEW f, NEW D, NEW g, OperandsReplaced(f, D, g), NEW b \in DOMAIN f.blocks
  PROVE  /\ \A x : Has(g, b, x) <=> Has(f, b, x)
         /\ \A v : Makes(g, b, v) <=> Makes(f, b, v)
BY ZenonT(60) DEF OperandsReplaced, InstrReplaced, Has, Makes

LEMMA ReplacedIsKnown ==
  ASSUME NEW f, NEW D \in [DOMAIN f.blocks -> SUBSET DOMAIN f.blocks], CodeKnown(f, D),
         NEW g, OperandsReplaced(f, D, g)
  PROVE  CodeKnown(g, D)
<1>1. /\ FunctionFields(g) /\ DOMAIN g.blocks = DOMAIN f.blocks
      /\ \A b \in DOMAIN f.blocks : g.blocks[b].succs = f.blocks[b].succs
  BY DEF OperandsReplaced, SameGraph, SameExits
<1>2. ASSUME NEW b \in DOMAIN f.blocks
      PROVE  \A d \in D[b] : /\ \A x : Has(f, d, x) => Has(g, d, x)
                             /\ \A v : Makes(f, d, v) => Makes(g, d, v)
  BY ReplacedDefines
<1>3. ASSUME NEW b \in DOMAIN f.blocks, NEW o, NEW p, KnownAtEnd(f, D, o, b), Replaces(f, D, b, p, o)
      PROVE  KnownAtEnd(g, D, p, b)
  BY <1>2, <1>3 DEF KnownAtEnd, Replaces, IsValue, MadeAbove
<1>4. ASSUME NEW b \in DOMAIN f.blocks, NEW k \in DOMAIN f.blocks[b].code
      PROVE  ArgsKnown(g, D, b, k)
  <2> DEFINE old == f.blocks[b].code[k]
             new == g.blocks[b].code[k]
  <2>1. ArgsKnown(f, D, b, k)
    BY DEF CodeKnown
  <2>2. /\ InstrReplaced(f, D, b, new, old)
        /\ \A m \in DOMAIN f.blocks[b].code : InstrReplaced(f, D, b, g.blocks[b].code[m], f.blocks[b].code[m])
        /\ DOMAIN g.blocks[b].code = DOMAIN f.blocks[b].code
    BY SMTT(30) DEF OperandsReplaced
  <2>3. new.op = old.op /\ new.preds = old.preds /\ DOMAIN new.args = DOMAIN old.args
    BY ZenonT(60), <2>2 DEF InstrReplaced
  <2>4. CASE IsPhi(old)
    <3>1. ASSUME NEW j \in DOMAIN new.args
          PROVE  /\ j \in DOMAIN new.preds /\ new.preds[j] \in DOMAIN g.blocks
                 /\ b \in ToSet(g.blocks[new.preds[j]].succs)
                 /\ KnownAtEnd(g, D, new.args[j], new.preds[j])
      <4>1. /\ j \in DOMAIN old.preds /\ old.preds[j] \in DOMAIN f.blocks
            /\ b \in ToSet(f.blocks[old.preds[j]].succs)
            /\ KnownAtEnd(f, D, old.args[j], old.preds[j])
        <5>1. j \in DOMAIN old.args
          BY <2>3
        <5> QED BY ZenonT(60), <2>1, <2>4, <5>1 DEF ArgsKnown
      <4>2. Replaces(f, D, old.preds[j], new.args[j], old.args[j])
        BY ZenonT(60), <2>2, <2>3, <2>4 DEF InstrReplaced
      <4> QED BY ZenonT(60), <1>1, <1>3, <2>3, <4>1, <4>2
    <3> QED BY ZenonT(60), <2>3, <2>4, <3>1 DEF ArgsKnown, IsPhi
  <2>5. CASE ~IsPhi(old)
    <3>1. ASSUME NEW j \in DOMAIN new.args
          PROVE  KnownBefore(g, D, new.args[j], b, k)
      <4>1. KnownBefore(f, D, old.args[j], b, k) /\ Replaces(f, D, b, new.args[j], old.args[j])
        BY ZenonT(60), <2>1, <2>2, <2>3, <2>5 DEF ArgsKnown, InstrReplaced
      <4>2. \A m \in DOMAIN f.blocks[b].code : g.blocks[b].code[m].sym = f.blocks[b].code[m].sym
        BY ZenonT(60), <2>2 DEF InstrReplaced
      <4>3. CASE IsValue(f, D, b, new.args[j])
        BY ZenonT(60), <1>2, <4>3 DEF KnownBefore, IsValue, MadeAbove
      <4>4. CASE new.args[j] = old.args[j]
        BY ZenonT(60), <1>2, <2>2, <4>1, <4>2, <4>4 DEF KnownBefore
      <4> HIDE DEF old, new
      <4>5. IsValue(f, D, b, new.args[j]) \/ new.args[j] = old.args[j]
        BY <4>1 DEF Replaces
      <4> QED BY <4>3, <4>4, <4>5
    <3>2. new.op = "bind" => 1 \in DOMAIN new.args
      BY <2>1, <2>3 DEF ArgsKnown
    <3> QED BY ZenonT(60), <2>3, <2>5, <3>1, <3>2 DEF ArgsKnown, IsPhi
  <2> QED BY <2>4, <2>5
<1>5. ASSUME NEW b \in DOMAIN f.blocks
      PROVE  /\ g.blocks[b].code \in Seq(Instruction) /\ g.blocks[b].term.args \in Seq(Operand)
             /\ DOMAIN g.blocks[b].code = DOMAIN f.blocks[b].code
             /\ \A i \in DOMAIN g.blocks[b].term.args : KnownAtEnd(g, D, g.blocks[b].term.args[i], b)
  BY <1>3 DEF OperandsReplaced, CodeKnown
<1> QED BY <1>1, <1>4, <1>5 DEF CodeKnown

LEMMA ReplacedStaysFinished ==
  ASSUME NEW f, NEW D, NEW g, OperandsReplaced(f, D, g), NEW b \in DOMAIN f.blocks, Finished(f, b)
  PROVE  Finished(g, b)
<1>1. /\ DOMAIN g.blocks = DOMAIN f.blocks
      /\ \A c, o, p : Replaces(f, D, c, p, o) /\ ~IsRef(o) => ~IsRef(p)
  BY DEF OperandsReplaced, SameGraph, Replaces, IsValue
<1>2. ASSUME NEW s \in DOMAIN f.blocks, NEW k \in DOMAIN g.blocks[s].code
      PROVE  LET new == g.blocks[s].code[k]
                 old == f.blocks[s].code[k]
             IN  /\ k \in DOMAIN f.blocks[s].code
                 /\ new.preds = old.preds /\ (IsPhi(new) <=> IsPhi(old))
                 /\ \A j \in DOMAIN new.args : j \in DOMAIN old.args /\ (~IsRef(old.args[j]) => ~IsRef(new.args[j]))
  BY <1>1 DEF OperandsReplaced, InstrReplaced, IsPhi
<1>3. \A i \in DOMAIN g.blocks[b].term.args : ~IsRef(g.blocks[b].term.args[i])
  BY <1>1 DEF OperandsReplaced, Finished
<1>4. ASSUME NEW k \in DOMAIN g.blocks[b].code, ~IsPhi(g.blocks[b].code[k]),
             NEW j \in DOMAIN g.blocks[b].code[k].args
      PROVE  ~IsRef(g.blocks[b].code[k].args[j])
  BY <1>2, <1>4 DEF Finished
<1>5. ASSUME NEW s \in DOMAIN g.blocks, NEW k \in DOMAIN g.blocks[s].code, IsPhi(g.blocks[s].code[k]),
             NEW j \in DOMAIN g.blocks[s].code[k].args, g.blocks[s].code[k].preds[j] = b
      PROVE  ~IsRef(g.blocks[s].code[k].args[j])
  BY <1>1, <1>2, <1>5 DEF Finished
<1> QED BY <1>3, <1>4, <1>5 DEF Finished

-----------------------------------------------------------------------------
(* Rename.                                                                 *)
\* At the end of b every variable known there has a value on its stack.
EndsKnown(f, D, stack, b) ==
  \A o \in Operand : KnownAtEnd(f, D, o, b) => Bound(stack, o) /\ IsValue(f, D, b, Lookup(stack, o))

LEMMA RenamedEndsKnown ==
  ASSUME NEW f, NEW D, NEW b \in DOMAIN f.blocks, CodeKnown(f, D),
         NEW stack, StackBelow(f, D, stack, b),
         NEW r, RenamedUpTo(f, D, stack, b, r, Len(f.blocks[b].code))
  PROVE  EndsKnown(f, D, r.stack, b)
<1> SUFFICES ASSUME NEW o \in Operand, KnownAtEnd(f, D, o, b)
             PROVE  Bound(r.stack, o) /\ IsValue(f, D, b, Lookup(r.stack, o))
  BY DEF EndsKnown
<1>1. /\ r.stack \in [Vars -> Seq(Nat)] /\ r.pushed \in Seq(Vars) /\ StackKnown(f, D, r.stack, b)
  BY DEF RenamedUpTo, Renamings
<1>2. ASSUME IsRef(o)
      PROVE  Bound(r.stack, o)
  <2>1. PICK x \in Vars : o = Ref(x)
    BY <1>2, ValueSays DEF Operand
  <2>2. o.ref = x
    BY <2>1, RefSays
  <2>3. PICK d \in D[b] : Has(f, d, x)
    BY <1>2, <2>2 DEF KnownAtEnd
  <2>4. CASE d = b
    <3>1. PICK k \in DOMAIN f.blocks[b].code : f.blocks[b].code[k].sym = x
      BY <2>3, <2>4 DEF Has
    <3>2. k \in 1 .. Len(f.blocks[b].code)
      BY LenProperties DEF CodeKnown
    <3>3. x # None
      BY ControlFlowAssumption
    <3> QED BY <2>2, <3>1, <3>2, <3>3 DEF RenamedUpTo, Bound
  <2>5. CASE d # b
    <3>1. stack[x] # << >> /\ stack[x] \in Seq(Nat) /\ r.stack[x] \in Seq(Nat)
      BY <1>1, <2>3, <2>5 DEF StackBelow
    <3>2. Len(r.stack[x]) = Len(stack[x]) + Count(r.pushed, x)
      BY DEF RenamedUpTo, Grown
    <3>3. Count(r.pushed, x) \in Nat
      BY <1>1, CountGrows
    <3>4. r.stack[x] # << >>
      BY <3>1, <3>2, <3>3, EmptySeq, LenProperties
    <3> QED BY <2>2, <3>4 DEF Bound
  <2> QED BY <2>4, <2>5
<1>3. ~IsRef(o) => Bound(r.stack, o) /\ MadeAbove(f, D, b, o.value)
  BY DEF KnownAtEnd, MadeAbove, Bound
<1> QED BY <1>1, <1>2, <1>3, LookupSays

\* What becomes of an instruction of s when b is renamed.
DoneWith(f, D, b, s, new, old) ==
  /\ new \in Instruction
  /\ InstrReplaced(f, D, s, new, old)
  /\ IsPhi(old) => \A j \in DOMAIN old.args : old.preds[j] = b => ~IsRef(new.args[j])
  /\ ~IsPhi(old) /\ s = b => \A j \in DOMAIN old.args : ~IsRef(new.args[j])

\* Looking up the operands of phis does not change what is given.
GivesAs(new, mid) == /\ new.op = mid.op /\ new.dst = mid.dst /\ new.sym = mid.sym
                     /\ new.op = "bind" => new.args = mid.args

LEMMA FilledIsDone ==
  ASSUME NEW f, NEW D, CodeKnown(f, D), NEW b \in DOMAIN f.blocks, NEW stack, EndsKnown(f, D, stack, b),
         NEW s \in DOMAIN f.blocks, NEW k \in DOMAIN f.blocks[s].code,
         NEW mid \in Instruction,
         IF s = b THEN LookedUp(f, D, b, mid, f.blocks[s].code[k]) ELSE mid = f.blocks[s].code[k]
  PROVE  /\ DoneWith(f, D, b, s, FilledFrom(stack, b, mid), f.blocks[s].code[k])
         /\ GivesAs(FilledFrom(stack, b, mid), mid)
<1> DEFINE old == f.blocks[s].code[k]
           new == FilledFrom(stack, b, mid)
           args == [i \in DOMAIN mid.args |-> IF mid.preds[i] = b THEN Lookup(stack, mid.args[i]) ELSE mid.args[i]]
<1>1. /\ mid.op = old.op /\ mid.dst = old.dst /\ mid.preds = old.preds /\ mid.sym = old.sym
      /\ mid.at = old.at
      /\ DOMAIN mid.args = DOMAIN old.args /\ (IsPhi(old) => mid.args = old.args)
      /\ (IsPhi(mid) <=> IsPhi(old))
  BY DEF LookedUp, IsPhi
<1>2. ArgsKnown(f, D, s, k)
  BY DEF CodeKnown
<1>3. /\ mid.args \in Seq(Operand) /\ DOMAIN mid.args = 1 .. Len(mid.args) /\ Len(mid.args) \in Nat
      /\ \A j \in DOMAIN mid.args : mid.args[j] \in Operand
  BY LenProperties, ElementOfSeq DEF Instruction
<1>4. CASE IsPhi(old)
  <2>1. new = [mid EXCEPT !.args = args]
    BY <1>1, <1>4 DEF FilledFrom, IsPhi
  <2>2. ASSUME NEW j \in DOMAIN old.args, old.preds[j] = b
        PROVE  IsValue(f, D, b, args[j]) /\ Replaces(f, D, b, args[j], old.args[j])
    <3>1. KnownAtEnd(f, D, old.args[j], b) /\ old.args[j] \in Operand
      BY ZenonT(60), <1>1, <1>2, <1>3, <1>4, <2>2 DEF ArgsKnown
    <3>2. args[j] = Lookup(stack, old.args[j])
      <4>1. j \in DOMAIN mid.args /\ mid.preds[j] = b /\ mid.args[j] = old.args[j]
        BY <1>1, <1>4, <2>2
      <4> HIDE DEF old
      <4> QED BY <4>1
    <3>3. IsValue(f, D, b, Lookup(stack, old.args[j]))
      BY SMTT(30), <3>1 DEF EndsKnown
    <3>4. Replaces(f, D, b, Lookup(stack, old.args[j]), old.args[j])
      BY SMTT(30), <3>3, LookupReplaces
    <3> HIDE DEF args, old
    <3> QED BY <3>2, <3>3, <3>4
  <2>3. \A j \in DOMAIN old.args : old.preds[j] # b => args[j] = old.args[j]
    BY <1>1, <1>4
  <2>4. DOMAIN args = DOMAIN old.args
    BY <1>1
  <2>5. args \in Seq(Operand)
    <3>1. \A j \in DOMAIN mid.args : args[j] \in Operand
      BY <1>1, <1>3, <1>4, <2>2, <2>3 DEF IsValue
    <3>2. args \in [1 .. Len(mid.args) -> Operand]
      BY <1>3, <3>1
    <3> HIDE DEF args
    <3> QED BY SMTT(30), <1>3, <3>2
  <2> HIDE DEF args, new
  <2>6. /\ new \in Instruction /\ new.args = args
        /\ new.op = mid.op /\ new.dst = mid.dst /\ new.preds = mid.preds /\ new.sym = mid.sym
        /\ new.at = mid.at
    BY <2>1, <2>5 DEF Instruction
  <2>7. InstrReplaced(f, D, s, new, old)
    <3> HIDE DEF old
    <3>1. \A j \in DOMAIN old.args : Replaces(f, D, old.preds[j], args[j], old.args[j])
      BY <2>2, <2>3 DEF Replaces
    <3> QED BY <1>1, <1>4, <2>4, <2>6, <3>1 DEF InstrReplaced
  <2>8. \A j \in DOMAIN old.args : old.preds[j] = b => ~IsRef(new.args[j])
    BY SMTT(30), <2>2, <2>6 DEF IsValue
  <2>9. GivesAs(new, mid)
    BY SMTT(30), <1>1, <1>4, <2>6 DEF GivesAs, IsPhi
  <2> QED BY <1>4, <2>6, <2>7, <2>8, <2>9 DEF DoneWith, new
<1>5. CASE ~IsPhi(old)
  <2>1. new = mid
    BY <1>1, <1>5 DEF FilledFrom, IsPhi
  <2>2. \A j \in DOMAIN old.args : Replaces(f, D, s, mid.args[j], old.args[j]) /\ (s = b => ~IsRef(mid.args[j]))
    BY SMTT(30), <1>1, <1>5 DEF Replaces, LookedUp, IsValue
  <2>3. DOMAIN mid.args = DOMAIN old.args /\ ~IsPhi(mid)
    BY <1>1, <1>5 DEF LookedUp, IsPhi
  <2>4. GivesAs(mid, mid)
    BY DEF GivesAs
  <2> HIDE DEF new, old
  <2>5. InstrReplaced(f, D, s, mid, old)
    BY <1>1, <1>5, <2>2, <2>3 DEF InstrReplaced
  <2>6. DoneWith(f, D, b, s, mid, old)
    BY <1>5, <2>2, <2>5 DEF DoneWith
  <2>7. DoneWith(f, D, b, s, new, old) /\ GivesAs(new, mid)
    BY <2>1, <2>4, <2>6
  <2> QED BY <2>7 DEF new, old
<1> QED BY <1>4, <1>5

\* b has been entered: its code is renamed, and the phis of its successors have
\* their operands from it.
RenameEntered(b) ==
  LET r == renamed(b)
  IN  /\ phase' = "rename" /\ varStack' = r.stack
      /\ calls' = Append(Front(calls), [Call EXCEPT !.pushed = r.pushed, !.children = domTree(b),
                                                    !.entered = TRUE])
      /\ OperandsReplaced(fn, dom, fn')
      /\ Finished(fn', b)
      /\ \A k \in DOMAIN fn.blocks[b].code : GivesAs(fn'.blocks[b].code[k], r.code[k])

LEMMA RenameEnters ==
  ASSUME Rename, GraphTypes, InLines(dom, Blocks), CodeKnown(fn, dom), Call.block \in Blocks,
         StackBelow(fn, dom, varStack, Call.block)
  PROVE  RenameEntered(Call.block)
<1> DEFINE b == Call.block
           r == renamed(b)
           term == fn.blocks[b].term
           N == Len(fn.blocks[b].code)
           code1(s) == IF s = b THEN r.code ELSE fn.blocks[s].code
           looked == [i \in DOMAIN term.args |-> Lookup(r.stack, term.args[i])]
           succs == ToSet(fn.blocks[b].succs)
           f1 == [fn EXCEPT !.blocks[b].code = r.code,
                            !.blocks[b].term.args = [i \in DOMAIN @ |-> Lookup(r.stack, @[i])]]
           filled(s) == [f1.blocks[s] EXCEPT !.code = [k \in DOMAIN @ |-> FilledFrom(r.stack, b, @[k])]]
<1>1. /\ b \in Blocks /\ b \in dom[b] /\ Blocks = DOMAIN fn.blocks /\ dom \in [Blocks -> SUBSET Blocks]
      /\ FunctionFields(fn)
  BY DEF InLines, Blocks, CodeKnown
<1>2. RenamedUpTo(fn, dom, varStack, b, r, N)
  BY <1>1, RenamesBlock
<1> HIDE DEF r
<1>3. EndsKnown(fn, dom, r.stack, b)
  BY <1>1, <1>2, RenamedEndsKnown
<1>4. /\ r.code \in Seq(Instruction) /\ ~r.failed /\ Len(r.code) = N /\ N \in Nat
      /\ DOMAIN fn.blocks[b].code = 1 .. N /\ DOMAIN r.code = 1 .. N
      /\ \A k \in 1 .. N : LookedUp(fn, dom, b, r.code[k], fn.blocks[b].code[k])
  <2>1. fn.blocks[b].code \in Seq(Instruction)
    BY <1>1 DEF CodeKnown
  <2>2. r.code \in Seq(Instruction) /\ ~r.failed /\ Len(r.code) = N
        /\ \A k \in 1 .. N : LookedUp(fn, dom, b, r.code[k], fn.blocks[b].code[k])
    BY <1>2 DEF RenamedUpTo, Renamings
  <2> QED BY <2>1, <2>2, LenProperties
<1>5. /\ term.args \in Seq(Operand) /\ DOMAIN term.args = 1 .. Len(term.args) /\ Len(term.args) \in Nat
      /\ \A i \in DOMAIN term.args : term.args[i] \in Operand /\ KnownAtEnd(fn, dom, term.args[i], b)
  BY <1>1, LenProperties, ElementOfSeq DEF CodeKnown
<1>6. \A i \in DOMAIN term.args : Bound(r.stack, term.args[i]) /\ IsValue(fn, dom, b, Lookup(r.stack, term.args[i]))
  BY <1>3, <1>5 DEF EndsKnown
<1> HIDE DEF N
\* Each instruction, as it is when its block is looked at for phis.
<1>7. ASSUME NEW s \in Blocks
      PROVE  /\ code1(s) \in Seq(Instruction) /\ DOMAIN code1(s) = DOMAIN fn.blocks[s].code
             /\ \A k \in DOMAIN fn.blocks[s].code :
                  /\ code1(s)[k] \in Instruction
                  /\ IF s = b THEN LookedUp(fn, dom, b, code1(s)[k], fn.blocks[s].code[k])
                     ELSE code1(s)[k] = fn.blocks[s].code[k]
  <2>1. fn.blocks[s].code \in Seq(Instruction)
    BY <1>1, <1>7 DEF CodeKnown
  <2>2. code1(s) \in Seq(Instruction) /\ DOMAIN code1(s) = DOMAIN fn.blocks[s].code
    BY <1>4, <2>1
  <2>3. \A k \in DOMAIN code1(s) : code1(s)[k] \in Instruction
    <3> HIDE DEF code1
    <3> QED BY <2>2, LenProperties, ElementOfSeq
  <2> QED BY <1>4, <2>2, <2>3
<1>8. PhisBound([fn EXCEPT !.blocks[b].code = r.code], r.stack, b)
  <2> DEFINE f == [fn EXCEPT !.blocks[b].code = r.code]
  <2>1. \A s \in Blocks : f.blocks[s].code = code1(s) /\ f.blocks[s].succs = fn.blocks[s].succs
    BY <1>1 DEF FunctionFields, HasFields, BlockFields
  <2>2. ToSet(f.blocks[b].succs) = succs
    BY <1>1, <2>1
  <2> HIDE DEF f, code1, succs
  <2> SUFFICES PhisBound(f, r.stack, b)
    BY DEF f
  <2> SUFFICES ASSUME NEW s \in succs, NEW k \in DOMAIN f.blocks[s].code, f.blocks[s].code[k].op = "phi",
                      NEW i \in DOMAIN f.blocks[s].code[k].args, f.blocks[s].code[k].preds[i] = b
               PROVE  Bound(r.stack, f.blocks[s].code[k].args[i])
    BY <2>2 DEF PhisBound
  <2> DEFINE old == fn.blocks[s].code[k]
             mid == code1(s)[k]
  <2>3. CASE s \in Blocks
    <3>1. k \in DOMAIN fn.blocks[s].code /\ f.blocks[s].code[k] = mid /\ mid \in Instruction
      BY <1>7, <2>1, <2>3
    <3>2. IF s = b THEN LookedUp(fn, dom, b, mid, old) ELSE mid = old
      BY <1>7, <2>3, <3>1
    <3>3. IsPhi(old) /\ mid.args = old.args /\ mid.preds = old.preds
      BY <3>1, <3>2 DEF LookedUp, IsPhi
    <3>4. mid.args[i] \in Operand
      BY SMTT(30), <3>1, LenProperties, ElementOfSeq DEF Instruction
    <3>5. KnownAtEnd(fn, dom, mid.args[i], b)
      BY <1>1, <2>3, <3>1, <3>3 DEF CodeKnown, ArgsKnown
    <3> QED BY <1>3, <3>1, <3>4, <3>5 DEF EndsKnown
  <2>4. s \in Blocks
    BY <1>1 DEF GraphTypes, succs
  <2> QED BY <2>3, <2>4
<1>9. /\ phase' = "rename" /\ varStack' = r.stack
      /\ calls' = Append(Front(calls), [Call EXCEPT !.pushed = r.pushed, !.children = domTree(b),
                                                    !.entered = TRUE])
      /\ fn' = [f1 EXCEPT !.blocks = [s \in DOMAIN @ |-> IF s \in succs THEN filled(s) ELSE @[s]]]
  <2>1. ~(\/ r.failed
          \/ \E i \in DOMAIN term.args : ~Bound(r.stack, term.args[i])
          \/ ~PhisBound([fn EXCEPT !.blocks[b].code = r.code], r.stack, b))
    BY <1>4, <1>6, <1>8
  <2> QED BY ZenonT(60), <2>1 DEF Rename, r
<1>10. /\ DOMAIN f1 = DOMAIN fn /\ DOMAIN f1.blocks = Blocks
       /\ \A s \in Blocks : /\ f1.blocks[s].code = code1(s) /\ DOMAIN f1.blocks[s] = BlockFields
                            /\ f1.blocks[s].term.args = IF s = b THEN looked ELSE fn.blocks[s].term.args
  BY <1>1 DEF FunctionFields, HasFields, BlockFields, TermFields
<1> HIDE DEF f1, looked, code1
<1>11. \A s \in Blocks :
         /\ fn'.blocks[s].code = IF s \in succs THEN [k \in DOMAIN code1(s) |-> FilledFrom(r.stack, b, code1(s)[k])]
                                 ELSE code1(s)
         /\ fn'.blocks[s].term.args = IF s = b THEN looked ELSE fn.blocks[s].term.args
  <2>1. fn'.blocks = [s \in Blocks |-> IF s \in succs THEN filled(s) ELSE f1.blocks[s]]
    BY <1>1, <1>9, <1>10 DEF FunctionFields
  <2>2. ASSUME NEW s \in Blocks
        PROVE  /\ filled(s).code = [k \in DOMAIN code1(s) |-> FilledFrom(r.stack, b, code1(s)[k])]
               /\ filled(s).term = f1.blocks[s].term
    BY <1>10 DEF BlockFields
  <2> HIDE DEF filled
  <2> QED BY <1>10, <2>1, <2>2
<1> HIDE DEF filled
<1>12. SameGraph(fn, fn') /\ FunctionFields(fn')
  <2>1. SameGraph(fn, fn)
    BY <1>1 DEF SameGraph, SameExits, FunctionFields
  <2> QED BY <1>1, <2>1, RenameKeepsGraph
<1>13. ASSUME NEW s \in Blocks, NEW k \in DOMAIN fn.blocks[s].code
       PROVE  /\ DoneWith(fn, dom, b, s, fn'.blocks[s].code[k], fn.blocks[s].code[k])
              /\ GivesAs(fn'.blocks[s].code[k], code1(s)[k])
  <2> DEFINE old == fn.blocks[s].code[k]
             mid == code1(s)[k]
  <2>1. /\ mid \in Instruction /\ k \in DOMAIN code1(s)
        /\ IF s = b THEN LookedUp(fn, dom, b, mid, old) ELSE mid = old
    BY <1>7
  <2>2. CASE s \in succs
    <3>1. fn'.blocks[s].code[k] = FilledFrom(r.stack, b, mid)
      BY <1>11, <2>1, <2>2
    <3> HIDE DEF mid
    <3>2. DoneWith(fn, dom, b, s, FilledFrom(r.stack, b, mid), old) /\ GivesAs(FilledFrom(r.stack, b, mid), mid)
      BY <1>1, <1>3, <2>1, FilledIsDone
    <3> QED BY <3>1, <3>2 DEF mid
  <2>3. CASE s \notin succs
    <3>1. fn'.blocks[s].code[k] = mid
      BY <1>11, <2>1, <2>3
    <3>2. IsPhi(old) => \A j \in DOMAIN old.args : old.preds[j] # b
      BY <1>1, <2>3 DEF CodeKnown, ArgsKnown
    <3> HIDE DEF mid, old
    <3>3. InstrReplaced(fn, dom, s, mid, old)
      BY <2>1 DEF LookedUp, InstrReplaced, Replaces
    <3>4. ~IsPhi(old) /\ s = b => \A j \in DOMAIN old.args : ~IsRef(mid.args[j])
      BY <2>1 DEF LookedUp, IsValue
    <3>5. DoneWith(fn, dom, b, s, mid, old)
      BY <2>1, <3>2, <3>3, <3>4 DEF DoneWith
    <3>6. GivesAs(mid, mid)
      BY DEF GivesAs
    <3> QED BY <3>1, <3>5, <3>6 DEF old, mid
  <2> QED BY <2>2, <2>3
<1>14. ASSUME NEW s \in Blocks
       PROVE  fn'.blocks[s].code \in Seq(Instruction) /\ DOMAIN fn'.blocks[s].code = DOMAIN fn.blocks[s].code
  <2> DEFINE c == fn'.blocks[s].code
             d == fn.blocks[s].code
  <2>1. \A k \in DOMAIN d : c[k] \in Instruction
    BY <1>13 DEF DoneWith
  <2>2. DOMAIN d = 1 .. Len(d) /\ Len(d) \in Nat
    BY <1>1, LenProperties DEF CodeKnown
  <2>3. DOMAIN code1(s) = DOMAIN d /\ code1(s) \in Seq(Instruction)
    BY <1>7
  <2>4. CASE s \in succs
    <3>1. c = [k \in DOMAIN d |-> FilledFrom(r.stack, b, code1(s)[k])]
      BY <1>11, <2>3, <2>4
    <3> HIDE DEF d
    <3>2. c = [k \in DOMAIN d |-> c[k]] /\ DOMAIN c = DOMAIN d
      BY <3>1
    <3> HIDE DEF c
    <3>3. c \in [1 .. Len(d) -> Instruction]
      BY <2>1, <2>2, <3>2
    <3> QED BY <2>2, <3>2, <3>3 DEF c, d
  <2>5. CASE s \notin succs
    BY <1>11, <2>3, <2>5
  <2> QED BY <2>4, <2>5
<1>15. ASSUME NEW s \in Blocks
       PROVE  /\ fn'.blocks[s].term.args \in Seq(Operand)
              /\ DOMAIN fn'.blocks[s].term.args = DOMAIN fn.blocks[s].term.args
              /\ \A i \in DOMAIN fn.blocks[s].term.args :
                   Replaces(fn, dom, s, fn'.blocks[s].term.args[i], fn.blocks[s].term.args[i])
              /\ s = b => \A i \in DOMAIN fn.blocks[s].term.args : ~IsRef(fn'.blocks[s].term.args[i])
  <2>1. CASE s = b
    <3>1. DOMAIN looked = DOMAIN term.args /\ \A i \in DOMAIN term.args : looked[i] = Lookup(r.stack, term.args[i])
      BY DEF looked
    <3>2. \A i \in DOMAIN term.args : IsValue(fn, dom, b, looked[i]) /\ Replaces(fn, dom, b, looked[i], term.args[i])
      BY <1>6, <3>1, LookupReplaces
    <3>3. looked \in Seq(Operand)
      <4>1. looked = [i \in DOMAIN term.args |-> looked[i]]
        BY DEF looked
      <4>2. looked \in [1 .. Len(term.args) -> Operand]
        <5> HIDE DEF term
        <5> QED BY <1>5, <3>2, <4>1 DEF IsValue
      <4> HIDE DEF term
      <4> QED BY <1>5, <4>2
    <3> QED BY <1>11, <2>1, <3>1, <3>2, <3>3 DEF IsValue
  <2>2. CASE s # b
    BY <1>1, <1>11, <2>2 DEF CodeKnown, Replaces
  <2> QED BY <2>1, <2>2
<1>16. OperandsReplaced(fn, dom, fn')
  <2>1. \A s \in Blocks : \A k \in DOMAIN fn.blocks[s].code :
          InstrReplaced(fn, dom, s, fn'.blocks[s].code[k], fn.blocks[s].code[k])
    BY SMTT(30), <1>13 DEF DoneWith
  <2> QED BY <1>1, <1>12, <1>14, <1>15, <2>1 DEF OperandsReplaced
<1>17. Finished(fn', b)
  <2>1. DOMAIN fn'.blocks = Blocks
    BY <1>1, <1>12 DEF SameGraph
  <2>2. ASSUME NEW s \in Blocks, NEW k \in DOMAIN fn'.blocks[s].code
        PROVE  LET new == fn'.blocks[s].code[k]
                   old == fn.blocks[s].code[k]
               IN  /\ (IsPhi(new) <=> IsPhi(old)) /\ new.preds = old.preds
                   /\ DOMAIN new.args = DOMAIN old.args
                   /\ IsPhi(old) => \A j \in DOMAIN old.args : old.preds[j] = b => ~IsRef(new.args[j])
                   /\ ~IsPhi(old) /\ s = b => \A j \in DOMAIN old.args : ~IsRef(new.args[j])
    <3>1. k \in DOMAIN fn.blocks[s].code
      BY <1>14
    <3>2. DoneWith(fn, dom, b, s, fn'.blocks[s].code[k], fn.blocks[s].code[k])
      BY <1>13, <3>1
    <3> QED BY <3>2 DEF DoneWith, InstrReplaced, IsPhi
  <2>3. \A i \in DOMAIN fn'.blocks[b].term.args : ~IsRef(fn'.blocks[b].term.args[i])
    BY <1>1, <1>15
  <2> QED BY <1>1, <2>1, <2>2, <2>3 DEF Finished
<1>18. \A k \in DOMAIN fn.blocks[b].code : GivesAs(fn'.blocks[b].code[k], r.code[k])
  <2>1. code1(b) = r.code
    BY DEF code1
  <2> QED BY <1>1, <1>13, <2>1
<1> QED BY <1>9, <1>16, <1>17, <1>18 DEF RenameEntered, r

-----------------------------------------------------------------------------
(* The active calls of rename and the stacks they have pushed.             *)
CallRecord == [block : Nat, pushed : Seq(Vars), children : SUBSET Nat, entered : BOOLEAN]
NewCall(b) == [block |-> b, pushed |-> << >>, children |-> {}, entered |-> FALSE]

\* c is a child of b in the dominator tree.
IsChild(D, B, b, c) == c \in B /\ c \notin D[b] /\ D[c] = D[b] \union {c}

\* The calls are on a path of the dominator tree, and all but the last have been
\* entered; the children of a call are those of its block in that tree.
OnPath(D, B, cs) ==
  /\ cs \in Seq(CallRecord) /\ cs # << >>
  /\ \A i \in DOMAIN cs :
       /\ cs[i].block \in B
       /\ D[cs[i].block] = {cs[j].block : j \in 1 .. i}
       /\ \A j \in 1 .. i - 1 : cs[j].block # cs[i].block
       /\ i < Len(cs) => cs[i].entered
       /\ ~cs[i].entered => cs[i].children = {} /\ cs[i].pushed = << >>
       /\ \A c \in cs[i].children : IsChild(D, B, cs[i].block, c)

\* The height of each stack once the first i calls have pushed: up to there it has
\* values made above the block of call i, and one of each variable it defines.
Heights(f, D, cs, stack, h) ==
  /\ h \in [0 .. Len(cs) -> [Vars -> Nat]]
  /\ \A x \in Vars : h[Len(cs)][x] = Len(stack[x])
  /\ \A i \in 1 .. Len(cs) : \A x \in Vars : h[i][x] = h[i - 1][x] + Count(cs[i].pushed, x)
  /\ \A i, j \in 0 .. Len(cs) : i <= j => \A x \in Vars : h[i][x] <= h[j][x]
  /\ \A i \in 1 .. Len(cs) : \A x \in Vars :
       /\ \A m \in 1 .. h[i][x] : MadeAbove(f, D, cs[i].block, stack[x][m])
       /\ cs[i].entered /\ Has(f, cs[i].block, x) => h[i][x] # 0

\* The last instruction of b that defines x gives it v.
GivesLast(f, b, x, v) ==
  \E k \in DOMAIN f.blocks[b].code :
    /\ f.blocks[b].code[k].sym = x
    /\ \A j \in DOMAIN f.blocks[b].code : f.blocks[b].code[j].sym = x => j <= k
    /\ GivesValue(f.blocks[b].code[k], v)

\* At its height a call has on top what its block gave last, if anything.
TopAt(f, c, stack, heights) ==
  \A x \in Vars :
    /\ c.entered /\ Has(f, c.block, x) => GivesLast(f, c.block, x, stack[x][heights[x]])
    /\ ~Has(f, c.block, x) => Count(c.pushed, x) = 0
Tops(f, cs, stack, h) ==
  /\ \A x \in Vars : h[0][x] = 0
  /\ \A i \in 1 .. Len(cs) : TopAt(f, cs[i], stack, h[i])

\* The first heights, and what stands below them, have not changed.
SameUpTo(h, k, m) == \A i \in 0 .. m : k[i] = h[i]
SameBelow(stack, left, heights) == \A x \in Vars : \A m \in 1 .. heights[x] : left[x][m] = stack[x][m]

\* A block still to be entered.
Awaits(cs, a) == \E i \in DOMAIN cs : a \in cs[i].children \/ (~cs[i].entered /\ a = cs[i].block)
Covered(f, D, cs) == \A b \in DOMAIN f.blocks : Finished(f, b) \/ \E a \in D[b] : Awaits(cs, a)

InRename(f, D, cs, stack) ==
  /\ DOMAIN f.blocks \subseteq Nat /\ InLines(D, DOMAIN f.blocks)
  /\ CodeKnown(f, D)
  /\ OnPath(D, DOMAIN f.blocks, cs)
  /\ stack \in [Vars -> Seq(Nat)]
  /\ \E h : Heights(f, D, cs, stack, h) /\ Tops(f, cs, stack, h)
  /\ Covered(f, D, cs)

\* ds is cs with the last call replaced by c.
LastReplaced(cs, ds, c) ==
  /\ ds \in Seq(CallRecord) /\ Len(ds) = Len(cs) /\ DOMAIN ds = 1 .. Len(cs)
  /\ \A i \in 1 .. Len(cs) - 1 : ds[i] = cs[i]
  /\ ds[Len(cs)] = c

LEMMA ReplacesLast ==
  ASSUME NEW cs \in Seq(CallRecord), cs # << >>, NEW c \in CallRecord
  PROVE  /\ Len(cs) \in Nat \ {0} /\ DOMAIN cs = 1 .. Len(cs)
         /\ Last(cs) = cs[Len(cs)] /\ Last(cs) \in CallRecord
         /\ LastReplaced(cs, Append(Front(cs), c), c)
<1> DEFINE n == Len(cs)
           p == Front(cs)
           ds == Append(p, c)
<1>1. /\ n \in Nat \ {0} /\ DOMAIN cs = 1 .. n
      /\ p \in Seq(CallRecord) /\ Len(p) = n - 1
      /\ \A i \in 1 .. n - 1 : p[i] = cs[i]
      /\ Last(cs) = cs[n] /\ Last(cs) \in CallRecord
  BY FrontIsPrefix
<1> HIDE DEF n, p
<1>2. /\ ds \in Seq(CallRecord) /\ Len(ds) = Len(p) + 1 /\ DOMAIN ds = 1 .. Len(p) + 1
      /\ \A i \in 1 .. Len(p) : ds[i] = p[i]
      /\ ds[Len(p) + 1] = c
  BY <1>1, AppendHolds
<1> HIDE DEF ds
<1>3. Len(p) + 1 = n
  BY <1>1
<1>4. LastReplaced(cs, ds, c)
  BY <1>1, <1>2, <1>3 DEF LastReplaced, n
<1> QED BY <1>1, <1>4 DEF n, ds, p

\* The stack at a block about to be entered has what the blocks above it define.
LEMMA HeightsSayStackBelow ==
  ASSUME NEW f, NEW D, NEW B, NEW cs, OnPath(D, B, cs),
         NEW stack \in [Vars -> Seq(Nat)], NEW h, Heights(f, D, cs, stack, h)
  PROVE  StackBelow(f, D, stack, cs[Len(cs)].block)
<1> DEFINE n == Len(cs)
           b == cs[n].block
<1>1. n \in Nat \ {0} /\ DOMAIN cs = 1 .. n /\ n \in 0 .. n /\ n \in DOMAIN cs
  BY LenProperties, EmptySeq DEF OnPath
<1>2. \A x \in Vars : Len(stack[x]) \in Nat /\ DOMAIN stack[x] = 1 .. Len(stack[x])
  BY LenProperties
<1>3. ASSUME NEW x \in Vars, NEW m \in DOMAIN stack[x]
      PROVE  MadeAbove(f, D, b, stack[x][m])
  <2>1. h[n][x] = Len(stack[x])
    BY DEF Heights
  <2>2. m \in 1 .. h[n][x]
    BY <1>2, <2>1
  <2> HIDE DEF b
  <2> QED BY <1>1, <2>2 DEF Heights, b
<1>4. ASSUME NEW x \in Vars, NEW d \in D[b] \ {b}, Has(f, d, x)
      PROVE  stack[x] # << >>
  <2> HIDE DEF n
  <2>1. D[b] = {cs[j].block : j \in 1 .. n}
    BY <1>1 DEF OnPath
  <2>2. PICK j \in 1 .. n : d = cs[j].block
    BY <2>1
  <2>3. j # n
    BY <1>4, <2>2
  <2>4. j \in DOMAIN cs /\ j < n /\ j \in 0 .. n /\ j <= n
    BY <1>1, <2>2, <2>3
  <2>5. cs[j].entered
    BY <2>4 DEF OnPath, n
  <2>6. h[j][x] # 0
    BY <1>4, <2>2, <2>5 DEF Heights, n
  <2>7. h[j][x] <= h[n][x] /\ h[j][x] \in Nat /\ h[n][x] = Len(stack[x])
    BY <1>1, <2>4 DEF Heights, n
  <2>8. Len(stack[x]) # 0
    BY <1>2, <2>6, <2>7
  <2> QED BY <2>8, EmptySeq
<1> HIDE DEF b
<1> QED BY <1>3, <1>4 DEF StackBelow, StackKnown, b, n

\* Nor does it matter to heights that operands are replaced.
LEMMA HeightsStay ==
  ASSUME NEW f, NEW D \in [DOMAIN f.blocks -> SUBSET DOMAIN f.blocks], NEW g, OperandsReplaced(f, D, g),
         NEW cs, \A i \in 1 .. Len(cs) : cs[i].block \in DOMAIN f.blocks,
         NEW stack, NEW h, Heights(f, D, cs, stack, h)
  PROVE  Heights(g, D, cs, stack, h)
<1>1. ASSUME NEW i \in 1 .. Len(cs), NEW x \in Vars
      PROVE  /\ \A m \in 1 .. h[i][x] : MadeAbove(g, D, cs[i].block, stack[x][m])
             /\ cs[i].entered /\ Has(g, cs[i].block, x) => h[i][x] # 0
  <2> DEFINE b == cs[i].block
  <2>1. b \in DOMAIN f.blocks /\ D[b] \subseteq DOMAIN f.blocks
    OBVIOUS
  <2>2. Has(g, b, x) <=> Has(f, b, x)
    BY <2>1, ReplacedDefines
  <2>3. \A v : MadeAbove(f, D, b, v) => MadeAbove(g, D, b, v)
    BY <2>1, ReplacedDefines DEF MadeAbove
  <2> HIDE DEF b
  <2>4. /\ \A m \in 1 .. h[i][x] : MadeAbove(f, D, b, stack[x][m])
        /\ cs[i].entered /\ Has(f, b, x) => h[i][x] # 0
    BY DEF Heights, b
  <2> QED BY <2>2, <2>3, <2>4 DEF b
<1> QED BY <1>1 DEF Heights

LEMMA CountEmpty == \A x : Count(<< >>, x) = 0
<1>1. \A x : {i \in DOMAIN << >> : << >>[i] = x} = {}
  BY EmptyHolds
<1> QED BY <1>1, FS_EmptySet DEF Count

LEMMA CountIsNatural ==
  ASSUME NEW E, NEW s \in Seq(E), NEW x
  PROVE  Count(s, x) \in Nat
<1>1. IsFiniteSet(DOMAIN s)
  BY LenProperties, FS_Interval
<1>2. IsFiniteSet({i \in DOMAIN s : s[i] = x})
  BY <1>1, FS_Subset
<1> QED BY <1>2, FS_CardinalityType DEF Count

\* The last call pushes what its block defines.
LEMMA HeightsGrow ==
  ASSUME NEW f, NEW D, NEW B, NEW cs, OnPath(D, B, cs), ~cs[Len(cs)].entered,
         NEW stack \in [Vars -> Seq(Nat)], NEW h, Heights(f, D, cs, stack, h),
         NEW b, b = cs[Len(cs)].block,
         NEW r, RenamedUpTo(f, D, stack, b, r, Len(f.blocks[b].code)),
         f.blocks[b].code \in Seq(Instruction),
         NEW c, c.block = b, c.pushed = r.pushed,
         NEW ds, LastReplaced(cs, ds, c)
  PROVE  \E k : Heights(f, D, ds, r.stack, k) /\ SameUpTo(h, k, Len(cs) - 1)
<1> DEFINE n == Len(cs)
           top == [x \in Vars |-> Len(r.stack[x])]
           k == [i \in 0 .. n |-> IF i = n THEN top ELSE h[i]]
<1>1. /\ n \in Nat \ {0} /\ DOMAIN cs = 1 .. n /\ n - 1 \in 0 .. n /\ n \in 0 .. n /\ n - 1 # n
      /\ \A i \in 1 .. n : i \in 0 .. n /\ i - 1 \in 0 .. n /\ (i # n => i \in 1 .. n - 1 /\ i - 1 # n)
      /\ n \in DOMAIN cs
  BY LenProperties, EmptySeq DEF OnPath
<1>2. Len(ds) = n /\ (\A i \in 1 .. n - 1 : ds[i] = cs[i]) /\ ds[n] = c
  BY SMTT(30) DEF LastReplaced
<1>3. cs[n].pushed = << >>
  BY <1>1 DEF OnPath
<1> HIDE DEF n
<1>4. /\ h \in [0 .. n -> [Vars -> Nat]]
      /\ \A x \in Vars : h[n][x] = Len(stack[x])
      /\ \A i \in 1 .. n : \A x \in Vars : h[i][x] = h[i - 1][x] + Count(cs[i].pushed, x)
      /\ \A i, j \in 0 .. n : i <= j => \A x \in Vars : h[i][x] <= h[j][x]
      /\ \A i \in 1 .. n : \A x \in Vars :
           /\ \A m \in 1 .. h[i][x] : MadeAbove(f, D, cs[i].block, stack[x][m])
           /\ cs[i].entered /\ Has(f, cs[i].block, x) => h[i][x] # 0
  BY SMTT(30) DEF Heights, n
<1>5. /\ r \in Renamings /\ StackKnown(f, D, r.stack, b)
      /\ \A x \in Vars : Grown(stack[x], r.stack[x], Count(r.pushed, x))
      /\ \A i \in 1 .. Len(f.blocks[b].code) :
           f.blocks[b].code[i].sym # None => r.stack[f.blocks[b].code[i].sym] # << >>
  BY ZenonT(60) DEF RenamedUpTo
<1>6. \A x \in Vars : /\ r.stack[x] \in Seq(Nat) /\ Len(r.stack[x]) \in Nat /\ DOMAIN r.stack[x] = 1 .. Len(r.stack[x])
                      /\ Len(stack[x]) \in Nat /\ DOMAIN stack[x] = 1 .. Len(stack[x])
                      /\ r.pushed \in Seq(Vars)
  BY <1>5, LenProperties DEF Renamings
<1>7. \A x \in Vars : Count(r.pushed, x) \in Nat
  BY SMTT(30), <1>6, CountIsNatural
<1>8. \A x \in Vars : /\ Len(r.stack[x]) = Len(stack[x]) + Count(r.pushed, x)
                      /\ \A m \in 1 .. Len(stack[x]) : r.stack[x][m] = stack[x][m]
  BY <1>5, <1>6 DEF Grown
<1>9. \A x \in Vars : h[n - 1][x] \in Nat /\ h[n - 1][x] = Len(stack[x])
  <2>1. ASSUME NEW x \in Vars
        PROVE  h[n - 1][x] \in Nat /\ h[n - 1][x] = Len(stack[x])
    <3>1. Count(<< >>, x) = 0
      BY CountEmpty
    <3>2. h[n][x] = h[n - 1][x] + Count(cs[n].pushed, x) /\ h[n][x] = Len(stack[x]) /\ h[n - 1][x] \in Nat
      BY <1>1, <1>4
    <3> QED BY <1>3, <3>1, <3>2
  <2> QED BY <2>1
<1>10. /\ top \in [Vars -> Nat] /\ \A x \in Vars : top[x] = Len(r.stack[x]) /\ Len(stack[x]) <= top[x]
  BY <1>6, <1>7, <1>8
<1> HIDE DEF top
<1>11. /\ k \in [0 .. n -> [Vars -> Nat]] /\ k[n] = top
       /\ \A i \in 0 .. n : i # n => k[i] = h[i]
  BY <1>1, <1>4, <1>10
<1>12. SameUpTo(h, k, n - 1)
  <2>1. \A i \in 0 .. n - 1 : i \in 0 .. n /\ i # n
    BY <1>1
  <2> QED BY <1>11, <2>1 DEF SameUpTo
<1> HIDE DEF k
<1>13. ASSUME NEW i \in 1 .. n, NEW x \in Vars
       PROVE  k[i][x] = k[i - 1][x] + Count(ds[i].pushed, x)
  <2>1. CASE i = n
    <3>1. k[i][x] = Len(stack[x]) + Count(r.pushed, x)
      BY <1>8, <1>10, <1>11, <2>1
    <3>2. k[i - 1][x] = Len(stack[x])
      BY <1>1, <1>9, <1>11, <2>1
    <3>3. ds[i].pushed = r.pushed
      BY <1>2, <2>1
    <3> QED BY <3>1, <3>2, <3>3
  <2>2. CASE i # n
    <3>1. k[i] = h[i] /\ k[i - 1] = h[i - 1] /\ ds[i] = cs[i]
      BY <1>1, <1>2, <1>11, <2>2
    <3> QED BY <1>4, <3>1
  <2> QED BY <2>1, <2>2
<1>14. ASSUME NEW i \in 0 .. n, NEW j \in 0 .. n, i <= j, NEW x \in Vars
       PROVE  k[i][x] <= k[j][x]
  <2>1. CASE i = n
    <3>1. i = j
      BY <1>1, <1>14, <2>1
    <3>2. k[i][x] \in Nat
      BY <1>11
    <3> QED BY <3>1, <3>2
  <2>2. CASE i # n /\ j = n
    <3>1. i <= n - 1 /\ n - 1 \in 0 .. n
      BY <1>1, <2>2
    <3>2. k[i][x] <= Len(stack[x]) /\ k[i][x] \in Nat
      BY <1>4, <1>9, <1>11, <2>2, <3>1
    <3>3. Len(stack[x]) <= k[j][x] /\ k[j][x] \in Nat
      BY <1>10, <1>11, <2>2
    <3> QED BY <1>6, <3>2, <3>3
  <2>3. CASE i # n /\ j # n
    BY <1>4, <1>11, <1>14, <2>3
  <2> QED BY <2>1, <2>2, <2>3
<1>15. ASSUME NEW i \in 1 .. n, NEW x \in Vars
       PROVE  /\ \A m \in 1 .. k[i][x] : MadeAbove(f, D, ds[i].block, r.stack[x][m])
              /\ ds[i].entered /\ Has(f, ds[i].block, x) => k[i][x] # 0
  <2>1. CASE i = n
    <3>1. ds[i].block = b /\ k[i][x] = Len(r.stack[x])
      BY SMTT(30), <1>2, <1>10, <1>11, <2>1
    <3>2. \A m \in 1 .. Len(r.stack[x]) : MadeAbove(f, D, b, r.stack[x][m])
      BY <1>5, <1>6 DEF StackKnown
    <3>3. ASSUME Has(f, b, x) PROVE Len(r.stack[x]) # 0
      <4>1. PICK j \in DOMAIN f.blocks[b].code : f.blocks[b].code[j].sym = x
        BY <3>3 DEF Has
      <4>2. j \in 1 .. Len(f.blocks[b].code)
        BY <4>1, LenProperties
      <4>3. x # None
        BY ControlFlowAssumption
      <4>4. r.stack[x] # << >>
        BY <1>5, <4>1, <4>2, <4>3
      <4> QED BY SMTT(30), <1>6, <4>4, EmptySeq
    <3> QED BY <3>1, <3>2, <3>3
  <2>2. CASE i # n
    <3>1. k[i] = h[i] /\ ds[i] = cs[i] /\ i \in 0 .. n - 1 /\ i \in 0 .. n /\ i <= n - 1 /\ n - 1 \in 0 .. n
      BY <1>1, <1>2, <1>11, <2>2
    <3>2. h[i][x] <= Len(stack[x]) /\ h[i][x] \in Nat
      BY <1>4, <1>9, <3>1
    <3>3. \A m \in 1 .. h[i][x] : m \in 1 .. Len(stack[x])
      BY <1>6, <3>2
    <3>4. \A m \in 1 .. h[i][x] : r.stack[x][m] = stack[x][m]
      BY <1>8, <3>3
    <3>5. /\ \A m \in 1 .. h[i][x] : MadeAbove(f, D, cs[i].block, stack[x][m])
          /\ cs[i].entered /\ Has(f, cs[i].block, x) => h[i][x] # 0
      BY <1>4
    <3> QED BY <3>1, <3>4, <3>5
  <2> QED BY <2>1, <2>2
<1>16. \A x \in Vars : k[n][x] = Len(r.stack[x])
  BY <1>10, <1>11
<1>17. Heights(f, D, ds, r.stack, k)
  BY <1>2, <1>11, <1>13, <1>14, <1>15, <1>16 DEF Heights
<1> QED BY <1>17, <1>12 DEF n

\* One call replaced by another of the same block that has been entered.
LEMMA PathReplaced ==
  ASSUME NEW D, NEW B, NEW cs, OnPath(D, B, cs), NEW c \in CallRecord, NEW ds, LastReplaced(cs, ds, c),
         c.block = cs[Len(cs)].block, c.entered,
         \A a \in c.children : IsChild(D, B, c.block, a)
  PROVE  OnPath(D, B, ds)
<1> DEFINE n == Len(cs)
<1>1. n \in Nat \ {0} /\ DOMAIN cs = 1 .. n /\ n \in DOMAIN cs
  BY LenProperties, EmptySeq DEF OnPath
<1>2. /\ ds \in Seq(CallRecord) /\ Len(ds) = n /\ DOMAIN ds = 1 .. n
      /\ (\A i \in 1 .. n - 1 : ds[i] = cs[i]) /\ ds[n] = c
  BY DEF LastReplaced
<1> HIDE DEF n
<1>3. ds # << >>
  BY <1>1, <1>2, EmptySeq
<1>4. \A i \in 1 .. n : i # n => ds[i] = cs[i]
  BY SMTT(30), <1>1, <1>2
<1>5. \A i \in 1 .. n : ds[i].block = cs[i].block
  BY <1>2, <1>4 DEF n
<1>6. \A i \in 1 .. n : (\A j \in 1 .. i : j \in 1 .. n) /\ \A j \in 1 .. i - 1 : j \in 1 .. n
  BY <1>1
<1>7. \A i \in 1 .. n : {ds[j].block : j \in 1 .. i} = {cs[j].block : j \in 1 .. i}
  BY <1>5, <1>6
<1>8. \A i \in 1 .. n : i < n => i # n
  BY <1>1
<1>9. ASSUME NEW i \in 1 .. n
      PROVE  /\ ds[i].block \in B
             /\ D[ds[i].block] = {ds[j].block : j \in 1 .. i}
             /\ \A j \in 1 .. i - 1 : ds[j].block # ds[i].block
             /\ i < n => ds[i].entered
             /\ ~ds[i].entered => ds[i].children = {} /\ ds[i].pushed = << >>
             /\ \A a \in ds[i].children : IsChild(D, B, ds[i].block, a)
  <2>1. /\ cs[i].block \in B
        /\ D[cs[i].block] = {cs[j].block : j \in 1 .. i}
        /\ \A j \in 1 .. i - 1 : cs[j].block # cs[i].block
        /\ i < n => cs[i].entered
        /\ ~cs[i].entered => cs[i].children = {} /\ cs[i].pushed = << >>
        /\ \A a \in cs[i].children : IsChild(D, B, cs[i].block, a)
    BY <1>1 DEF OnPath, n
  <2>2. \A j \in 1 .. i - 1 : ds[j].block # ds[i].block
    BY <1>5, <1>6, <2>1
  <2>3. CASE i # n
    BY <1>4, <1>7, <2>1, <2>3, <2>2
  <2>4. CASE i = n
    <3>1. ds[i] = c /\ ~(i < n)
      BY <1>1, <1>2, <2>4
    <3> QED BY <1>5, <1>7, <2>1, <2>2, <3>1
  <2> QED BY <2>3, <2>4
<1> QED BY <1>2, <1>3, <1>9 DEF OnPath

\* A child of the block of the last call is called in its turn.
LEMMA PathExtended ==
  ASSUME NEW D, NEW B, B \subseteq Nat, NEW cs, OnPath(D, B, cs), cs[Len(cs)].entered,
         NEW a, IsChild(D, B, cs[Len(cs)].block, a)
  PROVE  OnPath(D, B, Append(cs, NewCall(a)))
<1> DEFINE n == Len(cs)
           ds == Append(cs, NewCall(a))
<1>1. n \in Nat \ {0} /\ DOMAIN cs = 1 .. n /\ n \in DOMAIN cs /\ cs \in Seq(CallRecord)
  BY LenProperties, EmptySeq DEF OnPath
<1>2. a \in B /\ a \notin D[cs[n].block] /\ D[a] = D[cs[n].block] \union {a}
  BY DEF IsChild
<1>3. << >> \in Seq(Vars) /\ NewCall(a) \in CallRecord
  BY <1>2, EmptySeq DEF CallRecord, NewCall
<1>4. /\ ds \in Seq(CallRecord) /\ Len(ds) = n + 1 /\ DOMAIN ds = 1 .. n + 1
      /\ (\A i \in 1 .. n : ds[i] = cs[i]) /\ ds[n + 1] = NewCall(a)
  BY <1>1, <1>3, AppendHolds
<1> HIDE DEF n, ds
<1>5. ds # << >>
  BY <1>1, <1>4, EmptySeq
<1>6. \A i \in 1 .. n + 1 : /\ i \in 1 .. n \/ i = n + 1
                            /\ \A j \in 1 .. i : i \in 1 .. n => j \in 1 .. n
                            /\ \A j \in 1 .. i - 1 : j \in 1 .. n
  BY <1>1
<1>7. \A i \in 1 .. n : {ds[j].block : j \in 1 .. i} = {cs[j].block : j \in 1 .. i}
  <2>1. \A i \in 1 .. n : \A j \in 1 .. i : ds[j] = cs[j]
    BY <1>1, <1>4
  <2> QED BY <2>1
<1>8. 1 .. n + 1 = (1 .. n) \union {n + 1} /\ \A i \in 1 .. n : i < n + 1
  BY <1>1
<1>9. {ds[j].block : j \in 1 .. n + 1} = {ds[j].block : j \in 1 .. n} \union {a}
  BY SMTT(30), <1>4, <1>8 DEF NewCall
<1>10. \A i \in 1 .. n : cs[i].entered
  <2>1. \A i \in 1 .. n : i < n \/ i = n
    BY <1>1
  <2> QED BY <1>1, <2>1 DEF OnPath, n
<1>11. ASSUME NEW i \in 1 .. n + 1
       PROVE  /\ ds[i].block \in B
              /\ D[ds[i].block] = {ds[j].block : j \in 1 .. i}
              /\ \A j \in 1 .. i - 1 : ds[j].block # ds[i].block
              /\ i < n + 1 => ds[i].entered
              /\ ~ds[i].entered => ds[i].children = {} /\ ds[i].pushed = << >>
              /\ \A c \in ds[i].children : IsChild(D, B, ds[i].block, c)
  <2>1. CASE i \in 1 .. n
    <3>1. /\ cs[i].block \in B
          /\ D[cs[i].block] = {cs[j].block : j \in 1 .. i}
          /\ \A j \in 1 .. i - 1 : cs[j].block # cs[i].block
          /\ \A c \in cs[i].children : IsChild(D, B, cs[i].block, c)
      BY <1>1, <2>1 DEF OnPath
    <3>2. ds[i] = cs[i] /\ cs[i].entered /\ \A j \in 1 .. i - 1 : ds[j] = cs[j]
      BY <1>4, <1>6, <1>10, <2>1
    <3> QED BY <1>7, <2>1, <3>1, <3>2
  <2>2. CASE i = n + 1
    <3>1. ds[i].block = a /\ ds[i].children = {} /\ ds[i].pushed = << >> /\ ~(i < n + 1)
      BY <1>1, <1>4, <2>2 DEF NewCall
    <3>2. n \in 1 .. n /\ D[cs[n].block] = {cs[j].block : j \in 1 .. n}
      BY <1>1 DEF OnPath
    <3>3. D[a] = {ds[j].block : j \in 1 .. n} \union {a}
      BY <1>7, <1>2, <3>2
    <3>4. \A j \in 1 .. n : ds[j].block # a
      BY <1>7, <1>2, <3>2
    <3> QED BY <1>6, <1>9, <1>2, <2>2, <3>1, <3>3, <3>4
  <2> QED BY <1>6, <2>1, <2>2
<1>12. OnPath(D, B, ds)
  BY <1>4, <1>5, <1>11 DEF OnPath
<1> QED BY <1>12 DEF ds

\* The last call returns to the one before.
LEMMA PathShortened ==
  ASSUME NEW D, NEW B, NEW cs, OnPath(D, B, cs), Len(cs) # 1
  PROVE  OnPath(D, B, Front(cs))
<1> DEFINE n == Len(cs)
           ds == Front(cs)
<1>1. cs \in Seq(CallRecord) /\ cs # << >>
  BY DEF OnPath
<1>2. /\ n \in Nat \ {0} /\ DOMAIN cs = 1 .. n
      /\ ds \in Seq(CallRecord) /\ Len(ds) = n - 1 /\ DOMAIN ds = 1 .. n - 1
      /\ \A i \in 1 .. n - 1 : ds[i] = cs[i]
  BY <1>1, FrontIsPrefix
<1> HIDE DEF ds
<1>3. n \in Nat \ {0, 1} /\ n - 1 \in Nat \ {0}
  BY <1>2
<1> HIDE DEF n
<1>4. ds # << >>
  BY <1>2, <1>3, EmptySeq
<1>5. \A i \in 1 .. n - 1 : /\ i \in 1 .. n /\ i < n /\ \A j \in 1 .. i : j \in 1 .. n - 1
                            /\ \A j \in 1 .. i - 1 : j \in 1 .. n - 1
  BY <1>3
<1>6. \A i \in 1 .. n - 1 : {ds[j].block : j \in 1 .. i} = {cs[j].block : j \in 1 .. i}
  BY <1>2, <1>5
<1>7. ASSUME NEW i \in 1 .. n - 1
      PROVE  /\ ds[i].block \in B
             /\ D[ds[i].block] = {ds[j].block : j \in 1 .. i}
             /\ \A j \in 1 .. i - 1 : ds[j].block # ds[i].block
             /\ ds[i].entered
             /\ \A a \in ds[i].children : IsChild(D, B, ds[i].block, a)
  <2>1. i \in DOMAIN cs /\ i < Len(cs) /\ ds[i] = cs[i]
    BY <1>2, <1>5 DEF n
  <2>2. /\ cs[i].block \in B
        /\ D[cs[i].block] = {cs[j].block : j \in 1 .. i}
        /\ \A j \in 1 .. i - 1 : cs[j].block # cs[i].block
        /\ cs[i].entered
        /\ \A a \in cs[i].children : IsChild(D, B, cs[i].block, a)
    BY <2>1 DEF OnPath
  <2>3. \A j \in 1 .. i - 1 : ds[j] = cs[j]
    BY <1>2, <1>5
  <2> QED BY <1>6, <2>1, <2>2, <2>3
<1>8. OnPath(D, B, ds)
  BY <1>2, <1>4, <1>7 DEF OnPath
<1> QED BY <1>8 DEF ds

\* A call that has pushed nothing has the heights of the one before.
LEMMA HeightsExtended ==
  ASSUME NEW f, NEW D, NEW cs, NEW ds, Len(cs) \in Nat \ {0}, Len(ds) = Len(cs) + 1,
         \A i \in 1 .. Len(cs) : /\ ds[i].block = cs[i].block /\ ds[i].pushed = cs[i].pushed
                                 /\ ds[i].entered => cs[i].entered,
         ds[Len(cs) + 1].pushed = << >>, ~ds[Len(cs) + 1].entered,
         D[cs[Len(cs)].block] \subseteq D[ds[Len(cs) + 1].block],
         NEW stack, NEW h, Heights(f, D, cs, stack, h)
  PROVE  \E k : Heights(f, D, ds, stack, k) /\ SameUpTo(h, k, Len(cs))
<1> DEFINE n == Len(cs)
           k == [i \in 0 .. n + 1 |-> IF i = n + 1 THEN h[n] ELSE h[i]]
<1>1. /\ n \in Nat \ {0} /\ Len(ds) = n + 1 /\ n + 1 \in 0 .. n + 1 /\ n \in 0 .. n /\ n \in 1 .. n
      /\ \A i \in 0 .. n + 1 : i # n + 1 => i \in 0 .. n
      /\ \A i \in 0 .. n : i \in 0 .. n + 1 /\ i # n + 1 /\ i <= n
      /\ \A i \in 1 .. n + 1 : i # n + 1 => i \in 1 .. n
      /\ \A i \in 1 .. n : i \in 0 .. n /\ i - 1 \in 0 .. n
      /\ (n + 1) - 1 = n
  OBVIOUS
<1>2. \A i \in 1 .. n : /\ ds[i].block = cs[i].block /\ ds[i].pushed = cs[i].pushed
                        /\ ds[i].entered => cs[i].entered
  OBVIOUS
<1>3. ds[n + 1].pushed = << >> /\ ~ds[n + 1].entered /\ D[cs[n].block] \subseteq D[ds[n + 1].block]
  OBVIOUS
<1> HIDE DEF n
<1>4. /\ h \in [0 .. n -> [Vars -> Nat]]
      /\ \A x \in Vars : h[n][x] = Len(stack[x])
      /\ \A i \in 1 .. n : \A x \in Vars : h[i][x] = h[i - 1][x] + Count(cs[i].pushed, x)
      /\ \A i, j \in 0 .. n : i <= j => \A x \in Vars : h[i][x] <= h[j][x]
      /\ \A i \in 1 .. n : \A x \in Vars :
           /\ \A m \in 1 .. h[i][x] : MadeAbove(f, D, cs[i].block, stack[x][m])
           /\ cs[i].entered /\ Has(f, cs[i].block, x) => h[i][x] # 0
  BY DEF Heights, n
<1>5. /\ k \in [0 .. n + 1 -> [Vars -> Nat]] /\ k[n + 1] = h[n]
      /\ \A i \in 0 .. n : k[i] = h[i]
  BY <1>1, <1>4
<1> HIDE DEF k
<1>6. ASSUME NEW i \in 1 .. n + 1, NEW x \in Vars
      PROVE  /\ k[i][x] = k[i - 1][x] + Count(ds[i].pushed, x)
             /\ \A m \in 1 .. k[i][x] : MadeAbove(f, D, ds[i].block, stack[x][m])
             /\ ds[i].entered /\ Has(f, ds[i].block, x) => k[i][x] # 0
  <2>1. CASE i = n + 1
    <3>1. k[i] = h[n] /\ k[i - 1] = h[n] /\ h[n][x] \in Nat
      BY <1>1, <1>4, <1>5, <2>1
    <3>2. Count(ds[i].pushed, x) = 0
      BY <1>3, <2>1, CountEmpty
    <3>3. \A m \in 1 .. h[n][x] : MadeAbove(f, D, cs[n].block, stack[x][m])
      BY <1>1, <1>4
    <3>4. \A v : MadeAbove(f, D, cs[n].block, v) => MadeAbove(f, D, ds[i].block, v)
      BY <1>3, <2>1 DEF MadeAbove
    <3> QED BY <1>3, <2>1, <3>1, <3>2, <3>3, <3>4
  <2>2. CASE i # n + 1
    <3>1. i \in 1 .. n /\ k[i] = h[i] /\ k[i - 1] = h[i - 1]
      BY <1>1, <1>5, <2>2
    <3>2. ds[i].block = cs[i].block /\ ds[i].pushed = cs[i].pushed /\ (ds[i].entered => cs[i].entered)
      BY <1>2, <3>1
    <3> QED BY <1>4, <3>1, <3>2
  <2> QED BY <2>1, <2>2
<1>7. ASSUME NEW i \in 0 .. n + 1, NEW j \in 0 .. n + 1, i <= j, NEW x \in Vars
      PROVE  k[i][x] <= k[j][x]
  <2>1. CASE i = n + 1
    <3>1. i = j /\ k[i][x] \in Nat
      BY <1>1, <1>5, <1>7, <2>1
    <3> QED BY <3>1
  <2>2. CASE i # n + 1 /\ j = n + 1
    <3>1. i \in 0 .. n /\ i <= n /\ k[i] = h[i] /\ k[j] = h[n]
      BY <1>1, <1>5, <2>2
    <3> QED BY <1>1, <1>4, <3>1
  <2>3. CASE i # n + 1 /\ j # n + 1
    <3>1. i \in 0 .. n /\ j \in 0 .. n /\ k[i] = h[i] /\ k[j] = h[j]
      BY <1>1, <1>5, <2>3
    <3> QED BY <1>4, <1>7, <3>1
  <2> QED BY <2>1, <2>2, <2>3
<1>8. \A x \in Vars : k[n + 1][x] = Len(stack[x])
  BY <1>4, <1>5
<1>9. Heights(f, D, ds, stack, k)
  BY <1>1, <1>5, <1>6, <1>7, <1>8 DEF Heights
<1> QED BY <1>5, <1>9 DEF SameUpTo, n

\* Undoing the pushes of the last call leaves the heights before it.
LEMMA HeightsShortened ==
  ASSUME NEW f, NEW D, NEW cs, NEW ds, Len(cs) \in Nat \ {0, 1}, Len(ds) = Len(cs) - 1,
         \A i \in 1 .. Len(cs) - 1 : ds[i] = cs[i],
         cs[Len(cs)].pushed \in Seq(Vars),
         NEW stack \in [Vars -> Seq(Nat)], NEW h, Heights(f, D, cs, stack, h),
         NEW left, left = [x \in Vars |-> SubSeq(stack[x], 1, Len(stack[x]) - Count(cs[Len(cs)].pushed, x))]
  PROVE  /\ left \in [Vars -> Seq(Nat)]
         /\ \E k : Heights(f, D, ds, left, k) /\ SameUpTo(h, k, Len(cs) - 1)
         /\ SameBelow(stack, left, h[Len(cs) - 1])
<1> DEFINE n == Len(cs)
           p == cs[n].pushed
           k == [i \in 0 .. n - 1 |-> h[i]]
<1>1. /\ n \in Nat \ {0, 1} /\ Len(ds) = n - 1 /\ n - 1 \in 0 .. n - 1 /\ n \in 0 .. n /\ n \in 1 .. n
      /\ \A i \in 0 .. n - 1 : i \in 0 .. n /\ i <= n - 1
      /\ \A i \in 1 .. n - 1 : i \in 1 .. n /\ i \in 0 .. n - 1 /\ i - 1 \in 0 .. n - 1
  OBVIOUS
<1>2. \A i \in 1 .. n - 1 : ds[i] = cs[i]
  OBVIOUS
<1>3. \A x \in Vars : Count(p, x) \in Nat
  BY CountIsNatural
<1>4. \A x \in Vars : left[x] = SubSeq(stack[x], 1, Len(stack[x]) - Count(p, x))
  OBVIOUS
<1>5. left = [x \in Vars |-> left[x]]
  OBVIOUS
<1> HIDE DEF n
<1>6. /\ h \in [0 .. n -> [Vars -> Nat]]
      /\ \A x \in Vars : h[n][x] = Len(stack[x])
      /\ \A i \in 1 .. n : \A x \in Vars : h[i][x] = h[i - 1][x] + Count(cs[i].pushed, x)
      /\ \A i, j \in 0 .. n : i <= j => \A x \in Vars : h[i][x] <= h[j][x]
      /\ \A i \in 1 .. n : \A x \in Vars :
           /\ \A m \in 1 .. h[i][x] : MadeAbove(f, D, cs[i].block, stack[x][m])
           /\ cs[i].entered /\ Has(f, cs[i].block, x) => h[i][x] # 0
  BY DEF Heights, n
<1> HIDE DEF p
<1>7. ASSUME NEW x \in Vars
      PROVE  /\ left[x] \in Seq(Nat) /\ Len(left[x]) = h[n - 1][x]
             /\ \A m \in 1 .. h[n - 1][x] : left[x][m] = stack[x][m]
  <2> DEFINE s == stack[x]
             l == h[n - 1][x]
  <2>1. s \in Seq(Nat) /\ Len(s) \in Nat /\ DOMAIN s = 1 .. Len(s) /\ \A m \in 1 .. Len(s) : s[m] \in Nat
    BY LenProperties, ElementOfSeq
  <2>2. h[n][x] = h[n - 1][x] + Count(cs[n].pushed, x)
    BY <1>1, <1>6
  <2>3. l \in Nat /\ Len(s) = l + Count(p, x)
    BY <1>1, <1>6, <2>2 DEF p
  <2>4. left[x] = SubSeq(s, 1, Len(s) - Count(p, x))
    BY <1>4
  <2> HIDE DEF s, l
  <2>5. Len(s) - Count(p, x) = l /\ l <= Len(s)
    BY <1>3, <2>1, <2>3
  <2>6. \A m \in 1 .. l : s[m] \in Nat
    BY <2>1, <2>3, <2>5
  <2>7. /\ SubSeq(s, 1, l) \in Seq(Nat)
        /\ Len(SubSeq(s, 1, l)) = IF 1 <= l THEN l - 1 + 1 ELSE 0
        /\ \A m \in 1 .. l - 1 + 1 : SubSeq(s, 1, l)[m] = s[1 + m - 1]
    <3>1. 1 \in Int /\ l \in Int
      BY <2>3
    <3> QED BY ONLY <2>6, <3>1, SubSeqProperties
  <2>8. left[x] = SubSeq(s, 1, l)
    BY <2>4, <2>5
  <2>9. Len(SubSeq(s, 1, l)) = l /\ \A m \in 1 .. l : SubSeq(s, 1, l)[m] = s[m]
    BY <2>3, <2>7
  <2> QED BY <2>7, <2>8, <2>9 DEF s, l
<1>8. left \in [Vars -> Seq(Nat)]
  BY <1>5, <1>7
<1>9. k \in [0 .. n - 1 -> [Vars -> Nat]] /\ \A i \in 0 .. n - 1 : k[i] = h[i]
  BY <1>1, <1>6
<1> HIDE DEF k
<1>10. ASSUME NEW i \in 1 .. n - 1, NEW x \in Vars
       PROVE  /\ k[i][x] = k[i - 1][x] + Count(ds[i].pushed, x)
              /\ \A m \in 1 .. k[i][x] : MadeAbove(f, D, ds[i].block, left[x][m])
              /\ ds[i].entered /\ Has(f, ds[i].block, x) => k[i][x] # 0
  <2>1. i \in 1 .. n /\ k[i] = h[i] /\ k[i - 1] = h[i - 1] /\ ds[i] = cs[i] /\ i \in 0 .. n /\ i <= n - 1
        /\ n - 1 \in 0 .. n
    BY <1>1, <1>2, <1>9
  <2>2. h[i][x] <= h[n - 1][x] /\ h[i][x] \in Nat /\ h[n - 1][x] \in Nat
    BY <1>6, <2>1
  <2>3. \A m \in 1 .. h[i][x] : m \in 1 .. h[n - 1][x]
    BY <2>2
  <2>4. \A m \in 1 .. h[i][x] : left[x][m] = stack[x][m]
    BY <1>7, <2>3
  <2>5. /\ h[i][x] = h[i - 1][x] + Count(cs[i].pushed, x)
        /\ \A m \in 1 .. h[i][x] : MadeAbove(f, D, cs[i].block, stack[x][m])
        /\ cs[i].entered /\ Has(f, cs[i].block, x) => h[i][x] # 0
    BY <1>6, <2>1
  <2> QED BY <2>1, <2>4, <2>5
<1>11. \A i, j \in 0 .. n - 1 : i <= j => \A x \in Vars : k[i][x] <= k[j][x]
  BY <1>1, <1>6, <1>9
<1>12. \A x \in Vars : k[n - 1][x] = Len(left[x])
  BY <1>1, <1>7, <1>9
<1>13. Heights(f, D, ds, left, k)
  BY ZenonT(60), <1>1, <1>9, <1>10, <1>11, <1>12 DEF Heights
<1>14. SameUpTo(h, k, n - 1) /\ SameBelow(stack, left, h[n - 1])
  BY <1>7, <1>9 DEF SameUpTo, SameBelow
<1> QED BY <1>8, <1>13, <1>14 DEF n

-----------------------------------------------------------------------------
(* What is on top.                                                         *)
LEMMA TopStays ==
  ASSUME NEW f, NEW c, NEW stack, NEW heights, TopAt(f, c, stack, heights),
         NEW d, d.block = c.block, d.pushed = c.pushed, d.entered => c.entered,
         NEW left, \A x \in Vars : c.entered /\ Has(f, c.block, x) => left[x][heights[x]] = stack[x][heights[x]]
  PROVE  TopAt(f, d, left, heights)
BY DEF TopAt

LEMMA TopsStay ==
  ASSUME NEW f, NEW cs, Len(cs) \in Nat, NEW ds, NEW stack, NEW h, Tops(f, cs, stack, h),
         \A i \in 1 .. Len(cs) : /\ ds[i].block = cs[i].block /\ ds[i].pushed = cs[i].pushed
                                 /\ ds[i].entered => cs[i].entered,
         NEW k, SameUpTo(h, k, Len(cs))
  PROVE  \A i \in 1 .. Len(cs) : TopAt(f, ds[i], stack, k[i])
<1> SUFFICES ASSUME NEW i \in 1 .. Len(cs)
             PROVE  TopAt(f, ds[i], stack, k[i])
  OBVIOUS
<1>1. k[i] = h[i]
  BY DEF SameUpTo
<1>2. TopAt(f, cs[i], stack, h[i])
  BY DEF Tops
<1> QED BY <1>1, <1>2, TopStays

\* What a call has on top stays where it is when later calls return.
LEMMA TopsShortened ==
  ASSUME NEW f, NEW D, NEW cs, Len(cs) \in Nat \ {0, 1}, NEW ds, Len(ds) = Len(cs) - 1,
         \A i \in 1 .. Len(cs) - 1 : ds[i] = cs[i],
         NEW stack, NEW h, Heights(f, D, cs, stack, h), Tops(f, cs, stack, h),
         NEW left, SameBelow(stack, left, h[Len(cs) - 1]),
         NEW k, SameUpTo(h, k, Len(cs) - 1)
  PROVE  Tops(f, ds, left, k)
<1> DEFINE n == Len(cs)
<1>1. \A i \in 1 .. n - 1 : i \in 1 .. n /\ i \in 0 .. n /\ i \in 0 .. n - 1 /\ i <= n - 1
  OBVIOUS
<1>2. n - 1 \in 0 .. n /\ 0 \in 0 .. n - 1
  OBVIOUS
<1>3. ASSUME NEW i \in 1 .. n - 1
      PROVE  TopAt(f, ds[i], left, k[i])
  <2>1. TopAt(f, cs[i], stack, h[i])
    BY <1>1 DEF Tops
  <2>2. ASSUME NEW x \in Vars, cs[i].entered, Has(f, cs[i].block, x)
        PROVE  left[x][h[i][x]] = stack[x][h[i][x]]
    <3>1. /\ h[i][x] # 0 /\ h[i][x] <= h[n - 1][x]
          /\ h[i][x] \in Nat /\ h[n - 1][x] \in Nat
      BY <1>1, <1>2, <2>2 DEF Heights
    <3>2. h[i][x] \in 1 .. h[n - 1][x]
      BY <3>1
    <3> QED BY <3>2 DEF SameBelow
  <2>3. ds[i] = cs[i] /\ k[i] = h[i]
    BY <1>1 DEF SameUpTo
  <2>4. TopAt(f, cs[i], left, h[i])
    BY SMTT(30), <2>1, <2>2, TopStays
  <2> QED BY <2>3, <2>4
<1>4. \A x \in Vars : k[0][x] = 0
  BY <1>2 DEF SameUpTo, Tops
<1> QED BY <1>3, <1>4 DEF Tops

\* A value stays when operands are replaced.
LEMMA TopReplaced ==
  ASSUME NEW f, NEW D \in [DOMAIN f.blocks -> SUBSET DOMAIN f.blocks], CodeKnown(f, D),
         NEW g, OperandsReplaced(f, D, g), NEW c, c.block \in DOMAIN f.blocks,
         NEW stack, NEW heights, TopAt(f, c, stack, heights)
  PROVE  TopAt(g, c, stack, heights)
<1> DEFINE b == c.block
<1>1. \A x : Has(g, b, x) <=> Has(f, b, x)
  BY ReplacedDefines
<1>2. ASSUME NEW k \in DOMAIN f.blocks[b].code, NEW v, GivesValue(f.blocks[b].code[k], v)
      PROVE  GivesValue(g.blocks[b].code[k], v)
  <2> DEFINE old == f.blocks[b].code[k]
             new == g.blocks[b].code[k]
  <2>1. InstrReplaced(f, D, b, new, old) /\ ArgsKnown(f, D, b, k)
    BY SMTT(30) DEF OperandsReplaced, CodeKnown
  <2>2. new.op = old.op /\ new.dst = old.dst
    BY ZenonT(60), <2>1 DEF InstrReplaced
  <2>3. old.op = "bind" => 1 \in DOMAIN old.args
    BY <2>1 DEF ArgsKnown
  <2> HIDE DEF new, old
  <2>4. ASSUME old.op = "bind"
        PROVE  new.args[1] = old.args[1]
    <3>1. ~IsRef(old.args[1])
      BY <1>2, <2>4 DEF GivesValue, old
    <3>2. \E s : Replaces(f, D, s, new.args[1], old.args[1])
      BY <2>1, <2>3, <2>4 DEF InstrReplaced
    <3> QED BY <3>1, <3>2 DEF Replaces
  <2>5. GivesValue(old, v)
    BY <1>2 DEF old
  <2>6. GivesValue(new, v)
    BY <2>2, <2>4, <2>5 DEF GivesValue, Given
  <2> QED BY <2>6 DEF new
<1>3. /\ DOMAIN g.blocks[b].code = DOMAIN f.blocks[b].code
      /\ \A k \in DOMAIN f.blocks[b].code : g.blocks[b].code[k].sym = f.blocks[b].code[k].sym
  BY DEF OperandsReplaced, InstrReplaced
<1> HIDE DEF b
<1>4. \A x, v : GivesLast(f, b, x, v) => GivesLast(g, b, x, v)
  BY <1>2, <1>3 DEF GivesLast
<1> QED BY <1>1, <1>4 DEF TopAt, b

\* What a block has pushed when its code is renamed is what the code gives.
LEMMA TopPushed ==
  ASSUME NEW g, NEW b, NEW N \in Nat, DOMAIN g.blocks[b].code = 1 .. N,
         NEW r, TopsGiven(r, N), \A k \in 1 .. N : GivesAs(g.blocks[b].code[k], r.code[k]),
         NEW c, c.block = b, c.pushed = r.pushed,
         NEW heights, \A x \in Vars : heights[x] = Len(r.stack[x])
  PROVE  TopAt(g, c, r.stack, heights)
<1> SUFFICES ASSUME NEW x \in Vars
             PROVE  /\ Has(g, b, x) => GivesLast(g, b, x, r.stack[x][Len(r.stack[x])])
                    /\ ~Has(g, b, x) => Count(r.pushed, x) = 0
  BY DEF TopAt
<1> DEFINE given == {k \in 1 .. N : r.code[k].sym = x}
           v == r.stack[x][Len(r.stack[x])]
<1>1. \A k \in 1 .. N : k \in given <=> g.blocks[b].code[k].sym = x
  BY DEF GivesAs
<1>2. IF given = {} THEN Count(r.pushed, x) = 0
      ELSE \E k \in given : (\A j \in given : j <= k) /\ GivesValue(r.code[k], v)
  BY DEF TopsGiven
<1>3. given \subseteq 1 .. N
  OBVIOUS
<1>4. \A k \in 1 .. N : GivesValue(r.code[k], v) => GivesValue(g.blocks[b].code[k], v)
  <2> HIDE DEF v
  <2> QED BY DEF GivesAs, GivesValue, Given
<1> HIDE DEF given, v
<1>5. Has(g, b, x) <=> given # {}
  BY <1>1, <1>3 DEF Has
<1>6. CASE given = {}
  BY <1>2, <1>5, <1>6
<1>7. CASE given # {}
  <2>1. PICK k \in given : (\A j \in given : j <= k) /\ GivesValue(r.code[k], v)
    BY <1>2, <1>7
  <2>2. GivesLast(g, b, x, v)
    BY <1>1, <1>3, <1>4, <2>1 DEF GivesLast
  <2> QED BY <1>5, <1>7, <2>2 DEF v
<1> QED BY <1>6, <1>7

\* A block has been entered.
LEMMA TopsGrow ==
  ASSUME NEW f, NEW D \in [DOMAIN f.blocks -> SUBSET DOMAIN f.blocks], CodeKnown(f, D),
         NEW g, OperandsReplaced(f, D, g),
         NEW cs, Len(cs) \in Nat \ {0}, \A i \in 1 .. Len(cs) : cs[i].block \in DOMAIN f.blocks,
         NEW stack \in [Vars -> Seq(Nat)], NEW h, Heights(f, D, cs, stack, h), Tops(f, cs, stack, h),
         NEW b \in DOMAIN f.blocks, f.blocks[b].code \in Seq(Instruction),
         NEW r, RenamedUpTo(f, D, stack, b, r, Len(f.blocks[b].code)), TopsGiven(r, Len(f.blocks[b].code)),
         \A k \in DOMAIN f.blocks[b].code : GivesAs(g.blocks[b].code[k], r.code[k]),
         NEW c, c.block = b, c.pushed = r.pushed, NEW ds, LastReplaced(cs, ds, c),
         NEW k, SameUpTo(h, k, Len(cs) - 1), Heights(f, D, ds, r.stack, k)
  PROVE  Tops(g, ds, r.stack, k)
<1> DEFINE n == Len(cs)
           N == Len(f.blocks[b].code)
<1>1. /\ \A i \in 1 .. n - 1 : i \in 1 .. n /\ i \in 0 .. n /\ i \in 0 .. n - 1 /\ i <= n
      /\ \A i \in 1 .. n : i \in 1 .. n - 1 \/ i = n
      /\ 0 \in 0 .. n - 1 /\ n \in 0 .. n
  OBVIOUS
<1>2. Len(ds) = n /\ (\A i \in 1 .. n - 1 : ds[i] = cs[i]) /\ ds[n] = c
  BY DEF LastReplaced
<1>3. TopAt(g, c, r.stack, k[n])
  <2>1. N \in Nat /\ DOMAIN f.blocks[b].code = 1 .. N /\ DOMAIN g.blocks[b].code = 1 .. N
    BY LenProperties DEF OperandsReplaced
  <2>2. \A x \in Vars : k[n][x] = Len(r.stack[x])
    BY <1>2 DEF Heights
  <2> QED BY <2>1, <2>2, TopPushed
<1>4. ASSUME NEW i \in 1 .. n - 1
      PROVE  TopAt(g, ds[i], r.stack, k[i])
  <2>1. TopAt(f, cs[i], stack, h[i])
    BY <1>1 DEF Tops
  <2>2. ASSUME NEW x \in Vars, cs[i].entered, Has(f, cs[i].block, x)
        PROVE  r.stack[x][h[i][x]] = stack[x][h[i][x]]
    <3>1. h[i][x] # 0 /\ h[i][x] <= h[n][x] /\ h[i][x] \in Nat /\ h[n][x] = Len(stack[x])
      BY ZenonT(60), <1>1, <2>2 DEF Heights
    <3>2. Len(stack[x]) \in Nat /\ DOMAIN stack[x] = 1 .. Len(stack[x])
      BY LenProperties
    <3>3. h[i][x] \in DOMAIN stack[x]
      BY <3>1, <3>2
    <3> QED BY <3>3 DEF RenamedUpTo, Grown
  <2>3. TopAt(f, cs[i], r.stack, h[i])
    BY <2>1, <2>2 DEF TopAt
  <2>4. cs[i].block \in DOMAIN f.blocks
    BY <1>1
  <2>5. TopAt(g, cs[i], r.stack, h[i])
    BY <2>3, <2>4, TopReplaced
  <2>6. ds[i] = cs[i] /\ k[i] = h[i]
    BY <1>1, <1>2 DEF SameUpTo
  <2> QED BY <2>5, <2>6
<1>5. \A x \in Vars : k[0][x] = 0
  <2>1. k[0] = h[0]
    BY <1>1 DEF SameUpTo
  <2> QED BY <2>1 DEF Tops
<1>6. \A i \in 1 .. n : TopAt(g, ds[i], r.stack, k[i])
  BY <1>1, <1>2, <1>3, <1>4
<1> QED BY <1>2, <1>5, <1>6 DEF Tops

-----------------------------------------------------------------------------
(* The steps of rename.                                                    *)
\* The first call is for the entry, which dominates every block.
LEMMA RenamingStarts ==
  ASSUME BuilderInv, DominatorInv, ScopeInv, varStack = [x \in Vars |-> << >>], InsertPhis
  PROVE  InRename(fn', dom', calls', varStack')
<1> DEFINE g == insertPhis(fn)
           cs == <<NewCall(entry)>>
<1>1. /\ fn' = g /\ dom' = dom /\ varStack' = varStack /\ phase = "phis"
      /\ calls' = cs
  BY DEF InsertPhis, NewCall, doms
<1>2. IsGraph(fn) /\ InLines(dom, Blocks) /\ CodeKnown(fn, dom)
  BY <1>1, DominatorsInLines, BuiltIsKnown DEF BuilderInv
<1>3. PhisFirst(fn, dom, g)
  BY <1>1, InsertPhisPutsPhisFirst
<1>4. dom \in [Blocks -> SUBSET Blocks] /\ Blocks = DOMAIN fn.blocks /\ 1 \in Blocks /\ dom[1] = {1}
      /\ \A b \in Blocks : 1 \in dom[b]
  BY <1>2 DEF InLines, Blocks
<1> HIDE DEF g
<1>5. CodeKnown(g, dom)
  BY <1>2, <1>3, <1>4, PhisFirstKeepsKnown
<1>6. DOMAIN g.blocks = Blocks
  BY <1>3, <1>4 DEF PhisFirst, SameGraph
<1>7. /\ cs \in Seq(CallRecord) /\ Len(cs) = 1 /\ DOMAIN cs = {1} /\ cs[1] = NewCall(1) /\ cs # << >>
  <2>1. << >> \in Seq(Vars) /\ NewCall(1) \in CallRecord
    BY EmptySeq DEF CallRecord, NewCall
  <2> QED BY <2>1 DEF entry
<1> HIDE DEF cs
<1>8. OnPath(dom, Blocks, cs)
  <2>1. 1 .. 1 = {1}
    OBVIOUS
  <2>2. cs[1].block = 1 /\ cs[1].children = {} /\ cs[1].pushed = << >> /\ ~cs[1].entered
    BY <1>7 DEF NewCall
  <2>3. {cs[j].block : j \in 1 .. 1} = {1} /\ \A j : j \notin 1 .. 1 - 1
    BY <2>1, <2>2
  <2> QED BY <1>4, <1>7, <2>2, <2>3 DEF OnPath
<1>9. varStack \in [Vars -> Seq(Nat)] /\ \A x \in Vars : varStack[x] = << >>
  BY EmptySeq
<1>10. \E h : Heights(g, dom, cs, varStack, h) /\ Tops(g, cs, varStack, h)
  <2> DEFINE h == [i \in 0 .. 1 |-> [x \in Vars |-> 0]]
  <2>1. h \in [0 .. 1 -> [Vars -> Nat]] /\ \A i \in 0 .. 1 : \A x \in Vars : h[i][x] = 0
    OBVIOUS
  <2>2. 0 \in 0 .. 1 /\ 1 \in 0 .. 1 /\ \A i \in 1 .. 1 : i = 1
    OBVIOUS
  <2> HIDE DEF h
  <2>3. \A x \in Vars : Len(varStack[x]) = 0
    BY <1>9, EmptySeq
  <2>4. ASSUME NEW i \in 1 .. 1, NEW x \in Vars
        PROVE  /\ h[i][x] = h[i - 1][x] + Count(cs[i].pushed, x)
               /\ \A m \in 1 .. h[i][x] : MadeAbove(g, dom, cs[i].block, varStack[x][m])
               /\ cs[i].entered /\ Has(g, cs[i].block, x) => h[i][x] # 0
    <3>1. i = 1 /\ cs[i].pushed = << >> /\ ~cs[i].entered /\ h[i][x] = 0 /\ h[i - 1][x] = 0
      BY <1>7, <2>1, <2>2 DEF NewCall
    <3>2. Count(cs[i].pushed, x) = 0
      BY <3>1, CountEmpty
    <3> QED BY <3>1, <3>2
  <2>5. Heights(g, dom, cs, varStack, h)
    BY <1>7, <2>1, <2>2, <2>3, <2>4 DEF Heights
  <2>6. Tops(g, cs, varStack, h)
    <3>1. cs[1].pushed = << >> /\ ~cs[1].entered
      BY <1>7 DEF NewCall
    <3> QED BY <1>7, <2>1, <2>2, <3>1, CountEmpty DEF Tops, TopAt
  <2> QED BY <2>5, <2>6
<1>11. Covered(g, dom, cs)
  <2>1. Awaits(cs, 1)
    BY <1>7 DEF Awaits, NewCall
  <2> QED BY <1>4, <1>6, <2>1 DEF Covered
<1>12. InRename(g, dom, cs, varStack)
  <2>1. Blocks \subseteq Nat
    BY <1>2, GraphBlocks DEF Blocks
  <2> QED BY <2>1, <1>2, <1>5, <1>6, <1>8, <1>9, <1>10, <1>11 DEF InRename
<1> QED BY <1>1, <1>12

\* A block is entered: it finds every definition it needs.
LEMMA RenameKeeps ==
  ASSUME Rename, GraphTypes, InRename(fn, dom, calls, varStack)
  PROVE  phase' = "rename" /\ InRename(fn', dom', calls', varStack') /\ OperandsReplaced(fn, dom, fn')
<1> DEFINE n == Len(calls)
           last == calls[n]
           b == last.block
           r == renamed(b)
           c == [last EXCEPT !.pushed = r.pushed, !.children = domTree(b), !.entered = TRUE]
           ds == Append(Front(calls), c)
<1>1. /\ InLines(dom, Blocks) /\ CodeKnown(fn, dom) /\ OnPath(dom, Blocks, calls)
      /\ varStack \in [Vars -> Seq(Nat)] /\ Covered(fn, dom, calls) /\ Blocks = DOMAIN fn.blocks
  BY DEF InRename, Blocks
<1>2. PICK h : Heights(fn, dom, calls, varStack, h) /\ Tops(fn, calls, varStack, h)
  BY DEF InRename
<1>3. calls \in Seq(CallRecord) /\ calls # << >>
  BY <1>1 DEF OnPath
<1>4. /\ n \in Nat \ {0} /\ DOMAIN calls = 1 .. n /\ Last(calls) = last /\ last \in CallRecord
  BY <1>3, FrontIsPrefix
<1>5. \A i \in 1 .. n : i # n => i \in 1 .. n - 1
  <2> HIDE DEF n
  <2> QED BY <1>4
<1>6. /\ ~last.entered /\ dom' = dom /\ Call = last
  BY <1>4 DEF Rename, Call, doms
<1>7. /\ n \in DOMAIN calls /\ b \in Blocks /\ last.children = {} /\ last.pushed = << >>
      /\ dom[b] = {calls[j].block : j \in 1 .. n}
      /\ b \in dom[b] /\ dom \in [Blocks -> SUBSET Blocks]
  <2>1. n \in DOMAIN calls
    BY <1>4
  <2>2. /\ b \in Blocks /\ last.children = {} /\ last.pushed = << >>
        /\ dom[b] = {calls[j].block : j \in 1 .. n}
    BY <1>1, <1>6, <2>1 DEF OnPath
  <2> QED BY <1>1, <2>1, <2>2 DEF InLines
<1>8. StackBelow(fn, dom, varStack, b)
  BY <1>1, <1>2, HeightsSayStackBelow
<1>9. RenameEntered(b)
  <2>1. Call.block = b
    BY <1>6
  <2> QED BY <1>1, <1>7, <1>8, <2>1, RenameEnters
<1>10. /\ phase' = "rename" /\ varStack' = r.stack /\ calls' = ds
      /\ OperandsReplaced(fn, dom, fn') /\ Finished(fn', b)
      /\ \A k \in DOMAIN fn.blocks[b].code : GivesAs(fn'.blocks[b].code[k], r.code[k])
  BY <1>6, <1>9 DEF RenameEntered
<1>11. /\ RenamedUpTo(fn, dom, varStack, b, r, Len(fn.blocks[b].code))
       /\ TopsGiven(r, Len(fn.blocks[b].code))
  BY SMTT(30), <1>1, <1>7, <1>8, RenamesBlock
<1> HIDE DEF r
<1>12. r.pushed \in Seq(Vars) /\ r.stack \in [Vars -> Seq(Nat)]
  BY <1>11 DEF RenamedUpTo, Renamings
<1>13. \A a \in domTree(b) : a \in Blocks /\ IsChild(dom, Blocks, b, a)
  <2> SUFFICES ASSUME NEW a \in domTree(b)
               PROVE  a \in Blocks /\ IsChild(dom, Blocks, b, a)
    OBVIOUS
  <2>1. a \in Blocks /\ b # a /\ dom[a] = dom[b] \union {a}
    BY <1>1, ParentExists DEF domTree
  <2>2. a \notin dom[b]
    BY <1>1, <1>7, <2>1 DEF InLines
  <2> QED BY <2>1, <2>2 DEF IsChild
<1>14. Blocks \subseteq Nat
  BY DEF InRename, Blocks
<1>15. /\ c \in CallRecord /\ c.block = b /\ c.entered /\ c.pushed = r.pushed /\ c.children = domTree(b)
  <2>1. domTree(b) \subseteq Nat
    BY <1>13, <1>14
  <2> HIDE DEF b, last
  <2> QED BY <1>4, <1>12, <2>1 DEF CallRecord, b
<1>16. LastReplaced(calls, ds, c)
  <2> HIDE DEF c
  <2> QED BY <1>3, <1>15, ReplacesLast
<1> HIDE DEF c, ds
<1>17. OnPath(dom, Blocks, ds)
  BY <1>1, <1>13, <1>15, <1>16, PathReplaced
<1>18. \E k : Heights(fn, dom, ds, r.stack, k) /\ SameUpTo(h, k, n - 1)
  <2>1. fn.blocks[b].code \in Seq(Instruction)
    BY <1>1, <1>7 DEF CodeKnown
  <2> HIDE DEF b
  <2> QED BY <1>1, <1>2, <1>6, <1>11, <1>15, <1>16, <2>1, HeightsGrow DEF b
<1>19. \E k : Heights(fn', dom, ds, r.stack, k) /\ Tops(fn', ds, r.stack, k)
  <2>1. \A i \in 1 .. Len(ds) : ds[i].block \in DOMAIN fn.blocks
    BY <1>1, <1>16, <1>17 DEF OnPath, LastReplaced
  <2>2. PICK k : Heights(fn, dom, ds, r.stack, k) /\ SameUpTo(h, k, n - 1)
    BY <1>18
  <2>3. Heights(fn', dom, ds, r.stack, k)
    BY <1>1, <1>7, <1>10, <2>1, <2>2, HeightsStay
  <2>4. fn.blocks[b].code \in Seq(Instruction)
    BY <1>1, <1>7 DEF CodeKnown
  <2>5. \A i \in 1 .. n : calls[i].block \in DOMAIN fn.blocks
    BY <1>1, <1>4 DEF OnPath
  <2> HIDE DEF b
  <2>6. Tops(fn', ds, r.stack, k)
    BY <1>1, <1>2, <1>4, <1>7, <1>10, <1>11, <1>15, <1>16, <2>2, <2>4, <2>5, TopsGrow
  <2> QED BY <2>3, <2>6
<1>20. CodeKnown(fn', dom) /\ DOMAIN fn'.blocks = Blocks
  <2>1. DOMAIN fn'.blocks = Blocks
    BY <1>1, <1>10 DEF OperandsReplaced, SameGraph
  <2> QED BY <1>1, <1>7, <1>10, <2>1, ReplacedIsKnown
<1>21. Covered(fn', dom, ds)
  <2>1. ASSUME NEW s \in Blocks, ~Finished(fn', s)
        PROVE  \E a \in dom[s] : Awaits(ds, a)
    <3>1. ~Finished(fn, s) /\ s # b
      BY <1>1, <1>10, <2>1, ReplacedStaysFinished
    <3>2. PICK a \in dom[s] : Awaits(calls, a)
      BY <1>1, <3>1 DEF Covered
    <3>3. PICK i \in 1 .. n : a \in calls[i].children \/ (~calls[i].entered /\ a = calls[i].block)
      BY <1>4, <3>2 DEF Awaits
    <3>4. n \in DOMAIN ds /\ ds[n] = c /\ DOMAIN ds = 1 .. n
      BY <1>4, <1>16 DEF LastReplaced
    <3>5. CASE i = n
      <4>1. a = b
        BY <1>7, <3>3, <3>5
      <4>2. PICK child \in domTree(b) : child \in dom[s]
        BY <1>1, <3>1, <3>2, <4>1, ChildDominates
      <4>3. Awaits(ds, child)
        BY <1>15, <3>4, <4>2 DEF Awaits
      <4> QED BY <4>2, <4>3
    <3>6. CASE i # n
      <4>1. i \in 1 .. n - 1
        BY <1>5, <3>6
      <4>2. ds[i] = calls[i] /\ i \in DOMAIN ds
        BY <1>16, <3>4, <4>1 DEF LastReplaced
      <4>3. Awaits(ds, a)
        BY <3>3, <4>2 DEF Awaits
      <4> QED BY <3>2, <4>3
    <3> QED BY <3>5, <3>6
  <2> QED BY <1>20, <2>1 DEF Covered
<1>22. InRename(fn', dom, ds, r.stack)
  BY <1>1, <1>12, <1>14, <1>17, <1>19, <1>20, <1>21 DEF InRename
<1> QED BY <1>6, <1>10, <1>22

\* A child of the block of the last call is called.
LEMMA ChildKeeps ==
  ASSUME NEW a, RenameChild(a), InRename(fn, dom, calls, varStack)
  PROVE  phase' = "rename" /\ InRename(fn', dom', calls', varStack')
<1> DEFINE n == Len(calls)
           last == calls[n]
           c == [last EXCEPT !.children = @ \ {a}]
           mid == Append(Front(calls), c)
           ds == Append(mid, NewCall(a))
<1>1. /\ InLines(dom, Blocks) /\ OnPath(dom, Blocks, calls) /\ Blocks \subseteq Nat
      /\ Covered(fn, dom, calls) /\ Blocks = DOMAIN fn.blocks
  BY DEF InRename, Blocks
<1>2. PICK h : Heights(fn, dom, calls, varStack, h) /\ Tops(fn, calls, varStack, h)
  BY DEF InRename
<1>3. calls \in Seq(CallRecord) /\ calls # << >>
  BY <1>1 DEF OnPath
<1>4. /\ n \in Nat \ {0} /\ DOMAIN calls = 1 .. n /\ Last(calls) = last /\ last \in CallRecord /\ n \in DOMAIN calls
  <2>1. n \in Nat \ {0} /\ DOMAIN calls = 1 .. n /\ Last(calls) = last /\ last \in CallRecord
    BY <1>3, FrontIsPrefix
  <2> QED BY <2>1
<1>5. /\ last.entered /\ a \in last.children /\ phase' = "rename"
      /\ dom' = dom /\ fn' = fn /\ varStack' = varStack
      /\ calls' = mid \o <<NewCall(a)>>
  BY <1>4 DEF RenameChild, Call, NewCall, doms, builder
<1>6. \A d \in last.children : /\ IsChild(dom, Blocks, last.block, d)
                              /\ d \in Blocks /\ dom[d] = dom[last.block] \union {d}
  BY <1>1, <1>4 DEF OnPath, IsChild
<1>7. /\ c \in CallRecord /\ c.block = last.block /\ c.entered /\ c.pushed = last.pushed
      /\ c.children = last.children \ {a}
  <2> HIDE DEF last
  <2> QED BY <1>4, <1>5 DEF CallRecord
<1>8. LastReplaced(calls, mid, c)
  <2> HIDE DEF c
  <2> QED BY <1>3, <1>7, ReplacesLast
<1> HIDE DEF c, mid
<1>9. /\ mid \in Seq(CallRecord) /\ Len(mid) = n /\ DOMAIN mid = 1 .. n /\ mid[n] = c
      /\ \A i \in 1 .. n - 1 : mid[i] = calls[i]
  BY <1>8 DEF LastReplaced
<1>10. OnPath(dom, Blocks, mid)
  BY <1>1, <1>6, <1>7, <1>8, PathReplaced
<1>11. << >> \in Seq(Vars) /\ NewCall(a) \in CallRecord
  BY <1>1, <1>5, <1>6, EmptySeq DEF CallRecord, NewCall
<1>12. calls' = ds
  BY <1>5, <1>9, <1>11, AppendIsConcat
<1>13. OnPath(dom, Blocks, ds)
  <2>1. IsChild(dom, Blocks, mid[Len(mid)].block, a) /\ mid[Len(mid)].entered
    BY <1>5, <1>6, <1>7, <1>9
  <2> QED BY <1>1, <1>10, <2>1, PathExtended
<1>14. /\ ds \in Seq(CallRecord) /\ Len(ds) = n + 1 /\ DOMAIN ds = 1 .. n + 1
       /\ (\A i \in 1 .. n : ds[i] = mid[i]) /\ ds[n + 1] = NewCall(a)
  BY <1>9, <1>11, AppendHolds
<1> HIDE DEF ds
<1>15. \A i \in 1 .. n : i = n \/ i \in 1 .. n - 1
  <2> HIDE DEF n
  <2> QED BY SMTT(30), <1>4
<1>16. \A i \in 1 .. n : i # n => ds[i] = calls[i]
  BY <1>9, <1>14, <1>15
<1>17. n \in 1 .. n /\ ds[n] = c /\ n + 1 \in 1 .. n + 1 /\ \A i \in 1 .. n : i \in 1 .. n + 1
  <2>1. n \in 1 .. n
    BY <1>4
  <2>2. n + 1 \in 1 .. n + 1 /\ \A i \in 1 .. n : i \in 1 .. n + 1
    <3> HIDE DEF n
    <3> QED BY <1>4
  <2> QED BY <1>9, <1>14, <2>1, <2>2
<1>18. \E k : Heights(fn, dom, ds, varStack, k) /\ Tops(fn, ds, varStack, k)
  <2>1. \A i \in 1 .. n : /\ ds[i].block = calls[i].block /\ ds[i].pushed = calls[i].pushed
                          /\ ds[i].entered => calls[i].entered
    <3>1. /\ ds[n].block = calls[n].block /\ ds[n].pushed = calls[n].pushed
          /\ ds[n].entered => calls[n].entered
      BY <1>5, <1>7, <1>17
    <3> QED BY <1>16, <3>1
  <2>2. ds[n + 1].pushed = << >> /\ ~ds[n + 1].entered /\ ds[n + 1].block = a
    BY <1>14 DEF NewCall
  <2>3. dom[calls[n].block] \subseteq dom[ds[n + 1].block]
    BY <1>5, <1>6, <2>2
  <2>4. PICK k : Heights(fn, dom, ds, varStack, k) /\ SameUpTo(h, k, n)
    BY <1>2, <1>4, <1>14, <2>1, <2>2, <2>3, HeightsExtended
  <2>5. Tops(fn, ds, varStack, k)
    <3>1. \A i \in 1 .. n : TopAt(fn, ds[i], varStack, k[i])
      BY <1>2, <1>4, <2>1, <2>4, TopsStay
    <3>2. TopAt(fn, ds[n + 1], varStack, k[n + 1])
      BY <2>2, CountEmpty DEF TopAt
    <3>3. \A i \in 1 .. n + 1 : i \in 1 .. n \/ i = n + 1
      <4> HIDE DEF n
      <4> QED BY <1>4
    <3>4. \A x \in Vars : k[0][x] = 0
      <4>1. 0 \in 0 .. n
        BY <1>4
      <4> QED BY <1>2, <2>4, <4>1 DEF SameUpTo, Tops
    <3> QED BY <1>14, <3>1, <3>2, <3>3, <3>4 DEF Tops
  <2> QED BY <2>4, <2>5
<1>19. Covered(fn, dom, ds)
  <2>1. ASSUME NEW d, Awaits(calls, d)
        PROVE  Awaits(ds, d)
    <3>1. PICK i \in 1 .. n : d \in calls[i].children \/ (~calls[i].entered /\ d = calls[i].block)
      BY <1>4, <2>1 DEF Awaits
    <3>2. CASE i # n
      <4>1. i \in DOMAIN ds /\ ds[i] = calls[i]
        BY <1>14, <1>16, <1>17, <3>2
      <4> QED BY <3>1, <4>1 DEF Awaits
    <3>3. CASE i = n /\ d # a
      <4>1. n \in DOMAIN ds /\ d \in ds[n].children
        BY <1>5, <1>7, <1>14, <1>17, <3>1, <3>3
      <4> QED BY <4>1 DEF Awaits
    <3>4. CASE d = a
      <4>1. n + 1 \in DOMAIN ds /\ ~ds[n + 1].entered /\ ds[n + 1].block = a
        BY <1>14, <1>17 DEF NewCall
      <4> QED BY <3>4, <4>1 DEF Awaits
    <3> QED BY <3>2, <3>3, <3>4
  <2> QED BY <1>1, <2>1 DEF Covered
<1>20. InRename(fn, dom, ds, varStack)
  BY <1>1, <1>13, <1>18, <1>19 DEF InRename, Blocks
<1> QED BY <1>5, <1>12, <1>20

\* A call without children left returns; after the first, nothing awaits renaming.
LEMMA LeaveKeeps ==
  ASSUME LeaveBlock, InRename(fn, dom, calls, varStack)
  PROVE  /\ fn' = fn /\ dom' = dom
         /\ \/ phase' = "rename" /\ InRename(fn', dom', calls', varStack')
            \/ phase' = "renamed" /\ \A b \in Blocks : Finished(fn, b)
<1> DEFINE n == Len(calls)
           last == calls[n]
           ds == Front(calls)
           left == [x \in Vars |-> SubSeq(varStack[x], 1, Len(varStack[x]) - Count(last.pushed, x))]
<1>1. /\ InLines(dom, Blocks) /\ OnPath(dom, Blocks, calls) /\ Blocks \subseteq Nat
      /\ Covered(fn, dom, calls) /\ Blocks = DOMAIN fn.blocks /\ varStack \in [Vars -> Seq(Nat)]
  BY DEF InRename, Blocks
<1>2. PICK h : Heights(fn, dom, calls, varStack, h) /\ Tops(fn, calls, varStack, h)
  BY DEF InRename
<1>3. calls \in Seq(CallRecord) /\ calls # << >>
  BY <1>1 DEF OnPath
<1>4. /\ n \in Nat \ {0} /\ DOMAIN calls = 1 .. n /\ Last(calls) = last /\ last \in CallRecord
      /\ n \in DOMAIN calls
      /\ Len(ds) = n - 1 /\ DOMAIN ds = 1 .. n - 1 /\ \A i \in 1 .. n - 1 : ds[i] = calls[i]
  BY <1>3, FrontIsPrefix
<1>5. /\ last.entered /\ last.children = {}
      /\ phase' = (IF n = 1 THEN "renamed" ELSE phase) /\ phase = "rename"
      /\ dom' = dom /\ fn' = fn /\ calls' = ds
      /\ varStack' = left
  <2>1. \A x \in Vars : Occurrences(x, last.pushed) = Count(last.pushed, x)
    BY DEF Occurrences, Count
  <2>2. /\ last.entered /\ last.children = {}
        /\ phase' = (IF n = 1 THEN "renamed" ELSE phase) /\ phase = "rename"
        /\ dom' = dom /\ fn' = fn /\ calls' = ds
        /\ varStack' = [x \in Vars |-> SubSeq(varStack[x], 1, Len(varStack[x]) - Occurrences(x, last.pushed))]
    BY <1>4 DEF LeaveBlock, Call, doms, builder
  <2> QED BY <2>1, <2>2
<1>6. last.pushed \in Seq(Vars)
  <2> HIDE DEF last
  <2> QED BY <1>4 DEF CallRecord
<1>7. \A i \in 1 .. n : i = n \/ i \in 1 .. n - 1
  <2> HIDE DEF n
  <2> QED BY <1>4
<1> HIDE DEF ds
<1>8. ASSUME NEW a, Awaits(calls, a)
      PROVE  Awaits(ds, a) /\ n # 1
  <2>1. PICK i \in 1 .. n : a \in calls[i].children \/ (~calls[i].entered /\ a = calls[i].block)
    BY <1>4, <1>8 DEF Awaits
  <2>2. i # n
    BY <1>5, <2>1
  <2>3. i \in 1 .. n - 1
    BY <1>7, <2>2
  <2>4. n # 1
    <3> HIDE DEF n
    <3> QED BY <2>3
  <2>5. Awaits(ds, a)
    BY <1>4, <2>1, <2>3 DEF Awaits
  <2> QED BY <2>4, <2>5
<1>9. CASE n = 1
  BY <1>1, <1>5, <1>8, <1>9 DEF Covered
<1>10. CASE n # 1
  <2>1. OnPath(dom, Blocks, ds)
    BY <1>1, <1>10, PathShortened DEF ds
  <2>2. left \in [Vars -> Seq(Nat)] /\ \E k : Heights(fn, dom, ds, left, k) /\ Tops(fn, ds, left, k)
    <3>1. Len(calls) \in Nat \ {0, 1} /\ Len(ds) = Len(calls) - 1
          /\ \A i \in 1 .. Len(calls) - 1 : ds[i] = calls[i]
      BY <1>4, <1>10
    <3>2. /\ left \in [Vars -> Seq(Nat)]
          /\ \E k : Heights(fn, dom, ds, left, k) /\ SameUpTo(h, k, n - 1)
          /\ SameBelow(varStack, left, h[n - 1])
      BY <1>1, <1>2, <1>6, <3>1, HeightsShortened
    <3>3. PICK k : Heights(fn, dom, ds, left, k) /\ SameUpTo(h, k, n - 1)
      BY <3>2
    <3> HIDE DEF left
    <3>4. Tops(fn, ds, left, k)
      BY <1>2, <3>1, <3>2, <3>3, TopsShortened
    <3> QED BY <3>2, <3>3, <3>4
  <2> HIDE DEF left
  <2>3. Covered(fn, dom, ds)
    BY <1>1, <1>8 DEF Covered
  <2>4. InRename(fn, dom, ds, left)
    BY <1>1, <2>1, <2>2, <2>3 DEF InRename, Blocks
  <2>5. phase' = "rename"
    BY <1>5, <1>10
  <2> QED BY <1>5, <2>4, <2>5
<1> QED BY <1>9, <1>10

-----------------------------------------------------------------------------
(* The invariant and what follows.                                         *)
RenamingInv ==
  /\ phase # "no reaching definition"
  /\ phase \in {"build", "dominators", "phis"} => varStack = [x \in Vars |-> << >>]
  /\ phase = "rename" => InRename(fn, dom, calls, varStack)
  /\ phase = "renamed" => /\ CodeKnown(fn, dom) /\ dom \in [Blocks -> SUBSET Blocks]
                          /\ \A b \in Blocks : Finished(fn, b)

LEMMA RenamingInvHolds == Init => RenamingInv
<1> SUFFICES ASSUME Init PROVE RenamingInv
  OBVIOUS
<1>1. phase = "build" /\ varStack = [x \in Vars |-> << >>]
  BY DEF Init, BuilderInit, SSAInit
<1> QED BY <1>1 DEF RenamingInv

LEMMA RenamingInvKept ==
  BuilderInv /\ DominatorInv /\ ScopeInv /\ ShapeInv /\ RenamingInv /\ [Next]_vars => RenamingInv'
<1> SUFFICES ASSUME BuilderInv, DominatorInv, ScopeInv, ShapeInv, RenamingInv, [Next]_vars
             PROVE  RenamingInv'
  OBVIOUS
<1>1. ASSUME phase \in {"build", "dominators", "phis"}, varStack' = varStack,
             phase' \in {"build", "dominators", "phis", "assertion failed"}
      PROVE  RenamingInv'
  BY <1>1 DEF RenamingInv
<1>2. ASSUME UNCHANGED <<builder, ssa>>,
             \/ phase' = phase
             \/ phase \in {"renamed", "run"} /\ phase' \in {"run", "returned"}
      PROVE  RenamingInv'
  <2>1. UNCHANGED <<fn, dom, calls, varStack>> /\ Blocks' = Blocks
    BY <1>2 DEF builder, ssa, Blocks
  <2> QED BY <1>2, <2>1 DEF RenamingInv
<1>3. CASE Build /\ UNCHANGED ssa
  <2>1. phase = "build" /\ phase' \in {"build", "dominators"} /\ varStack' = varStack
    BY <1>3, BuildPhases DEF ssa
  <2> QED BY <1>1, <2>1
<1>4. CASE StartDominators \/ VisitBlock \/ EndSweep \/ AssertionFails
  <2>1. /\ phase = "dominators" /\ phase' \in {"dominators", "phis", "assertion failed"}
        /\ varStack' = varStack
    BY <1>4 DEF StartDominators, VisitBlock, EndSweep, AssertionFails, renaming, ssa
  <2> QED BY <1>1, <2>1
<1>5. ASSUME NEW x \in Vars, NEW b \in Blocks, PlacePhis(x, b)
      PROVE  RenamingInv'
  <2>1. phase = "phis" /\ phase' = "phis" /\ varStack' = varStack
    BY <1>5 DEF PlacePhis, renaming
  <2> QED BY <1>1, <2>1
<1>6. CASE InsertPhis
  <2>1. phase = "phis" /\ phase' = "rename"
    BY <1>6 DEF InsertPhis
  <2>2. InRename(fn', dom', calls', varStack')
    BY <1>6, <2>1, RenamingStarts DEF RenamingInv
  <2> QED BY <2>1, <2>2 DEF RenamingInv
<1>7. CASE Rename
  <2>1. GraphTypes /\ InRename(fn, dom, calls, varStack)
    BY <1>7 DEF ShapeInv, RenamingInv, Rename
  <2>2. phase' = "rename" /\ InRename(fn', dom', calls', varStack')
    BY <1>7, <2>1, RenameKeeps
  <2> QED BY ZenonT(60), <2>2 DEF RenamingInv
<1>8. ASSUME NEW c \in Blocks, RenameChild(c)
      PROVE  RenamingInv'
  <2>1. InRename(fn, dom, calls, varStack)
    BY <1>8 DEF RenamingInv, RenameChild
  <2>2. phase' = "rename" /\ InRename(fn', dom', calls', varStack')
    BY <1>8, <2>1, ChildKeeps
  <2> QED BY <2>2 DEF RenamingInv
<1>9. CASE LeaveBlock
  <2>1. InRename(fn, dom, calls, varStack)
    BY <1>9 DEF RenamingInv, LeaveBlock
  <2>2. /\ fn' = fn /\ dom' = dom
        /\ \/ phase' = "rename" /\ InRename(fn', dom', calls', varStack')
           \/ phase' = "renamed" /\ \A b \in Blocks : Finished(fn, b)
    BY <1>9, <2>1, LeaveKeeps
  <2>3. CodeKnown(fn, dom) /\ dom \in [Blocks -> SUBSET Blocks] /\ Blocks' = Blocks
    BY <2>1, <2>2 DEF InRename, InLines, Blocks
  <2>4. CASE phase' = "rename"
    BY <2>2, <2>4 DEF RenamingInv
  <2>5. CASE phase' = "renamed"
    BY <2>2, <2>3, <2>5 DEF RenamingInv
  <2> QED BY <2>2, <2>4, <2>5
<1>10. CASE UNCHANGED vars
  BY <1>2, <1>10 DEF vars
<1> QED BY <1>2, <1>3, <1>4, <1>5, <1>6, <1>7, <1>8, <1>9, <1>10, RunKeeps DEF Next, BuildSSA

\* The invariants of building, of dominators, of scopes and of shape are what that
\* of renaming rests on.
LEMMA InvariantsOfRenaming == Spec => [](BuilderInv /\ DominatorInv /\ ScopeInv /\ ShapeInv /\ RenamingInv)
<1>1. Init => BuilderInv /\ DominatorInv /\ ScopeInv /\ ShapeInv /\ RenamingInv
  <2>1. Init => phase = "build"
    BY DEF Init, BuilderInit
  <2> QED BY <2>1, BuilderInvHolds, DominatorInvHolds, InBuildHolds, ShapeInvHolds, RenamingInvHolds DEF ScopeInv
<1>2. BuilderInv /\ DominatorInv /\ ScopeInv /\ ShapeInv /\ RenamingInv /\ [Next]_vars
        => (BuilderInv /\ DominatorInv /\ ScopeInv /\ ShapeInv /\ RenamingInv)'
  BY BuilderInvKept, DominatorInvKept, ScopeInvKept, ShapeInvKept, RenamingInvKept
<1> QED BY <1>1, <1>2, PTL DEF Spec

\* While rename walks the dominator tree, its calls are a path of it, the stacks
\* hold what that path defines, and every block not done is below one to come.
THEOREM RenamingInvariant == Spec => []RenamingInv
BY InvariantsOfRenaming, PTL

\* Renaming never comes to a use, or to the operand of a phi, without a definition
\* on the stack of its variable.
THEOREM UsesFindDefinitions == Spec => []UsesAreDefined
<1>1. RenamingInv => UsesAreDefined
  BY DEF RenamingInv, UsesAreDefined
<1> QED BY <1>1, RenamingInvariant, PTL

\* When the walk is over every block has been renamed, and so has each operand of a
\* phi, by the predecessor it comes from.
THEOREM ReferencesAreReplaced == Spec => []NoReferencesLeft
<1>1. RenamingInv => NoReferencesLeft
  <2> SUFFICES ASSUME RenamingInv, phase = "renamed", NEW b \in Blocks
               PROVE  /\ \A i \in DOMAIN fn.blocks[b].term.args : ~IsRef(fn.blocks[b].term.args[i])
                      /\ \A k \in DOMAIN fn.blocks[b].code :
                           \A i \in DOMAIN fn.blocks[b].code[k].args : ~IsRef(fn.blocks[b].code[k].args[i])
    BY DEF NoReferencesLeft
  <2>1. CodeKnown(fn, dom) /\ (\A s \in Blocks : Finished(fn, s)) /\ Blocks = DOMAIN fn.blocks
    BY DEF RenamingInv, Blocks
  <2>2. ASSUME NEW k \in DOMAIN fn.blocks[b].code, NEW i \in DOMAIN fn.blocks[b].code[k].args
        PROVE  ~IsRef(fn.blocks[b].code[k].args[i])
    <3>1. CASE IsPhi(fn.blocks[b].code[k])
      <4>1. fn.blocks[b].code[k].preds[i] \in Blocks
        BY <2>1, <2>2, <3>1 DEF CodeKnown, ArgsKnown
      <4> QED BY SMTT(30), <2>1, <2>2, <3>1, <4>1 DEF Finished
    <3>2. CASE ~IsPhi(fn.blocks[b].code[k])
      BY <2>1, <2>2, <3>2 DEF Finished
    <3> QED BY <3>1, <3>2
  <2> QED BY <2>1, <2>2 DEF Finished
<1> QED BY <1>1, RenamingInvariant, PTL

\* The value put in the place of a variable was on its stack, so a block that makes
\* it is on the path to the use.
THEOREM DefinitionsAreAbove == Spec => []DefinitionsDominateUses
<1>1. RenamingInv /\ NoReferencesLeft => DefinitionsDominateUses
  <2> SUFFICES ASSUME RenamingInv, NoReferencesLeft, phase = "renamed", NEW b \in Blocks
               PROVE  /\ \A i \in DOMAIN fn.blocks[b].term.args :
                           DefinedIn(fn.blocks[b].term.args[i].value) \intersect dom[b] # {}
                      /\ \A k \in DOMAIN fn.blocks[b].code : \A i \in DOMAIN fn.blocks[b].code[k].args :
                           LET c == fn.blocks[b].code[k]
                               user == IF c.op = "phi" THEN c.preds[i] ELSE b
                           IN  DefinedIn(c.args[i].value) \intersect dom[user] # {}
    BY DEF DefinitionsDominateUses
  <2>1. CodeKnown(fn, dom) /\ dom \in [Blocks -> SUBSET Blocks] /\ Blocks = DOMAIN fn.blocks
    BY DEF RenamingInv, Blocks
  <2>2. \A d \in Blocks : \A v : Makes(fn, d, v) => d \in DefinedIn(v)
    BY DEF Makes, DefinedIn
  <2>3. ASSUME NEW o, ~IsRef(o), NEW s \in Blocks, \E d \in dom[s] : Makes(fn, d, o.value)
        PROVE  DefinedIn(o.value) \intersect dom[s] # {}
    BY <2>1, <2>2, <2>3
  <2>4. ASSUME NEW i \in DOMAIN fn.blocks[b].term.args
        PROVE  DefinedIn(fn.blocks[b].term.args[i].value) \intersect dom[b] # {}
    <3> DEFINE o == fn.blocks[b].term.args[i]
    <3>1. ~IsRef(o) /\ KnownAtEnd(fn, dom, o, b)
      BY <2>1 DEF NoReferencesLeft, CodeKnown
    <3> HIDE DEF o
    <3>2. \E d \in dom[b] : Makes(fn, d, o.value)
      BY <3>1 DEF KnownAtEnd
    <3>3. DefinedIn(o.value) \intersect dom[b] # {}
      BY <2>3, <3>1, <3>2
    <3> QED BY <3>3 DEF o
  <2>5. ASSUME NEW k \in DOMAIN fn.blocks[b].code, NEW i \in DOMAIN fn.blocks[b].code[k].args
        PROVE  LET c == fn.blocks[b].code[k]
                   user == IF c.op = "phi" THEN c.preds[i] ELSE b
               IN  DefinedIn(c.args[i].value) \intersect dom[user] # {}
    <3> DEFINE c == fn.blocks[b].code[k]
               o == c.args[i]
               user == IF c.op = "phi" THEN c.preds[i] ELSE b
    <3>1. ~IsRef(o) /\ ArgsKnown(fn, dom, b, k)
      BY SMTT(30), <2>1 DEF NoReferencesLeft, CodeKnown
    <3>2. user \in Blocks /\ \E d \in dom[user] : Makes(fn, d, o.value)
      <4>1. CASE IsPhi(c)
        BY ZenonT(60), <2>1, <3>1, <4>1 DEF ArgsKnown, KnownAtEnd, IsPhi
      <4>2. CASE ~IsPhi(c)
        BY <2>1, <3>1, <4>2 DEF ArgsKnown, KnownBefore, IsPhi
      <4> HIDE DEF c, o, user
      <4> QED BY <4>1, <4>2
    <3> HIDE DEF o, user
    <3>3. DefinedIn(o.value) \intersect dom[user] # {}
      BY <2>3, <3>1, <3>2
    <3> QED BY <3>3 DEF o, user
  <2> QED BY <2>4, <2>5
<1> QED BY <1>1, RenamingInvariant, ReferencesAreReplaced, PTL

-----------------------------------------------------------------------------
(* Where the phis are.                                                     *)
\* The blocks that give x a value, or may by a phi.
GivenIn(x) == {b \in Blocks : x \in fn.blocks[b].defs \union phiBlocks[b]}

\* A block off the worklist of x has phis wherever its dominance ends.
FrontiersCovered ==
  \A x \in Vars : \A d \in GivenIn(x) \ work[x] : \A b \in DF(d) : x \in phiBlocks[b]

PhiInv ==
  /\ phase = "phis" => /\ work \in [Vars -> SUBSET Blocks] /\ phiBlocks \in [Blocks -> SUBSET Vars]
                       /\ FrontiersCovered
  /\ PhisWhereDefinitionsMeet

\* With every block that gives a value on the worklist nothing is said.
LEMMA FrontiersAtFirst ==
  ASSUME EndSweep, GraphTypes, phase' = "phis"
  PROVE  PhiInv'
<1>1. /\ phase # "phis" /\ fn' = fn /\ Blocks' = Blocks
  BY DEF EndSweep, builder, Blocks
<1>2. /\ work' = [x \in Vars |-> {b \in Blocks : x \in fn.blocks[b].defs}]
      /\ phiBlocks' = [b \in Blocks |-> {}]
  BY <1>1 DEF EndSweep
<1>3. work' \in [Vars -> SUBSET Blocks] /\ phiBlocks' \in [Blocks -> SUBSET Vars]
  BY <1>2
<1>4. \A x \in Vars : GivenIn(x)' \ work'[x] = {}
  BY <1>1, <1>2 DEF GivenIn
<1>5. FrontiersCovered'
  BY <1>4 DEF FrontiersCovered
<1> QED BY <1>1, <1>3, <1>5 DEF PhiInv, PhisWhereDefinitionsMeet

\* A block taken off gets its phis, and the blocks of these are put on.
LEMMA PlacePhisKeeps ==
  ASSUME PhiInv, NEW x \in Vars, NEW b \in Blocks, PlacePhis(x, b)
  PROVE  PhiInv'
<1> DEFINE new == {y \in DF(b) : x \notin phiBlocks[y]}
<1>1. /\ phase = "phis" /\ phase' = "phis" /\ b \in work[x]
      /\ UNCHANGED <<fn, dom>> /\ Blocks' = Blocks /\ (\A d : DF(d)' = DF(d))
      /\ work' = [work EXCEPT ![x] = (@ \ {b}) \union new]
      /\ phiBlocks' = [y \in Blocks |-> IF y \in new THEN phiBlocks[y] \union {x} ELSE phiBlocks[y]]
  BY DEF PlacePhis, builder, doms, Blocks, DF, Preds
<1>2. work \in [Vars -> SUBSET Blocks] /\ phiBlocks \in [Blocks -> SUBSET Vars] /\ FrontiersCovered
  BY <1>1 DEF PhiInv
<1>3. new \subseteq Blocks
  BY DEF DF
<1>4. work' \in [Vars -> SUBSET Blocks] /\ phiBlocks' \in [Blocks -> SUBSET Vars]
  BY <1>1, <1>2, <1>3
<1>5. \A y \in Blocks : phiBlocks[y] \subseteq phiBlocks'[y] /\ (y \in new => x \in phiBlocks'[y])
  BY <1>1
<1>6. ASSUME NEW z \in Vars, NEW d \in GivenIn(z)' \ work'[z], NEW y \in DF(d)
      PROVE  z \in phiBlocks'[y]
  <2>1. y \in Blocks /\ d \in Blocks
    BY <1>1 DEF DF, GivenIn
  <2>2. CASE z = x /\ d = b
    BY <1>5, <2>1, <2>2
  <2>3. CASE ~(z = x /\ d = b)
    <3>1. d \notin work[z] /\ (z = x => d \notin new)
      BY <1>1, <1>2, <1>6, <2>3
    <3>2. z \in fn.blocks[d].defs \union phiBlocks[d]
      BY <1>1, <1>6, <2>1, <3>1 DEF GivenIn
    <3>3. z \in phiBlocks[y]
      BY <1>2, <2>1, <3>1, <3>2 DEF FrontiersCovered, GivenIn
    <3> QED BY <1>5, <2>1, <3>3
  <2> QED BY <2>2, <2>3
<1>7. FrontiersCovered'
  BY <1>1, <1>6 DEF FrontiersCovered
<1> QED BY <1>1, <1>4, <1>7 DEF PhiInv, PhisWhereDefinitionsMeet

\* With the worklists empty, a block where definitions meet is on the frontier of
\* one of them, and each of its predecessors has the one above.
LEMMA MeetingIsWanted ==
  ASSUME BuilderInv, DominatorInv, PhiInv, phase = "phis", \A x \in Vars : work[x] = {},
         NEW b \in Blocks, NEW x \in Vars, (dom[b] \ {b}) \intersect DefBlocks(x) # {},
         NEW p \in Preds(b), NEW d \in dom[p], x \in fn.blocks[d].defs \union phiBlocks[d],
         d \notin dom[b] \ {b}
  PROVE  x \in phiBlocks[b] /\ EveryPredecessorHasDefinition(b, x)
<1>1. /\ dom \in [Blocks -> SUBSET Blocks] /\ dom[entry] = {entry} /\ Settled(b)
      /\ p \in Blocks /\ FrontiersCovered
  BY GraphBlocks DEF BuilderInv, DominatorInv, PhiInv, Preds, Blocks
<1>2. d \in GivenIn(x) \ work[x] /\ b \in DF(d)
  BY <1>1 DEF GivenIn, DF
<1>3. x \in phiBlocks[b]
  BY <1>1, <1>2 DEF FrontiersCovered
<1>4. PICK e \in dom[b] \ {b} : e \in DefBlocks(x)
  OBVIOUS
<1>5. \A q \in Preds(b) : e \in dom[q]
  BY <1>1, <1>4 DEF Settled, NewDom
<1> QED BY <1>3, <1>4, <1>5 DEF EveryPredecessorHasDefinition

LEMMA InsertPhisMerges ==
  ASSUME BuilderInv, DominatorInv, ScopeInv, PhiInv, InsertPhis
  PROVE  PhiInv'
<1>1. /\ phase = "phis" /\ phase' = "rename" /\ (\A x \in Vars : work[x] = {})
      /\ fn' = insertPhis(fn) /\ dom' = dom /\ phiBlocks' = phiBlocks
  BY DEF InsertPhis, doms, phis
<1>2. /\ SameGraph(fn, fn')
      /\ \A b \in Blocks : \A x \in Vars :
           x \in phiBlocks[b] /\ EveryPredecessorHasDefinition(b, x) => HasMerge(fn', b, x)
  BY <1>1, InsertPhisPutsPhisFirst DEF PhisFirst
<1>3. /\ Blocks' = Blocks
      /\ \A b \in Blocks : fn'.blocks[b].defs = fn.blocks[b].defs /\ Preds(b)' = Preds(b)
      /\ \A x : DefBlocks(x)' = DefBlocks(x)
  <2>1. Blocks' = Blocks /\ \A b \in Blocks : fn'.blocks[b].defs = fn.blocks[b].defs /\ Preds(b)' = Preds(b)
    BY <1>2 DEF SameGraph, SameExits, Blocks, Preds
  <2> QED BY <2>1 DEF DefBlocks
<1>4. \A b, x : Merges(b, x)' <=> HasMerge(fn', b, x)
  BY DEF Merges, HasMerge, IsMerge
<1>5. dom \in [Blocks -> SUBSET Blocks] /\ \A b \in Blocks : Preds(b) \subseteq Blocks
  BY <1>1, GraphBlocks DEF BuilderInv, DominatorInv, Preds, Blocks
<1>6. ASSUME NEW b \in Blocks, NEW x \in Vars, (dom[b] \ {b}) \intersect DefBlocks(x) # {}, ~Merges(b, x)',
             NEW p \in Preds(b), NEW d \in dom[p], x \in fn'.blocks[d].defs \union phiBlocks[d]
      PROVE  d \in dom[b] \ {b}
  <2>1. x \in fn.blocks[d].defs \union phiBlocks[d]
    BY <1>3, <1>5, <1>6
  <2> SUFFICES ASSUME d \notin dom[b] \ {b}
               PROVE  FALSE
    OBVIOUS
  <2>2. x \in phiBlocks[b] /\ EveryPredecessorHasDefinition(b, x)
    BY <1>1, <1>6, <2>1, MeetingIsWanted
  <2> QED BY <1>2, <1>4, <1>6, <2>2
<1>7. PhisWhereDefinitionsMeet'
  BY <1>1, <1>3, <1>6 DEF PhisWhereDefinitionsMeet
<1> QED BY <1>1, <1>7 DEF PhiInv

\* Replacing operands leaves the phis.
LEMMA ReplacedMerges ==
  ASSUME PhisWhereDefinitionsMeet, phase = "rename", OperandsReplaced(fn, dom, fn'), UNCHANGED <<dom, phiBlocks>>,
         dom \in [Blocks -> SUBSET Blocks], \A b \in Blocks : Preds(b) \subseteq Blocks
  PROVE  PhisWhereDefinitionsMeet'
<1>1. /\ Blocks' = Blocks
      /\ \A b \in Blocks : fn'.blocks[b].defs = fn.blocks[b].defs /\ Preds(b)' = Preds(b)
  BY DEF OperandsReplaced, SameGraph, SameExits, Blocks, Preds
<1>2. \A x : DefBlocks(x)' = DefBlocks(x)
  BY <1>1 DEF DefBlocks
<1>3. \A b \in Blocks : \A x : Merges(b, x)' <=> Merges(b, x)
  <2> TAKE b \in Blocks
  <2>1. DOMAIN fn'.blocks[b].code = DOMAIN fn.blocks[b].code
    BY DEF OperandsReplaced, Blocks
  <2>2. ASSUME NEW k \in DOMAIN fn.blocks[b].code
        PROVE  /\ fn'.blocks[b].code[k].op = fn.blocks[b].code[k].op
               /\ fn'.blocks[b].code[k].sym = fn.blocks[b].code[k].sym
               /\ fn'.blocks[b].code[k].at = fn.blocks[b].code[k].at
    <3>1. InstrReplaced(fn, dom, b, fn'.blocks[b].code[k], fn.blocks[b].code[k])
      BY DEF OperandsReplaced, Blocks
    <3> QED BY <3>1 DEF InstrReplaced
  <2> QED BY <2>1, <2>2 DEF Merges
<1>4. ASSUME NEW b \in Blocks, NEW x \in Vars, (dom[b] \ {b}) \intersect DefBlocks(x) # {}, ~Merges(b, x),
             NEW p \in Preds(b), NEW d \in dom[p], x \in fn'.blocks[d].defs \union phiBlocks[d]
      PROVE  d \in dom[b] \ {b}
  <2>1. x \in fn.blocks[d].defs \union phiBlocks[d]
    BY <1>1, <1>4
  <2> QED BY <1>4, <2>1 DEF PhisWhereDefinitionsMeet
<1> QED BY <1>1, <1>2, <1>3, <1>4 DEF PhisWhereDefinitionsMeet

LEMMA PhiInvHolds == Init => PhiInv
BY DEF Init, BuilderInit, PhiInv, PhisWhereDefinitionsMeet

LEMMA PhiInvKept ==
  BuilderInv /\ DominatorInv /\ ScopeInv /\ ShapeInv /\ RenamingInv /\ PhiInv /\ [Next]_vars => PhiInv'
<1> SUFFICES ASSUME BuilderInv, DominatorInv, ScopeInv, ShapeInv, RenamingInv, PhiInv, [Next]_vars
             PROVE  PhiInv'
  OBVIOUS
<1>1. ASSUME phase' \notin {"phis", "rename"}
      PROVE  PhiInv'
  BY <1>1 DEF PhiInv, PhisWhereDefinitionsMeet
<1>2. ASSUME phase' = phase, UNCHANGED <<fn, dom, work, phiBlocks>>
      PROVE  PhiInv'
  <2>1. /\ Blocks' = Blocks /\ (\A b : Preds(b)' = Preds(b)) /\ (\A d : DF(d)' = DF(d))
        /\ \A x : DefBlocks(x)' = DefBlocks(x) /\ GivenIn(x)' = GivenIn(x)
    BY <1>2 DEF Blocks, Preds, DF, DefBlocks, GivenIn
  <2>2. \A b, x : Merges(b, x)' <=> Merges(b, x)
    BY <1>2 DEF Merges
  <2>3. FrontiersCovered' <=> FrontiersCovered
    BY <1>2, <2>1 DEF FrontiersCovered
  <2>4. PhisWhereDefinitionsMeet' <=> PhisWhereDefinitionsMeet
    BY <1>2, <2>1, <2>2 DEF PhisWhereDefinitionsMeet
  <2> QED BY <1>2, <2>1, <2>3, <2>4 DEF PhiInv
<1>3. CASE Build /\ UNCHANGED ssa
  <2>1. phase' \in {"build", "dominators"}
    BY <1>3, BuildPhases
  <2> QED BY <1>1, <2>1
<1>4. CASE StartDominators \/ VisitBlock \/ AssertionFails
  <2>1. phase' \in {"dominators", "assertion failed"}
    BY <1>4 DEF StartDominators, VisitBlock, AssertionFails
  <2> QED BY <1>1, <2>1
<1>5. CASE EndSweep
  <2>1. GraphTypes /\ (phase' # "phis" => phase' = "dominators")
    BY <1>5 DEF ShapeInv, EndSweep
  <2> QED BY <1>1, <1>5, <2>1, FrontiersAtFirst
<1>6. ASSUME NEW x \in Vars, NEW b \in Blocks, PlacePhis(x, b)
      PROVE  PhiInv'
  BY <1>6, PlacePhisKeeps
<1>7. CASE InsertPhis
  BY <1>7, InsertPhisMerges
<1>8. CASE Rename
  <2>1. phase = "rename" /\ GraphTypes /\ InRename(fn, dom, calls, varStack) /\ UNCHANGED <<dom, phiBlocks>>
    BY <1>8 DEF ShapeInv, RenamingInv, Rename, doms, phis
  <2>2. phase' = "rename" /\ OperandsReplaced(fn, dom, fn')
    BY <1>8, <2>1, RenameKeeps
  <2>3. dom \in [Blocks -> SUBSET Blocks] /\ \A b \in Blocks : Preds(b) \subseteq Blocks
    <3>1. dom \in [Blocks -> SUBSET Blocks]
      BY <2>1 DEF InRename, InLines, Blocks
    <3>2. \A b \in Blocks : Preds(b) \subseteq Blocks
      BY <2>1 DEF GraphTypes, Preds
    <3> QED BY <3>1, <3>2
  <2>4. PhisWhereDefinitionsMeet'
    BY <2>1, <2>2, <2>3, ReplacedMerges DEF PhiInv
  <2> QED BY SMTT(30), <2>2, <2>4 DEF PhiInv
<1>9. ASSUME NEW c \in Blocks, RenameChild(c)
      PROVE  PhiInv'
  BY <1>2, <1>9 DEF RenameChild, builder, doms, phis
<1>10. CASE LeaveBlock
  <2>1. UNCHANGED <<fn, dom, work, phiBlocks>> /\ (phase' = phase \/ phase' = "renamed")
    BY <1>10 DEF LeaveBlock, builder, doms, phis
  <2> QED BY <1>1, <1>2, <2>1
<1>11. ASSUME UNCHANGED <<builder, ssa>>,
              \/ phase' = phase
              \/ phase \in {"renamed", "run"} /\ phase' \in {"run", "returned"}
       PROVE  PhiInv'
  <2>1. UNCHANGED <<fn, dom, work, phiBlocks>>
    BY <1>11 DEF builder, ssa
  <2> QED BY <1>1, <1>2, <1>11, <2>1
<1>12. CASE UNCHANGED vars
  BY <1>11, <1>12 DEF vars
<1> QED BY <1>3, <1>4, <1>5, <1>6, <1>7, <1>8, <1>9, <1>10, <1>11, <1>12, RunKeeps DEF Next, BuildSSA

\* A phi is wanted on the frontier of every block that gives a variable a value, of
\* those that get a phi too, and put wherever the predecessors have one: a block
\* that gets none has above it whatever its predecessors have.
THEOREM PhisSeparateDefinitions == Spec => []PhisWhereDefinitionsMeet
<1>1. Init => PhiInv
  BY PhiInvHolds
<1>2. BuilderInv /\ DominatorInv /\ ScopeInv /\ ShapeInv /\ RenamingInv /\ PhiInv /\ [Next]_vars => PhiInv'
  BY PhiInvKept
<1>3. Spec => [](BuilderInv /\ DominatorInv /\ ScopeInv /\ ShapeInv /\ RenamingInv)
  BY InvariantsOfRenaming
<1>4. PhiInv => PhisWhereDefinitionsMeet
  BY DEF PhiInv
<1> QED BY <1>1, <1>2, <1>3, <1>4, PTL DEF Spec

-----------------------------------------------------------------------------
(* What is on top of the stacks.                                           *)
\* Calls that have pushed nothing for a variable leave it the height it had.
NothingPushed(cs, x, i) == \A j \in 1 .. Len(cs) : i < j => Count(cs[j].pushed, x) = 0
LEMMA SameHeight ==
  ASSUME NEW f, NEW D, NEW cs, Len(cs) \in Nat, NEW stack, NEW h, Heights(f, D, cs, stack, h),
         NEW x \in Vars, NEW i \in 0 .. Len(cs),
         NothingPushed(cs, x, i)
  PROVE  h[Len(cs)][x] = h[i][x]
<1> DEFINE n == Len(cs)
           T == {m \in Nat : i + m <= n => h[i + m][x] = h[i][x]}
<1>1. 0 \in T
  BY DEF Heights
<1>2. ASSUME NEW m \in Nat, m \in T
      PROVE  m + 1 \in T
  <2> SUFFICES ASSUME i + (m + 1) <= n
               PROVE  h[i + (m + 1)][x] = h[i][x]
    OBVIOUS
  <2> DEFINE j == i + (m + 1)
  <2>1. j \in 1 .. n /\ i < j /\ j - 1 = i + m /\ i + m <= n /\ j - 1 \in 0 .. n
    OBVIOUS
  <2>2. Count(cs[j].pushed, x) = 0 /\ h[i + m][x] = h[i][x]
    BY <1>2, <2>1 DEF NothingPushed
  <2>3. h[j][x] = h[j - 1][x] + Count(cs[j].pushed, x) /\ h[j - 1][x] \in Nat
    BY <2>1 DEF Heights
  <2> QED BY <2>1, <2>2, <2>3
<1>3. \A m \in Nat : m \in T
  <2> HIDE DEF T
  <2> QED BY <1>1, <1>2, SetInduction
<1>4. n - i \in Nat /\ i + (n - i) = n
  OBVIOUS
<1>5. n - i \in T
  BY <1>3, <1>4
<1> QED BY <1>4, <1>5

\* Of the calls on the path those that have been entered are of the blocks above.
EnteredBlocks(cs) == {cs[i].block : i \in {i \in 1 .. Len(cs) : cs[i].entered}}
LEMMA PathAbove ==
  ASSUME NEW D, NEW B, NEW cs, OnPath(D, B, cs)
  PROVE  LET last == cs[Len(cs)]
             above == IF last.entered THEN D[last.block] ELSE D[last.block] \ {last.block}
         IN  above = EnteredBlocks(cs)
<1> DEFINE n == Len(cs)
           last == cs[n]
           entered == {i \in 1 .. n : cs[i].entered}
<1>1. n \in Nat \ {0} /\ DOMAIN cs = 1 .. n /\ n \in DOMAIN cs
  BY LenProperties, EmptySeq DEF OnPath
<1> HIDE DEF n
<1>2. \A i \in 1 .. n : i = n \/ (i < n /\ i \in 1 .. n - 1)
  BY <1>1
<1>3. /\ D[last.block] = {cs[i].block : i \in 1 .. n}
      /\ \A i \in 1 .. n - 1 : cs[i].block # last.block
      /\ \A i \in 1 .. n : i < n => cs[i].entered
  BY <1>1 DEF OnPath, n
<1>4. CASE last.entered
  <2>1. entered = 1 .. n
    BY <1>1, <1>2, <1>3, <1>4
  <2> QED BY <1>3, <1>4, <2>1 DEF EnteredBlocks, n
<1>5. CASE ~last.entered
  <2>1. \A i \in 1 .. n : i \in entered <=> cs[i].block # last.block
    BY <1>1, <1>2, <1>3, <1>5
  <2>2. D[last.block] \ {last.block} = {cs[i].block : i \in entered}
    BY <1>3, <2>1
  <2> QED BY <1>5, <2>2 DEF EnteredBlocks, n
<1> QED BY <1>4, <1>5

\* The stack of a variable is empty where nothing above defines it; otherwise the
\* nearest block that does has its value on top.
NearestOnTop(f, D, cs, stack, x) ==
  LET definers == {d \in EnteredBlocks(cs) : Has(f, d, x)}
  IN  /\ stack[x] = << >> <=> definers = {}
      /\ \A d \in definers : definers \subseteq D[d] => GivesLast(f, d, x, Last(stack[x]))
LEMMA NearestGivesTop ==
  ASSUME NEW f, NEW D, NEW cs, OnPath(D, DOMAIN f.blocks, cs),
         NEW stack \in [Vars -> Seq(Nat)], NEW h, Heights(f, D, cs, stack, h), Tops(f, cs, stack, h),
         NEW x \in Vars
  PROVE  NearestOnTop(f, D, cs, stack, x)
<1> DEFINE n == Len(cs)
           definers == {d \in EnteredBlocks(cs) : Has(f, d, x)}
<1>1. n \in Nat \ {0} /\ DOMAIN cs = 1 .. n
  BY LenProperties, EmptySeq DEF OnPath
<1>2. \A i \in 1 .. n : i \in 0 .. n /\ i <= n
  BY <1>1
<1>3. \A d : d \in definers <=> \E i \in 1 .. n : cs[i].entered /\ cs[i].block = d /\ Has(f, d, x)
  BY DEF EnteredBlocks
<1> HIDE DEF definers
<1>4. 0 \in 0 .. n /\ n \in 0 .. n
  BY <1>1
<1>5. /\ stack[x] \in Seq(Nat) /\ Len(stack[x]) \in Nat /\ (stack[x] = << >> <=> Len(stack[x]) = 0)
      /\ h[n][x] = Len(stack[x]) /\ h[0][x] = 0
  BY EmptySeq, LenProperties DEF Heights, Tops
<1>6. \A i \in 1 .. n : ~(cs[i].entered /\ Has(f, cs[i].block, x)) => Count(cs[i].pushed, x) = 0
  <2> SUFFICES ASSUME NEW i \in 1 .. n, ~(cs[i].entered /\ Has(f, cs[i].block, x))
               PROVE  Count(cs[i].pushed, x) = 0
    OBVIOUS
  <2>1. CASE ~cs[i].entered
    <3>1. cs[i].pushed = << >>
      BY <1>1, <2>1 DEF OnPath
    <3> QED BY <3>1, CountEmpty
  <2>2. CASE ~Has(f, cs[i].block, x)
    BY <2>2 DEF Tops, TopAt
  <2> QED BY <2>1, <2>2
<1>7. ASSUME definers = {}
      PROVE  Len(stack[x]) = 0
  <2>1. \A i \in 1 .. n : Count(cs[i].pushed, x) = 0
    BY <1>6, <1>7, <1>3
  <2>2. h[n][x] = h[0][x]
    <3>1. NothingPushed(cs, x, 0)
      BY <2>1 DEF NothingPushed
    <3> QED BY <1>1, <1>4, <3>1, SameHeight
  <2> QED BY <1>5, <2>2
<1>8. ASSUME NEW d \in definers
      PROVE  /\ Len(stack[x]) # 0
             /\ definers \subseteq D[d] => GivesLast(f, d, x, Last(stack[x]))
  <2>1. PICK i \in 1 .. n : cs[i].entered /\ cs[i].block = d /\ Has(f, d, x)
    BY <1>8, <1>3
  <2>2. h[i][x] # 0 /\ h[i][x] <= h[n][x] /\ h[i][x] \in Nat
    BY <1>2, <1>4, <2>1 DEF Heights
  <2>3. Len(stack[x]) # 0
    BY <1>5, <2>2
  <2>4. ASSUME definers \subseteq D[d]
        PROVE  GivesLast(f, d, x, Last(stack[x]))
    <3>1. ASSUME NEW j \in 1 .. n, i < j
          PROVE  Count(cs[j].pushed, x) = 0
      <4>1. ASSUME cs[j].entered, Has(f, cs[j].block, x)
            PROVE  FALSE
        <5>1. cs[j].block \in D[d]
          BY <1>3, <2>4, <4>1
        <5>2. PICK l \in 1 .. i : cs[j].block = cs[l].block
          <6>1. D[d] = {cs[l].block : l \in 1 .. i}
            BY <1>1, <2>1 DEF OnPath
          <6> QED BY <5>1, <6>1
        <5>3. l \in 1 .. j - 1
          BY <3>1, <5>2
        <5>4. cs[l].block # cs[j].block
          BY <1>1, <5>3 DEF OnPath
        <5> QED BY <5>2, <5>4
      <4> QED BY <1>6, <4>1
    <3>2. h[n][x] = h[i][x]
      <4>1. NothingPushed(cs, x, i)
        BY <3>1 DEF NothingPushed
      <4> QED BY <1>1, <1>2, <2>1, <4>1, SameHeight
    <3>3. GivesLast(f, d, x, stack[x][h[i][x]])
      BY <2>1 DEF Tops, TopAt
    <3>4. Last(stack[x]) = stack[x][Len(stack[x])]
      BY <1>5, <2>3, FrontIsPrefix
    <3> QED BY <1>5, <3>2, <3>3, <3>4
  <2> QED BY <2>3, <2>4
<1> QED BY <1>5, <1>7, <1>8 DEF NearestOnTop, definers

\* The stacks are those of the path to the block being renamed: each entered call has
\* on top, at its height, what its block gave last, and the calls after the nearest
\* block that defines a variable have pushed nothing for it.
THEOREM NearestIsOnTop == Spec => []TopIsNearest
<1>1. RenamingInv => TopIsNearest
  <2> SUFFICES ASSUME RenamingInv, phase = "rename"
               PROVE  LET above == IF Call.entered THEN dom[Call.block] ELSE dom[Call.block] \ {Call.block}
                          definers(x) == {d \in above : Gives(d, x) # {}}
                      IN  \A x \in Vars :
                            /\ varStack[x] = << >> <=> definers(x) = {}
                            /\ \A d \in definers(x) : definers(x) \subseteq dom[d] =>
                                 \A k \in Gives(d, x) : (\A j \in Gives(d, x) : j <= k) =>
                                   Last(varStack[x]) = Given(fn.blocks[d].code[k])
    BY DEF TopIsNearest
  <2> DEFINE above == IF Call.entered THEN dom[Call.block] ELSE dom[Call.block] \ {Call.block}
  <2>1. /\ OnPath(dom, DOMAIN fn.blocks, calls) /\ varStack \in [Vars -> Seq(Nat)] /\ CodeKnown(fn, dom)
        /\ InLines(dom, DOMAIN fn.blocks)
    BY DEF RenamingInv, InRename
  <2>2. PICK h : Heights(fn, dom, calls, varStack, h) /\ Tops(fn, calls, varStack, h)
    BY DEF RenamingInv, InRename
  <2>3. Call = calls[Len(calls)]
    BY <2>1, FrontIsPrefix DEF OnPath, Call
  <2>4. above = EnteredBlocks(calls)
    BY <2>1, <2>3, PathAbove
  <2> HIDE DEF above
  <2>5. \A d, x : Gives(d, x) # {} <=> Has(fn, d, x)
    BY DEF Gives, Has
  <2> SUFFICES ASSUME NEW x \in Vars
               PROVE  LET definers == {d \in above : Gives(d, x) # {}}
                      IN  /\ varStack[x] = << >> <=> definers = {}
                          /\ \A d \in definers : definers \subseteq dom[d] =>
                               \A k \in Gives(d, x) : (\A j \in Gives(d, x) : j <= k) =>
                                 Last(varStack[x]) = Given(fn.blocks[d].code[k])
    BY DEF above
  <2> DEFINE definers == {d \in above : Gives(d, x) # {}}
  <2>6. definers = {d \in above : Has(fn, d, x)}
    BY <2>5
  <2>7. above \subseteq DOMAIN fn.blocks
    <3>1. DOMAIN calls = 1 .. Len(calls)
      BY <2>1, LenProperties DEF OnPath
    <3> QED BY <2>1, <2>4, <3>1 DEF OnPath, EnteredBlocks
  <2>8. definers \subseteq DOMAIN fn.blocks
    BY <2>7
  <2> HIDE DEF definers
  <2>9. /\ varStack[x] = << >> <=> definers = {}
        /\ \A d \in definers : definers \subseteq dom[d] => GivesLast(fn, d, x, Last(varStack[x]))
    <3>1. NearestOnTop(fn, dom, calls, varStack, x)
      BY <2>1, <2>2, NearestGivesTop
    <3> QED BY <2>4, <2>6, <3>1 DEF NearestOnTop
  <2>10. ASSUME NEW d \in definers, definers \subseteq dom[d],
                NEW k \in Gives(d, x), \A j \in Gives(d, x) : j <= k
         PROVE  Last(varStack[x]) = Given(fn.blocks[d].code[k])
    <3>1. PICK m \in DOMAIN fn.blocks[d].code :
            /\ fn.blocks[d].code[m].sym = x
            /\ \A j \in DOMAIN fn.blocks[d].code : fn.blocks[d].code[j].sym = x => j <= m
            /\ GivesValue(fn.blocks[d].code[m], Last(varStack[x]))
      BY <2>9, <2>10 DEF GivesLast
    <3>2. m <= k /\ k <= m
      BY <2>10, <3>1 DEF Gives
    <3>3. DOMAIN fn.blocks[d].code \subseteq Nat
      <4>1. fn.blocks[d].code \in Seq(Instruction)
        BY <2>1, <2>8 DEF CodeKnown
      <4> QED BY <4>1, LenProperties
    <3>4. m = k
      BY <3>1, <3>2, <3>3 DEF Gives
    <3> QED BY <3>1, <3>4 DEF GivesValue
  <2> QED BY <2>9, <2>10 DEF definers
<1> QED BY <1>1, InvariantsOfRenaming, PTL
=============================================================================
