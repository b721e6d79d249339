----------------------------- MODULE SSABuilder -----------------------------
(***************************************************************************)
(* SSA construction (SSA/SSABuilder.cpp) on the function ControlFlow has   *)
(* built: dominators by iteration, phi positions by iterated dominance     *)
(* frontiers, insertion of the phis whose operands all exist, and renaming *)
(* along the dominator tree.                                               *)
(*                                                                         *)
(* Iterating an unordered set visits it in any order; the names of values  *)
(* and the order of the phis of one block do not matter to what follows    *)
(* (PhiCopies takes any list), so insertion uses one order of the          *)
(* variables.                                                              *)
(***************************************************************************)
EXTENDS ControlFlow

VARIABLES
  dom,        \* block -> the blocks computeDoms has not yet ruled out
  visiting,   \* position of its loop over the blocks
  changed,
  work,       \* computePhiPos: variable -> blocks on its worklist
  phiBlocks,  \* block -> variables that get a phi
  calls,      \* active calls of rename: [block, pushed, children]
  varStack    \* variable -> values, the reaching definition last

ssa == <<dom, visiting, changed, work, phiBlocks, calls, varStack>>
doms == <<dom, visiting, changed>>
phis == <<work, phiBlocks>>
renaming == <<calls, varStack>>

Blocks == DOMAIN fn.blocks
entry == 1
Preds(b) == ToSet(fn.blocks[b].preds)

SSAInit ==
  /\ dom = << >>
  /\ visiting = 0
  /\ changed = FALSE
  /\ work = << >>
  /\ phiBlocks = << >>
  /\ calls = << >>
  /\ varStack = [x \in Vars |-> << >>]

-----------------------------------------------------------------------------
(* computeDoms.                                                            *)
StartDominators ==
  /\ phase = "dominators"
  /\ visiting = 0
  /\ dom' = [b \in Blocks |-> IF b = entry THEN {entry} ELSE Blocks]
  /\ visiting' = 1
  /\ changed' = FALSE
  /\ UNCHANGED <<phase, builder, phis, renaming>>

NewDom(b) == {b} \union {d \in Blocks : \A p \in Preds(b) : d \in dom[p]}

\* assert(!block->preds.empty())
AssertionFails ==
  /\ phase = "dominators"
  /\ visiting \in Blocks \ {entry}
  /\ Preds(visiting) = {}
  /\ phase' = "assertion failed"
  /\ UNCHANGED <<builder, ssa>>

VisitBlock ==
  /\ phase = "dominators"
  /\ visiting \in Blocks
  /\ visiting = entry \/ Preds(visiting) # {}
  /\ IF visiting # entry /\ NewDom(visiting) # dom[visiting]
     THEN /\ dom' = [dom EXCEPT ![visiting] = NewDom(visiting)]
          /\ changed' = TRUE
     ELSE UNCHANGED <<dom, changed>>
  /\ visiting' = visiting + 1
  /\ UNCHANGED <<phase, builder, phis, renaming>>

StopAtFirstSweep ==
  /\ phase = "dominators"
  /\ visiting = Len(fn.blocks) + 1
  /\ UNCHANGED <<dom, visiting, changed, builder, renaming>>
  /\ phase' = "phis"
  /\ work' = [x \in Vars |-> {b \in Blocks : x \in fn.blocks[b].defs}]
  /\ phiBlocks' = [b \in Blocks |-> {}]

\* Another sweep, or on to the phis: collectDefs fills the worklists.
EndSweep ==
  /\ phase = "dominators"
  /\ visiting = Len(fn.blocks) + 1
  /\ UNCHANGED <<dom, builder, renaming>>
  /\ IF changed
     THEN /\ visiting' = 1
          /\ changed' = FALSE
          /\ UNCHANGED <<phase, phis>>
     ELSE /\ phase' = "phis"
          /\ work' = [x \in Vars |-> {b \in Blocks : x \in fn.blocks[b].defs}]
          /\ phiBlocks' = [b \in Blocks |-> {}]
          /\ UNCHANGED <<visiting, changed>>

\* The strict dominator that every other strict dominator dominates.
idom(b) == CHOOSE d \in dom[b] \ {b} : \A x \in dom[b] \ {b, d} : x \in dom[d]
domTree(b) == {c \in Blocks \ {entry} : idom(c) = b}

-----------------------------------------------------------------------------
(* computeDFNaive, computePhiPos and insertPhis.                           *)
\* A loop header that defines the variable itself gets no phi.
DFWithoutItself(x) == {y \in Blocks : x \notin dom[y] /\ \E p \in Preds(y) : x \in dom[p]}

DF(x) == {y \in Blocks : /\ ~(x # y /\ x \in dom[y])
                         /\ \E p \in Preds(y) : x \in dom[p]}

\* Variables are taken one after another; they do not affect each other.
PhiVar == CHOOSE x \in Vars : work[x] # {}

\* One block off the worklist of x: a new phi is a definition in its turn.
PlacePhis(x, b) ==
  /\ phase = "phis"
  /\ b \in work[x]
  /\ x = PhiVar
  /\ LET new == {y \in DF(b) : x \notin phiBlocks[y]}
     IN  /\ work' = [work EXCEPT ![x] = (@ \ {b}) \union new]
         /\ phiBlocks' = [y \in Blocks |-> IF y \in new THEN phiBlocks[y] \union {x} ELSE phiBlocks[y]]
  /\ UNCHANGED <<phase, builder, doms, renaming>>

DefBlocks(x) == {b \in Blocks : x \in fn.blocks[b].defs}
SomePredecessorHasDefinition(b, x) == \E p \in Preds(b) : dom[p] \intersect DefBlocks(x) # {}
EveryPredecessorHasDefinition(b, x) == \A p \in Preds(b) : dom[p] \intersect DefBlocks(x) # {}

insertPhis(f) ==
  LET wanted == SetToSeq({w \in Blocks \X Vars :
                            w[2] \in phiBlocks[w[1]] /\ EveryPredecessorHasDefinition(w[1], w[2])})
      phi(i) == LET x == wanted[i][2]
                    preds == f.blocks[wanted[i][1]].preds
                IN  Instr("phi", f.nextId + i - 1, [k \in DOMAIN preds |-> Ref(x)], preds, x, << >>)
      in(b) == [i \in {i \in DOMAIN wanted : wanted[i][1] = b} |-> phi(i)]
  IN  [f EXCEPT !.nextId = @ + Len(wanted),
                !.blocks = [b \in DOMAIN f.blocks |->
                              [f.blocks[b] EXCEPT !.code = SetToSeq({in(b)[i] : i \in DOMAIN in(b)}) \o @]]]

InsertPhis ==
  /\ phase = "phis"
  /\ \A x \in Vars : work[x] = {}
  /\ fn' = insertPhis(fn)
  /\ phase' = "rename"
  /\ calls' = <<[block |-> entry, pushed |-> << >>, children |-> {}, entered |-> FALSE]>>
  /\ UNCHANGED <<dialect, open, prog, doms, phis, varStack>>

-----------------------------------------------------------------------------
(* rename: the definitions of a block are pushed while its operands are    *)
(* replaced, the phis of its successors get the values at its end, and the *)
(* pushes are undone after its children in the dominator tree.             *)
Lookup(stack, o) == IF IsRef(o) THEN Value(Last(stack[o.ref])) ELSE o
Bound(stack, o) == IsRef(o) => stack[o.ref] # << >>
PushTo(stack, x, v) == IF x = None THEN stack ELSE [stack EXCEPT ![x] = Append(@, v)]

\* One instruction: its operands read the stacks, then it defines.
renameInstr(acc, instr) ==
  LET reads == IF instr.op = "phi" THEN {} ELSE DOMAIN instr.args
      args == [i \in DOMAIN instr.args |->
                 IF i \in reads THEN Lookup(acc.stack, instr.args[i]) ELSE instr.args[i]]
      defined == IF instr.op = "bind" THEN args[1].value ELSE instr.dst
  IN  IF acc.failed \/ \E i \in reads : ~Bound(acc.stack, instr.args[i])
      THEN [acc EXCEPT !.failed = TRUE]
      ELSE [failed |-> FALSE,
            stack |-> PushTo(acc.stack, instr.sym, defined),
            pushed |-> IF instr.sym = None THEN acc.pushed ELSE Append(acc.pushed, instr.sym),
            code |-> Append(acc.code, [instr EXCEPT !.args = args])]

FilledOfVariables(stack, b, instr) ==
  IF instr.op # "phi" \/ instr.sym = None THEN instr
  ELSE [instr EXCEPT !.args = [i \in DOMAIN @ |-> IF instr.preds[i] = b THEN Lookup(stack, @[i]) ELSE @[i]]]

\* The operands phis of s take from block b: those of a variable's phi are
\* looked up by the variable, the others where they are references.
FilledFrom(stack, b, instr) ==
  IF instr.op # "phi" THEN instr
  ELSE [instr EXCEPT !.args = [i \in DOMAIN @ |-> IF instr.preds[i] = b THEN Lookup(stack, @[i]) ELSE @[i]]]
PhisBound(f, stack, b) ==
  \A s \in ToSet(f.blocks[b].succs) : \A k \in DOMAIN f.blocks[s].code :
    LET instr == f.blocks[s].code[k]
    IN  instr.op = "phi" =>
          \A i \in DOMAIN instr.args : instr.preds[i] = b => Bound(stack, instr.args[i])

Call == Last(calls)

renamed(b) ==
  LET code == fn.blocks[b].code
      upTo[n \in 0 .. Len(code)] ==
        IF n = 0 THEN [failed |-> FALSE, stack |-> varStack, pushed |-> << >>, code |-> << >>]
        ELSE renameInstr(upTo[n - 1], code[n])
  IN  upTo[Len(code)]

Rename ==
  /\ phase = "rename"
  /\ calls # << >>
  /\ ~Call.entered
  /\ LET b == Call.block
         r == renamed(b)
         term == fn.blocks[b].term
         f1 == [fn EXCEPT !.blocks[b].code = r.code,
                          !.blocks[b].term.args = [i \in DOMAIN @ |-> Lookup(r.stack, @[i])]]
         filled(s) == [f1.blocks[s] EXCEPT !.code = [k \in DOMAIN @ |-> FilledFrom(r.stack, b, @[k])]]
     IN  IF \/ r.failed
            \/ \E i \in DOMAIN term.args : ~Bound(r.stack, term.args[i])
            \/ ~PhisBound([fn EXCEPT !.blocks[b].code = r.code], r.stack, b)
         THEN /\ phase' = "no reaching definition"
              /\ UNCHANGED <<fn, renaming>>
         ELSE /\ fn' = [f1 EXCEPT !.blocks =
                          [s \in DOMAIN @ |-> IF s \in ToSet(fn.blocks[b].succs) THEN filled(s) ELSE @[s]]]
              /\ varStack' = r.stack
              /\ calls' = Append(Front(calls), [Call EXCEPT !.pushed = r.pushed, !.children = domTree(b),
                                                            !.entered = TRUE])
              /\ UNCHANGED phase
  /\ UNCHANGED <<dialect, open, prog, doms, phis>>

RenameChild(c) ==
  /\ phase = "rename"
  /\ calls # << >>
  /\ Call.entered
  /\ c \in Call.children
  /\ calls' = Append(Front(calls), [Call EXCEPT !.children = @ \ {c}])
                \o <<[block |-> c, pushed |-> << >>, children |-> {}, entered |-> FALSE]>>
  /\ UNCHANGED <<phase, builder, doms, phis, varStack>>

Occurrences(x, s) == Cardinality({i \in DOMAIN s : s[i] = x})
LeaveBlockPoppingOnce ==
  /\ phase = "rename"
  /\ calls # << >>
  /\ Call.entered
  /\ Call.children = {}
  /\ varStack' = [x \in Vars |-> IF x \in ToSet(Call.pushed) THEN Front(varStack[x]) ELSE varStack[x]]
  /\ calls' = Front(calls)
  /\ phase' = IF Len(calls) = 1 THEN "renamed" ELSE phase
  /\ UNCHANGED <<builder, doms, phis>>

LeaveBlock ==
  /\ phase = "rename"
  /\ calls # << >>
  /\ Call.entered
  /\ Call.children = {}
  /\ varStack' = [x \in Vars |->
                    SubSeq(varStack[x], 1, Len(varStack[x]) - Occurrences(x, Call.pushed))]
  /\ calls' = Front(calls)
  /\ phase' = IF Len(calls) = 1 THEN "renamed" ELSE phase
  /\ UNCHANGED <<builder, doms, phis>>

BuildSSA ==
  \/ StartDominators
  \/ AssertionFails
  \/ VisitBlock
  \/ EndSweep
  \/ \E x \in Vars : \E b \in Blocks : PlacePhis(x, b)
  \/ InsertPhis
  \/ Rename
  \/ \E c \in Blocks : RenameChild(c)
  \/ LeaveBlock
=============================================================================
