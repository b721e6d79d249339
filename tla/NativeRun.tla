----------------------------- MODULE NativeRun -----------------------------
(***************************************************************************)
(* From the source of a function to its native run: ControlFlow builds     *)
(* blocks, SSABuilder renames them, MIR lowering replaces phis by copies   *)
(* at the end of the predecessors (MachineIR/MIRBuilder.cpp), and the      *)
(* result is executed next to the source program.                          *)
(*                                                                         *)
(* The two meet at what the source can observe: an operation reading its   *)
(* operand, a branch reading its condition, a return.  Both are given the  *)
(* same fresh result or the same decision there.  Everything else is a     *)
(* step of one side.  The copies of a block take place at once, which is   *)
(* what PhiCopies shows of the MOVEs they are drained into.                *)
(***************************************************************************)
EXTENDS SSABuilder

CONSTANT Ticks  \* results of operations are numbered modulo Ticks
ASSUME TicksAssumption ==
  /\ Ticks \in Nat \ {0}
  /\ \A d \in Dialects : Len(d.params) <= Ticks

VARIABLES
  at,    \* native: <<block, next instruction>>
  regs,  \* native: value -> what its stack slot holds
  pc,    \* source: the token being executed
  vals,  \* source: variable -> value
  deep,  \* source: how many right operands of short circuits it is in
  acc,   \* source: value of the expression evaluated, Pending before
  tick   \* number of the last fresh result

native == <<at, regs>>
source == <<pc, vals, deep, acc>>
running == <<at, regs, pc, vals, deep, acc, tick>>
vars == <<phase, builder, ssa, running>>

False == 0
True == 1
Unset == -1    \* never written
Pending == -2  \* no value yet

Init ==
  /\ BuilderInit
  /\ SSAInit
  /\ at = <<entry, 1>>
  /\ regs = << >>
  /\ pc = 1
  /\ vals = [x \in Vars |-> LET i == SelectInSeq(dialect.params, LAMBDA p : p = x)
                             IN  IF i = 0 THEN Unset ELSE i]
  /\ deep = 0
  /\ acc = Pending
  /\ tick = Len(dialect.params)

-----------------------------------------------------------------------------
(* The source program: it is silent except at an operation, the operator   *)
(* of a short circuit, a condition and a return.                           *)
Done == pc > Len(prog)
token == prog[pc]
expr == CASE deep = 0 -> token.e [] deep = 1 -> token.e.right [] deep = 2 -> token.e.right.right
Evaluates == ~Done /\ token.e # << >> /\ acc = Pending
AtOperation == Evaluates /\ expr.kind \in {"constant", "operation", "increment", "assignment"}
AtShortCircuit == Evaluates /\ expr.kind \in {"short", "nested"}
AtCondition == ~Done /\ token.kind \in {"if", "while"} /\ acc # Pending
AtReturn == ~Done => token.kind = "return" /\ acc # Pending
Observable == AtOperation \/ AtShortCircuit \/ AtCondition \/ AtReturn

\* Where the source is and what it reads there.
SourcePoint == <<pc, IF AtOperation \/ AtShortCircuit THEN 2 * deep + 1 ELSE 2>>
SourceReads ==
  CASE Done -> << >>
    [] AtOperation \/ AtShortCircuit -> IF expr.kind = "constant" THEN << >> ELSE <<vals[expr.left]>>
    [] AtCondition \/ AtReturn -> <<acc>>

ReadVariable ==
  /\ Evaluates
  /\ expr.kind = "variable"
  /\ acc' = vals[expr.left]
  /\ deep' = 0
  /\ UNCHANGED <<pc, vals>>

Store ==
  /\ ~Done
  /\ token.kind \in {"assign", "expression"}
  /\ acc # Pending
  /\ vals' = IF token.kind = "assign" THEN [vals EXCEPT ![token.x] = acc] ELSE vals
  /\ acc' = Pending
  /\ pc' = pc + 1
  /\ UNCHANGED deep

AfterFalse == IF token.alt # 0 THEN token.alt + 1 ELSE token.end + 1

FollowControl ==
  /\ ~Done
  /\ token.kind \in {"else", "end if", "end while", "break", "continue"}
  /\ pc' = CASE token.kind = "end if" -> pc + 1
             [] token.kind \in {"else", "break"} -> prog[token.up].end + 1
             [] token.kind \in {"end while", "continue"} -> token.up
  /\ UNCHANGED <<vals, deep, acc>>

Start ==
  /\ phase = "renamed"
  /\ phase' = "run"
  /\ UNCHANGED <<builder, ssa, running>>

SourceStep ==
  /\ phase = "run"
  /\ ReadVariable \/ Store \/ FollowControl
  /\ UNCHANGED <<phase, builder, ssa, native, tick>>

-----------------------------------------------------------------------------
(* The native program.                                                     *)
block == fn.blocks[at[1]]
AtCode == at[2] \in DOMAIN block.code
instr == block.code[at[2]]
AtCopies == at[2] = Len(block.code) + 1
AtTerm == at[2] = Len(block.code) + 2
Advance == at' = <<at[1], at[2] + 1>>
Goto(b) == at' = <<b, 1>>

Slot(v) == IF v \in DOMAIN regs THEN regs[v] ELSE Unset
Reads(args) == [i \in DOMAIN args |-> Slot(args[i].value)]
Write(v, x) == regs' = [w \in DOMAIN regs \union {v} |-> IF w = v THEN x ELSE regs[w]]

Silent == \/ AtCode /\ instr.op # "op"
          \/ AtCopies
          \/ AtTerm /\ block.term.kind = "jump"
NativePoint == IF AtCode THEN instr.at ELSE block.term.at
NativeReads == Reads(IF AtCode THEN instr.args ELSE block.term.args)

\* Parameters and constants; phis and aliases leave no code.
Plain ==
  /\ AtCode
  /\ CASE instr.op = "false" -> Write(instr.dst, False)
       [] instr.op = "true" -> Write(instr.dst, True)
       [] instr.op = "param" -> Write(instr.dst, instr.at[1])
       [] OTHER -> UNCHANGED regs
  /\ Advance

\* parallelCopies[b], one copy per phi operand coming from b.
Copies(b) ==
  UNION {{[dst |-> i.dst, src |-> i.args[k].value] : k \in {k \in DOMAIN i.args : i.preds[k] = b}} :
         i \in {i \in UNION {ToSet(fn.blocks[s].code) : s \in Blocks} : i.op = "phi"}}

CopyPhis ==
  /\ AtCopies
  /\ LET copies == Copies(at[1])
         targets == {c.dst : c \in copies}
     IN  regs' = [v \in DOMAIN regs \union targets |->
                    IF v \in targets THEN Slot((CHOOSE c \in copies : c.dst = v).src) ELSE regs[v]]
  /\ Advance

TakeJump ==
  /\ AtTerm
  /\ block.term.kind = "jump"
  /\ Goto(block.term.targets[1])
  /\ UNCHANGED regs

\* The source goes first; the two are independent here.
NativeStep ==
  /\ phase = "run"
  /\ Observable
  /\ Silent
  /\ Plain \/ CopyPhis \/ TakeJump
  /\ UNCHANGED <<phase, builder, ssa, source, tick>>

-----------------------------------------------------------------------------
(* Observations, made by both.                                             *)
Meet == phase = "run" /\ Observable /\ ~Silent
SameKind ==
  /\ AtCode => AtOperation
  /\ AtTerm /\ block.term.kind = "branch" => AtShortCircuit \/ AtCondition
  /\ AtTerm /\ block.term.kind = "return" => AtReturn
Agree == SameKind /\ NativePoint = SourcePoint /\ NativeReads = SourceReads

Operate ==
  /\ Meet
  /\ Agree
  /\ AtCode
  /\ tick' = (tick % Ticks) + 1
  /\ Write(instr.dst, tick')
  /\ acc' = IF expr.kind = "increment" THEN vals[expr.left] ELSE tick'
  /\ vals' = CASE expr.kind = "increment" -> [vals EXCEPT ![expr.left] = tick']
               [] expr.kind = "assignment" -> [vals EXCEPT ![expr.right] = tick']
               [] OTHER -> vals
  /\ Advance
  /\ UNCHANGED <<phase, builder, ssa, pc, deep>>

\* What a short circuit is worth when its left operand decides.
Decided == CASE expr.op = "&&" -> False [] expr.op = "||" -> True [] expr.op = "??" -> vals[expr.left]

\* A false value decides what tests for truth; of any other the model does not
\* know, nor whether a value is null.
Decide(taken) ==
  /\ Meet
  /\ Agree
  /\ AtTerm
  /\ block.term.kind = "branch"
  /\ taken /\ SourceReads = <<False>> => AtShortCircuit /\ expr.op = "??"
  /\ Goto(block.term.targets[IF taken THEN 1 ELSE 2])
  /\ IF AtShortCircuit
     THEN /\ IF taken = (expr.op = "&&")
             THEN deep' = deep + 1 /\ UNCHANGED acc
             ELSE deep' = 0 /\ acc' = Decided
          /\ UNCHANGED pc
     ELSE /\ acc' = Pending
          /\ pc' = IF taken THEN pc + 1 ELSE AfterFalse
          /\ UNCHANGED deep
  /\ UNCHANGED <<phase, builder, ssa, regs, vals, tick>>

ReturnBoth ==
  /\ Meet
  /\ Agree
  /\ AtTerm
  /\ block.term.kind = "return"
  /\ phase' = "returned"
  /\ UNCHANGED <<builder, ssa, running>>

Stopped ==
  /\ phase \in {"returned", "assertion failed", "no reaching definition"}
  /\ UNCHANGED vars

Next ==
  \/ Build /\ UNCHANGED <<ssa, running>>
  \/ BuildSSA /\ UNCHANGED running
  \/ Start
  \/ SourceStep
  \/ NativeStep
  \/ Operate
  \/ \E taken \in BOOLEAN : Decide(taken)
  \/ ReturnBoth
  \/ Stopped

Spec == Init /\ [][Next]_vars

(***************************************************************************)
(* Properties.                                                             *)
(***************************************************************************)
Phases == {"build", "dominators", "phis", "rename", "renamed", "run", "returned",
           "assertion failed", "no reaching definition"}

\* The blocks, the analyses and the two programs keep their shape: every edge leads
\* to a block, every jump of the source to a token or past the last.
TypeOK ==
  /\ phase \in Phases
  /\ fn.curr \in Blocks
  /\ \A b \in Blocks : /\ ToSet(fn.blocks[b].preds) \subseteq Blocks
                       /\ ToSet(fn.blocks[b].succs) \subseteq Blocks
                       /\ fn.blocks[b].defs \subseteq Vars
  /\ phase # "build" => \A b \in Blocks : fn.blocks[b].term # Open
  /\ \A b \in DOMAIN dom : dom[b] \subseteq Blocks
  /\ \A x \in DOMAIN work : work[x] \subseteq Blocks
  /\ \A b \in DOMAIN phiBlocks : phiBlocks[b] \subseteq Vars
  /\ pc \in 1 .. Len(prog) + 1
  /\ deep \in 0 .. 2
  /\ acc \in {Pending, Unset} \union 0 .. Ticks
  /\ tick \in 0 .. Ticks

\* The edges dominance and phis are computed from are those the terminators
\* take: each target is a successor, once, the edge is known at both ends, and
\* the phi of a short circuit has an operand for each block it is entered from.
EdgesMatchTerminators ==
  phase = "dominators" /\ visiting = 0 =>
  \A b \in Blocks :
    /\ fn.blocks[b].succs = fn.blocks[b].term.targets
    /\ \A k \in DOMAIN fn.blocks[b].code :
         fn.blocks[b].code[k].op = "phi" => fn.blocks[b].code[k].preds = fn.blocks[b].preds
    /\ \A c \in Blocks :
         Cardinality({i \in DOMAIN fn.blocks[b].succs : fn.blocks[b].succs[i] = c})
           = Cardinality({i \in DOMAIN fn.blocks[c].preds : fn.blocks[c].preds[i] = b})

\* Blocks some path from the entry reaches without passing d, in at most n steps
\* and then in as many as there are blocks.
ReachedWithout(d) ==
  LET reached[n \in Nat] ==
        IF n = 0 THEN {entry} \ {d}
        ELSE LET before == reached[n - 1]
             IN  before \union ((UNION {ToSet(fn.blocks[c].succs) : c \in before}) \ {d})
  IN  reached[Len(fn.blocks)]

\* Nothing but the paths of the graph decides dominance: d dominates what is
\* only reached through it.
DominatorsAreExact ==
  phase = "phis" /\ work = [x \in Vars |-> DefBlocks(x)] =>
    \A d \in Blocks : {b \in Blocks : d \in dom[b]} = Blocks \ ReachedWithout(d)

\* A variable in scope has a definition on every path to its use, so renaming
\* finds one: neither a use nor a phi operand comes up empty.
UsesAreDefined == phase # "no reaching definition"

\* Every variable read has been replaced by a value, in phis too, where it is the
\* predecessors that are renamed.
NoReferencesLeft ==
  phase = "renamed" =>
    \A b \in Blocks :
      /\ \A i \in DOMAIN fn.blocks[b].term.args : ~IsRef(fn.blocks[b].term.args[i])
      /\ \A k \in DOMAIN fn.blocks[b].code :
           \A i \in DOMAIN fn.blocks[b].code[k].args : ~IsRef(fn.blocks[b].code[k].args[i])

\* In the renamed function each operand is a value whose definition dominates the
\* use, that of a phi operand the end of the predecessor it comes from.
DefinedIn(v) == {b \in Blocks : \E k \in DOMAIN fn.blocks[b].code :
                   fn.blocks[b].code[k].op # "bind" /\ fn.blocks[b].code[k].dst = v}
DefinitionsDominateUses ==
  phase = "renamed" =>
    NoReferencesLeft /\ \A b \in Blocks :
      /\ \A i \in DOMAIN fn.blocks[b].term.args :
           DefinedIn(fn.blocks[b].term.args[i].value) \intersect dom[b] # {}
      /\ \A k \in DOMAIN fn.blocks[b].code : \A i \in DOMAIN fn.blocks[b].code[k].args :
           LET c == fn.blocks[b].code[k]
               user == IF c.op = "phi" THEN c.preds[i] ELSE b
           IN  DefinedIn(c.args[i].value) \intersect dom[user] # {}

\* Of the phis only those of insertPhis have no position.
Merges(b, x) ==
  \E k \in DOMAIN fn.blocks[b].code :
    LET i == fn.blocks[b].code[k]
    IN  i.op = "phi" /\ i.sym = x /\ i.at = << >>

\* Where a variable that has a definition above is given another on the way, it has
\* a phi: what a block without one finds above any of its predecessors, it has above
\* itself.
PhisWhereDefinitionsMeet ==
  phase = "rename" =>
    \A b \in Blocks, x \in Vars :
      LET above == dom[b] \ {b}
      IN  above \intersect DefBlocks(x) # {} /\ ~Merges(b, x) =>
            \A p \in Preds(b) : \A d \in dom[p] :
              x \in fn.blocks[d].defs \union phiBlocks[d] => d \in above

\* What is on top of the stack of a variable is what it was last given in the nearest
\* block that defines it, among those that dominate the block renamed; and there is
\* nothing where none does.
Given(i) == IF i.op = "bind" THEN i.args[1].value ELSE i.dst
Gives(b, x) == {k \in DOMAIN fn.blocks[b].code : fn.blocks[b].code[k].sym = x}
TopIsNearest ==
  phase = "rename" =>
    LET above == IF Call.entered THEN dom[Call.block] ELSE dom[Call.block] \ {Call.block}
        definers(x) == {d \in above : Gives(d, x) # {}}
    IN  \A x \in Vars :
          /\ varStack[x] = << >> <=> definers(x) = {}
          /\ \A d \in definers(x) : definers(x) \subseteq dom[d] =>
               \A k \in Gives(d, x) : (\A j \in Gives(d, x) : j <= k) =>
                 Last(varStack[x]) = Given(fn.blocks[d].code[k])

\* Compiled and source program agree: where they meet, they are at the same
\* operation, branch or return of the source and read the same value.
RunsAgree == Meet => Agree

\* RunsAgree for functions that use the value of x++: the comment on its
\* lowering, "x++: mutate x, but the expression yields its old value."
IncrementYieldsOldValue == RunsAgree

\* computeDoms asserts that every block but the entry has a predecessor.
EveryBlockHasPredecessor == phase # "assertion failed"
=============================================================================
