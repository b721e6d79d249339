-------------------------------- MODULE HIR --------------------------------
(***************************************************************************)
(* The block form of a function between IRBuilder and SSABuilder           *)
(* (CodegenIR/BasicBlock.hpp, IRInstr.hpp): blocks of instructions with a  *)
(* terminator and lists of predecessors and successors.  An operand is a   *)
(* numbered value or, until renaming, a reference to a source variable.    *)
(*                                                                         *)
(* Instructions are kept by what they do to variables and values: `op' is  *)
(* any instruction with a fresh result, `param' a parameter, `false' and   *)
(* `true' the constants of a short circuit, `bind' an alias and `phi' a    *)
(* merge, one operand per entry of `preds'.  `at' ties what the source     *)
(* program can observe to its statement: a pair <<token, stage>>.          *)
(***************************************************************************)
EXTENDS Integers, FiniteSets, Sequences, SequencesExt

None == "none"
Ref(x) == [ref |-> x]
Value(v) == [value |-> v]
IsRef(o) == "ref" \in DOMAIN o

Instr(op, dst, args, preds, sym, at) ==
  [op |-> op, dst |-> dst, args |-> args, preds |-> preds, sym |-> sym, at |-> at]

Open == [kind |-> "open", args |-> << >>, targets |-> << >>, at |-> << >>]
Jump(b) == [Open EXCEPT !.kind = "jump", !.targets = <<b>>]
Branch(o, t, f, at) == [kind |-> "branch", args |-> <<o>>, targets |-> <<t, f>>, at |-> at]
Return(args, at) == [kind |-> "return", args |-> args, targets |-> << >>, at |-> at]

EmptyBlock == [code |-> << >>, term |-> Open, preds |-> << >>, succs |-> << >>, defs |-> {}]

\* A function under construction: its blocks, the block being filled, and the
\* number of values made so far.  Block 1 is the entry.
NewFunction == [blocks |-> <<EmptyBlock>>, curr |-> 1, nextId |-> 0]

hasTerminator(f) == f.blocks[f.curr].term # Open
makeBlocks(f, n) == [f EXCEPT !.blocks = @ \o [i \in 1 .. n |-> EmptyBlock]]
At(f, b) == [f EXCEPT !.curr = b]
makeValue(f) == [f EXCEPT !.nextId = @ + 1]
emit(f, instr) == [f EXCEPT !.blocks[f.curr].code = Append(@, instr)]
connectBlock(f, from, to) ==
  [f EXCEPT !.blocks[from].succs = Append(@, to), !.blocks[to].preds = Append(@, from)]
SetTerm(f, term) == [f EXCEPT !.blocks[f.curr].term = term]
JumpTo(f, b) == connectBlock(SetTerm(f, Jump(b)), f.curr, b)
BranchTo(f, o, t, e, at) ==
  connectBlock(connectBlock(SetTerm(f, Branch(o, t, e, at)), f.curr, t), f.curr, e)
=============================================================================
