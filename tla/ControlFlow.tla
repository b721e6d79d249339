---------------------------- MODULE ControlFlow ----------------------------
(***************************************************************************)
(* IRBuilder's lowering of statements to basic blocks                      *)
(* (CodegenIR/IRBuilder.cpp): let and assignment, if, while, block, break, *)
(* continue, return, and the short circuits of &&, || and ??.              *)
(*                                                                         *)
(* The parser's tree arrives one statement at a time, the constructs still *)
(* open being the active visit() calls.  The source is recorded in `prog'  *)
(* with the matching tokens of each construct linked, so that it can be    *)
(* interpreted next to the blocks made from it (NativeRun).                *)
(*                                                                         *)
(* Expressions are those that tell evaluation apart: a variable, a value   *)
(* computed from one, a short circuit and one whose right operand is       *)
(* another, x++, and an assignment inside a larger statement.  Captured    *)
(* variables, globals and calls are left out; every variable here is an    *)
(* SSA local.                                                              *)
(***************************************************************************)
EXTENDS HIR

CONSTANTS
  Vars,      \* the variables of a program
  Dialects   \* kinds of program: parameters and locals, the kinds of statement, the
             \* forms of expression in each, the operators of short circuits, and
             \* bounds on length and nesting

Kinds == {"let", "assign", "expression", "if", "else", "while", "break", "continue", "return", "dead"}
ExprKinds == {"constant", "variable", "operation", "short", "nested", "increment", "assignment"}
ShortCircuitOps == {"&&", "||", "??"}
ASSUME ControlFlowAssumption ==
  /\ IsFiniteSet(Vars)
  /\ None \notin Vars
  /\ Dialects \subseteq [params : Seq(Vars),
                         locals : SUBSET Vars,
                         statements : SUBSET Kinds,
                         forms : [Kinds -> SUBSET ExprKinds],
                         ops : SUBSET ShortCircuitOps,
                         tokens : Nat,
                         depth : Nat]

VARIABLES
  dialect,
  phase,   \* the pass the function is in, or how compilation ended
  fn,      \* the function being built
  open,    \* active visit(If&) and visit(While&) calls, innermost last
  prog     \* the source read so far

builder == <<dialect, fn, open, prog>>

\* The parameters are the first instructions and definitions of the entry.
WithParams(params) ==
  [NewFunction EXCEPT
     !.nextId = Len(params),
     !.blocks[1].code = [i \in DOMAIN params |-> Instr("param", i - 1, << >>, << >>, params[i], <<i>>)],
     !.blocks[1].defs = ToSet(params)]

BuilderInit ==
  /\ dialect \in Dialects
  /\ phase = "build"
  /\ fn = WithParams(dialect.params)
  /\ open = << >>
  /\ prog = << >>

Here == Len(prog) + 1
Declared == ToSet(dialect.params) \union UNION {prog[i].declares : i \in {i \in DOMAIN prog : prog[i].visible}}

Variable == [kind : {"variable"}, left : Declared]
Short == [kind : {"short"}, op : dialect.ops, left : Declared, right : Variable]
Nested == [kind : {"nested"}, op : dialect.ops, left : Declared, right : Short]
OfForm(form) ==
  CASE form = "constant" -> [kind : {form}]
    [] form \in {"variable", "operation", "increment"} -> [kind : {form}, left : Declared]
    [] form = "assignment" -> [kind : {form}, left : Declared, right : Declared]
    [] form = "short" -> Short
    [] form = "nested" -> Nested
Exprs(kind) == UNION {OfForm(form) : form \in dialect.forms[kind]}

\* A token: `end' and `alt' link an opening token to its else and its end,
\* `up' links break, continue, else and end to their opening token; `visible'
\* says whether what the token declares is still in scope.
Token(kind) == [kind |-> kind, x |-> None, e |-> << >>, end |-> 0, alt |-> 0, up |-> 0,
                declares |-> {}, visible |-> TRUE]
EndScope(tokens, from) ==
  [i \in DOMAIN tokens |-> IF i > from THEN [tokens[i] EXCEPT !.visible = FALSE] ELSE tokens[i]]

-----------------------------------------------------------------------------
(* Expressions: lower(f, e) is the function after evaluating e and the     *)
(* value it left in lastValue.                                             *)
Evaluated(f, o) == [f |-> f, last |-> o]

\* The side that is decided: a constant, or for ?? the left operand.
visitDecided(f, op, left, at) ==
  IF op = "??"
  THEN Evaluated(f, left)
  ELSE Evaluated(emit(makeValue(f), Instr(IF op = "&&" THEN "false" ELSE "true",
                                          f.nextId, << >>, << >>, None, at)),
                 Value(f.nextId))

\* Up to the right operand: the true block of && is left to it, the others
\* finish theirs and leave it the false block.
beginShortCircuit(f, op, left, at) ==
  LET trueBlock == Len(f.blocks) + 1
      branched == At(BranchTo(makeBlocks(f, 3), left, trueBlock, trueBlock + 1, at), trueBlock)
      decided == visitDecided(branched, op, left, at)
  IN  IF op = "&&"
      THEN [f |-> branched, trueBlock |-> trueBlock, decided |-> left]
      ELSE [f |-> At(JumpTo(decided.f, trueBlock + 2), trueBlock + 1),
            trueBlock |-> trueBlock, decided |-> decided.last]

\* From there, the right operand having ended in whatever block is current.
endShortCircuit(short, right, op, at) ==
  LET falseBlock == short.trueBlock + 1
      mergeBlock == short.trueBlock + 2
      joined == JumpTo(right.f, mergeBlock)
      false == visitDecided(At(joined, falseBlock), op, short.decided, at)
      merged == At(IF op = "&&" THEN JumpTo(false.f, mergeBlock) ELSE joined, mergeBlock)
      phi == IF op = "&&"
             THEN Instr("phi", merged.nextId, <<right.last, false.last>>,
                        <<right.f.curr, falseBlock>>, None, at)
             ELSE Instr("phi", merged.nextId, <<short.decided, right.last>>,
                        <<short.trueBlock, right.f.curr>>, None, at)
  IN  Evaluated(emit(makeValue(merged), phi), Value(merged.nextId))

visitShort(f, e, at) ==
  LET short == beginShortCircuit(f, e.op, Ref(e.left), at)
  IN  endShortCircuit(short, Evaluated(short.f, Ref(e.right.left)), e.op, at)

visitNested(f, e, at) ==
  LET short == beginShortCircuit(f, e.op, Ref(e.left), at)
  IN  endShortCircuit(short, visitShort(short.f, e.right, <<at[1], 3>>), e.op, at)

\* Let and assignment: an alias is a BIND, any other value is attached to the
\* instruction that produced it.
bindLocalDefinition(f, x, value) ==
  LET f1 == [f EXCEPT !.blocks[f.curr].defs = @ \union {x}]
  IN  IF IsRef(value)
      THEN emit(f1, Instr("bind", 0, <<value>>, << >>, x, << >>))
      ELSE [f1 EXCEPT !.blocks[f.curr].code[Len(f.blocks[f.curr].code)].sym = x]

\* A literal, or an operator applied to a variable.
visitOperation(f, args, at) ==
  Evaluated(emit(makeValue(f), Instr("op", f.nextId, args, << >>, None, at)), Value(f.nextId))

\* x++ leaves the reference it read x by as its value.
visitPostIncrement(f, e, at) ==
  LET v == visitOperation(f, <<Ref(e.left)>>, at)
  IN  Evaluated(bindLocalDefinition(v.f, e.left, v.last), Ref(e.left))

\* (right = left op 1): an assignment is worth what it assigned.
visitAssignment(f, e, at) ==
  LET v == visitOperation(f, <<Ref(e.left)>>, at)
  IN  Evaluated(bindLocalDefinition(v.f, e.right, v.last), v.last)

lower(f, e, t) ==
  CASE e.kind = "constant" -> visitOperation(f, << >>, <<t, 1>>)
    [] e.kind = "variable" -> Evaluated(f, Ref(e.left))
    [] e.kind = "operation" -> visitOperation(f, <<Ref(e.left)>>, <<t, 1>>)
    [] e.kind = "short" -> visitShort(f, e, <<t, 1>>)
    [] e.kind = "nested" -> visitNested(f, e, <<t, 1>>)
    [] e.kind = "increment" -> visitPostIncrement(f, e, <<t, 1>>)
    [] e.kind = "assignment" -> visitAssignment(f, e, <<t, 1>>)

-----------------------------------------------------------------------------
(* Statements.                                                             *)
Reading(kind) == /\ phase = "build"
                 /\ kind \in dialect.statements
                 /\ Len(prog) < dialect.tokens
Reachable == ~hasTerminator(fn)

\* visit(Block&) stops at the first statement after a terminator.
SkipDeadStatement ==
  /\ Reading("dead")
  /\ ~Reachable
  /\ prog' = Append(prog, Token("dead"))
  /\ UNCHANGED <<dialect, phase, fn, open>>

\* Every declaration has a VarSymbol of its own.
Unused == dialect.locals \ UNION {prog[i].declares : i \in DOMAIN prog}

Let(e) ==
  /\ Reading("let")
  /\ Reachable
  /\ Unused # {}
  /\ LET x == CHOOSE x \in Unused : TRUE
         v == lower(fn, e, Here)
     IN  /\ fn' = bindLocalDefinition(v.f, x, v.last)
         /\ prog' = Append(prog, [Token("assign") EXCEPT !.x = x, !.e = e, !.declares = {x}])
  /\ UNCHANGED <<dialect, phase, open>>

Assign(x, e) ==
  /\ Reading("assign")
  /\ Reachable
  /\ x \in Declared
  /\ LET v == lower(fn, e, Here)
     IN  fn' = bindLocalDefinition(v.f, x, v.last)
  /\ prog' = Append(prog, [Token("assign") EXCEPT !.x = x, !.e = e])
  /\ UNCHANGED <<dialect, phase, open>>

\* An expression statement drops the value.
Expression(e) ==
  /\ Reading("expression")
  /\ Reachable
  /\ fn' = lower(fn, e, Here).f
  /\ prog' = Append(prog, [Token("expression") EXCEPT !.e = e])
  /\ UNCHANGED <<dialect, phase, open>>

\* The then, merge and else blocks are made before the condition is lowered.
BeginIf(e, hasElse) ==
  /\ Reading("if")
  /\ Reachable
  /\ Len(open) < dialect.depth
  /\ hasElse => "else" \in dialect.statements
  /\ LET thenBB == Len(fn.blocks) + 1
         mergeBB == thenBB + 1
         elseBB == IF hasElse THEN mergeBB + 1 ELSE mergeBB
         v == lower(makeBlocks(fn, IF hasElse THEN 3 ELSE 2), e, Here)
     IN  /\ fn' = At(BranchTo(v.f, v.last, thenBB, elseBB, <<Here, 2>>), thenBB)
         /\ open' = Append(open, [kind |-> IF hasElse THEN "then" ELSE "last", token |-> Here,
                                  next |-> elseBB, merge |-> mergeBB, cond |-> 0])
  /\ prog' = Append(prog, [Token("if") EXCEPT !.e = e])
  /\ UNCHANGED <<dialect, phase>>

Innermost == Last(open)
FellThrough(f, b) == IF hasTerminator(f) THEN f ELSE JumpTo(f, b)

BeginElse ==
  /\ phase = "build"
  /\ open # << >>
  /\ Innermost.kind = "then"
  /\ fn' = At(FellThrough(fn, Innermost.merge), Innermost.next)
  /\ open' = Append(Front(open), [Innermost EXCEPT !.kind = "last"])
  /\ prog' = Append([EndScope(prog, Innermost.token) EXCEPT ![Innermost.token].alt = Here],
                    [Token("else") EXCEPT !.up = Innermost.token])
  /\ UNCHANGED <<dialect, phase>>

EndIf ==
  /\ phase = "build"
  /\ open # << >>
  /\ Innermost.kind = "last"
  /\ fn' = At(FellThrough(fn, Innermost.merge), Innermost.merge)
  /\ open' = Front(open)
  /\ prog' = Append([EndScope(prog, Innermost.token) EXCEPT ![Innermost.token].end = Here],
                    [Token("end if") EXCEPT !.up = Innermost.token])
  /\ UNCHANGED <<dialect, phase>>

\* The branch is put on condBB although the condition ended in another block.
BeginWhileFromCond(e) ==
  /\ Reading("while")
  /\ Reachable
  /\ Len(open) < dialect.depth
  /\ LET condBB == Len(fn.blocks) + 1
         bodyBB == condBB + 1
         exitBB == bodyBB + 1
         v == lower(At(JumpTo(makeBlocks(fn, 3), condBB), condBB), e, Here)
     IN  /\ fn' = At(BranchTo(At(v.f, condBB), v.last, bodyBB, exitBB, <<Here, 2>>), bodyBB)
         /\ open' = Append(open, [kind |-> "while", token |-> Here,
                                  next |-> exitBB, merge |-> exitBB, cond |-> condBB])
  /\ prog' = Append(prog, [Token("while") EXCEPT !.e = e])
  /\ UNCHANGED <<dialect, phase>>

\* The condition may end in another block than condBB: a short circuit's merge.
BeginWhile(e) ==
  /\ Reading("while")
  /\ Reachable
  /\ Len(open) < dialect.depth
  /\ LET condBB == Len(fn.blocks) + 1
         bodyBB == condBB + 1
         exitBB == bodyBB + 1
         v == lower(At(JumpTo(makeBlocks(fn, 3), condBB), condBB), e, Here)
     IN  /\ fn' = At(BranchTo(v.f, v.last, bodyBB, exitBB, <<Here, 2>>), bodyBB)
         /\ open' = Append(open, [kind |-> "while", token |-> Here,
                                  next |-> exitBB, merge |-> exitBB, cond |-> condBB])
  /\ prog' = Append(prog, [Token("while") EXCEPT !.e = e])
  /\ UNCHANGED <<dialect, phase>>

EndWhile ==
  /\ phase = "build"
  /\ open # << >>
  /\ Innermost.kind = "while"
  /\ fn' = At(FellThrough(fn, Innermost.cond), Innermost.merge)
  /\ open' = Front(open)
  /\ prog' = Append([EndScope(prog, Innermost.token) EXCEPT ![Innermost.token].end = Here],
                    [Token("end while") EXCEPT !.up = Innermost.token])
  /\ UNCHANGED <<dialect, phase>>

\* The innermost loop is the back of loopStack.
loopStack == {i \in DOMAIN open : open[i].kind = "while"}
innermostLoop == open[CHOOSE i \in loopStack : \A j \in loopStack : j <= i]

Break ==
  /\ Reading("break")
  /\ Reachable
  /\ loopStack # {}
  /\ fn' = JumpTo(fn, innermostLoop.merge)
  /\ prog' = Append(prog, [Token("break") EXCEPT !.up = innermostLoop.token])
  /\ UNCHANGED <<dialect, phase, open>>

Continue ==
  /\ Reading("continue")
  /\ Reachable
  /\ loopStack # {}
  /\ fn' = JumpTo(fn, innermostLoop.cond)
  /\ prog' = Append(prog, [Token("continue") EXCEPT !.up = innermostLoop.token])
  /\ UNCHANGED <<dialect, phase, open>>

ReturnValue(e) ==
  /\ Reading("return")
  /\ Reachable
  /\ LET v == lower(fn, e, Here)
     IN  fn' = SetTerm(v.f, Return(<<v.last>>, <<Here, 2>>))
  /\ prog' = Append(prog, [Token("return") EXCEPT !.e = e])
  /\ UNCHANGED <<dialect, phase, open>>

FinishWithoutReturn ==
  /\ phase = "build"
  /\ open = << >>
  /\ phase' = "dominators"
  /\ UNCHANGED <<dialect, fn, open, prog>>

\* The end of the body returns implicitly.
FinishFunction ==
  /\ phase = "build"
  /\ open = << >>
  /\ fn' = IF hasTerminator(fn) THEN fn ELSE SetTerm(fn, Return(<< >>, <<Here, 2>>))
  /\ phase' = "dominators"
  /\ UNCHANGED <<dialect, open, prog>>

Build ==
  /\ phase = "build"
  /\ \/ SkipDeadStatement
     \/ \E e \in Exprs("let") : Let(e)
     \/ \E x \in Vars : \E e \in Exprs("assign") : Assign(x, e)
     \/ \E e \in Exprs("expression") : Expression(e)
     \/ \E e \in Exprs("if"), hasElse \in BOOLEAN : BeginIf(e, hasElse)
     \/ BeginElse
     \/ EndIf
     \/ \E e \in Exprs("while") : BeginWhile(e)
     \/ EndWhile
     \/ Break
     \/ Continue
     \/ \E e \in Exprs("return") : ReturnValue(e)
     \/ FinishFunction
=============================================================================
