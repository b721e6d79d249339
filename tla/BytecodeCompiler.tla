--------------------------- MODULE BytecodeCompiler ---------------------------
(***************************************************************************)
(* The compiler of the bytecode backend (Compiler/compiler.cpp): every     *)
(* function becomes a prototype, a chunk of instructions with its          *)
(* constants.  Prototypes and positions count from zero, as operands do.   *)
(***************************************************************************)
EXTENDS ClosureAnalyser

IntOf(i) == <<"int", i>>
BoolOf(b) == <<"bool", IF b THEN 1 ELSE 0>>
NullValue == <<"null", 0>>
ConstValue(token) ==
  CASE token = "null" -> NullValue [] token \in {"true", "false"} -> BoolOf(token = "true") [] OTHER -> IntOf(IntValue[token])

NO_OPERAND == -1
BinaryOpcode ==
  ("+" :> "ADD") @@ ("-" :> "SUB") @@ ("*" :> "MUL") @@ ("/" :> "DIV") @@ ("%" :> "MOD") @@
  ("==" :> "EQUAL") @@ ("!=" :> "NOT_EQUAL") @@ ("<" :> "LESS") @@ ("<=" :> "LESS_EQUAL") @@
  (">" :> "GREATER") @@ (">=" :> "GREATER_EQUAL") @@ ("&&" :> "LOGICAL_AND") @@ ("||" :> "LOGICAL_OR") @@
  ("<<" :> "LEFT_SHIFT") @@ (">>" :> "RIGHT_SHIFT") @@ ("&" :> "BIT_AND") @@ ("|" :> "BIT_OR") @@ ("^" :> "BIT_XOR")
UnaryOpcode == ("-" :> "NEG") @@ ("!" :> "LOGICAL_NOT") @@ ("~" :> "BIT_NOT")
CompoundToBinaryOp ==
  ("+=" :> "+") @@ ("-=" :> "-") @@ ("*=" :> "*") @@ ("/=" :> "/") @@ ("%=" :> "%") @@ ("&=" :> "&") @@ ("|=" :> "|") @@
  ("^=" :> "^") @@ ("<<=" :> "<<") @@ (">>=" :> ">>") @@ ("&&=" :> "&&") @@ ("||=" :> "||")

(***************************************************************************)
(* The chunk being written is the last one                                 *)
(***************************************************************************)
EmptyChunk == [code |-> << >>, constants |-> << >>]
Code(c) == Last(c.chunks).code
Position(c) == Len(Code(c))
Emit(opcode, operand, c) == [c EXCEPT !.chunks[Len(c.chunks)].code = Append(@, <<opcode, operand>>)]
AddConstant(value, c) ==
  IF value \in ToSet(Last(c.chunks).constants) THEN c
  ELSE [c EXCEPT !.chunks[Len(c.chunks)].constants = Append(@, value)]
EmitConstant(value, c) ==
  LET added == AddConstant(value, c)
      index == CHOOSE k \in DOMAIN Last(added.chunks).constants : Last(added.chunks).constants[k] = value
  IN Emit("PUSH_CONST", index - 1, added)
\* The jump at a position comes to where the chunk ends now.
PatchJump(position, c) == [c EXCEPT !.chunks[Len(c.chunks)].code[position + 1][2] = Position(c)]
EmitAccess(access, resolution, c) ==
  Emit(access \o (IF resolution[1] = "local" THEN "_LOCAL" ELSE "_UPVALUE"), resolution[2], c)

RECURSIVE Compiled(_, _)
CompiledEach(ns, c) == Each(LAMBDA n, d : Compiled(n, d), ns, c)
EmitAfter(ns, opcode, operand, c) == Emit(opcode, operand, CompiledEach(ns, c))
EmitTable(table, op, c) ==
  IF op \in DOMAIN table THEN Emit(table[op], NO_OPERAND, c) ELSE Fail(c, "no opcode")

(***************************************************************************)
(* Expressions                                                             *)
(***************************************************************************)
\* Unset for a method.
FieldIdx(get, c) ==
  LET members == c.aggregates[TypeAt(c, get.kids[1])[2]].fields
  IN IF Member(get) \in DOMAIN members THEN c.symbols[members[Member(get)]].fieldOffset ELSE NO_OPERAND
HandleAssignment(n, c) ==
  LET op == n.kids[2].kind
  IN IF op = "=" THEN Compiled(n.kids[3], c)
     ELSE EmitTable(BinaryOpcode, CompoundToBinaryOp[op], CompiledEach(<<n.kids[1], n.kids[3]>>, c))
CompiledAssignment(n, c) ==
  LET left == n.kids[1]
      value == HandleAssignment(n, c)
  IN CASE IsVariable(left) ->
            EmitAccess("STORE", c.resolution[left.id],
                       Demand(n.kind = "initialise" \/ c.symbols[c.symbolOf[left.id]].mutable, value, "constant variable"))
       [] left.kind = "index" -> EmitAfter(left.kids, "SET_INDEX", NO_OPERAND, value)
       [] left.kind = "get" -> EmitAfter(<<left.kids[1]>>, "SET_PROPERTY", FieldIdx(left, c), value)
       [] OTHER -> Fail(c, "assignment target")

\* A method is made into a closure where it is called, with the prototype it has by then.
CompiledCall(n, c) ==
  LET callee == IF n.id \in c.lowered
                THEN Emit("MAKE_CLOSURE", c.symbols[c.methodOf[n.kids[1].id]].funcProtoIdx, c)
                ELSE Compiled(n.kids[1], c)
      arguments == LoweredArguments(n, c)
  IN EmitAfter(Reverse(arguments), "CALL", Len(arguments), callee)

\* The record, its field initialisers, then the first constructor with as many parameters.
CompiledNew(n, c) ==
  LET aggregate == c.aggregates[TypeAt(c, n)[2]]
      fitting == {k \in DOMAIN aggregate.constructors :
                    Len(c.symbols[aggregate.constructors[k]].type[2]) = Len(Arguments(n)) + 1}
      constructor == c.symbols[aggregate.constructors[CHOOSE k \in fitting : \A l \in fitting : k <= l]]
      Instructions ==
        << <<"MAKE_CLOSURE", constructor.funcProtoIdx>>, <<"PUSH_UNINITIALISED", aggregate.size>>,
           <<"MAKE_RECORD", aggregate.size>>, <<"DUPLICATE", NO_OPERAND>>, <<"MAKE_CLOSURE", aggregate.fieldInit>>,
           <<"SWAP", NO_OPERAND>>, <<"CALL", 1>>, <<"POP", NO_OPERAND>> >>
  IN IF fitting = {} THEN Fail(c, "no constructor")
     ELSE EmitAfter(Arguments(n), "CALL", Len(Arguments(n)) + 1,
                    Each(LAMBDA i, d : Emit(i[1], i[2], d), Instructions, c))

(***************************************************************************)
(* Functions and classes                                                   *)
(***************************************************************************)
\* The flag says that a method is compiled, which is made into a closure by its calls.
Hoisted(declaration, isCompilingMethod, c) ==
  LET function == Compiled(declaration[2], c)
      closure == IF isCompilingMethod THEN function ELSE Emit("MAKE_CLOSURE", function.protoOf[declaration[2].id], function)
  IN Emit("POP", NO_OPERAND, Emit("STORE_LOCAL", c.symbols[declaration[1]].slot, closure))
CompiledFunction(n, c) ==
  LET context == c.contexts[c.contextOf[n.id]]
      entered == [c EXCEPT !.chunks = Append(@, EmptyChunk), !.method = FALSE]
      hoisted == Each(LAMBDA declaration, d : Hoisted(declaration, c.method, d), context.funcDecls, entered)
      body == [Compiled(Body(n), hoisted) EXCEPT !.method = c.method]
      ended == CASE c.chunks = << >> -> Emit("HALT", NO_OPERAND, body)
                 [] c.chunks # << >> /\ body.constructor ->
                      Emit("RETURN_VALUE", NO_OPERAND, Emit("LOAD_LOCAL", 0, body))
                 [] OTHER -> Emit("RETURN_VOID", NO_OPERAND, body)
      proto == [chunk |-> Last(ended.chunks), params |-> Len(Params(n)), frameSize |-> Len(context.locals),
                upvalues |-> [k \in DOMAIN context.upvalues |->
                                [isLocal |-> context.upvalues[k].isLocal, index |-> context.upvalues[k].index,
                                 symbol |-> context.upvalues[k].symbol]]]
      registered == [ended EXCEPT !.chunks = Front(@), !.protos = Append(@, proto), !.protoOf[n.id] = Len(ended.protos)]
  IN IF c.chunks = << >> \/ c.method THEN registered ELSE Emit("MAKE_CLOSURE", registered.protoOf[n.id], registered)

CompiledMember(member, function, c) ==
  LET visited == Compiled(function, c)
  IN [visited EXCEPT !.symbols[c.symbolOf[member.id]].funcProtoIdx = visited.protoOf[function.id]]
CompiledClass(n, c) ==
  LET aggregate == c.typeSymbols[c.symbolOf[n.kids[1].id]].type[2]
      methods == Each(LAMBDA m, d : CompiledMember(m, m.kids[2], d), Methods(n), [c EXCEPT !.method = TRUE])
      fieldInit == Compiled(n.kids[5], methods)
      constructors ==
        Each(LAMBDA k, d : CompiledMember(k, k.kids[1], d), Constructors(n),
             [fieldInit EXCEPT !.aggregates[aggregate].fieldInit = fieldInit.protoOf[n.kids[5].id], !.constructor = TRUE])
  IN [constructors EXCEPT !.method = FALSE, !.constructor = FALSE]

(***************************************************************************)
(* Statements                                                              *)
(***************************************************************************)
CompiledIf(n, c) ==
  LET condition == EmitAfter(<<n.kids[1]>>, "JUMP_IF_FALSE", NO_OPERAND, c)
      then == EmitAfter(<<n.kids[2]>>, "JUMP", NO_OPERAND, condition)
      else == CompiledEach(Present(<<n.kids[3]>>), PatchJump(Position(condition) - 1, then))
  IN PatchJump(Position(then) - 1, else)
CompiledWhile(n, c) ==
  LET condition == EmitAfter(<<n.kids[1]>>, "JUMP_IF_FALSE", NO_OPERAND, c)
      entered == [condition EXCEPT !.loops = Append(@, [continuePos |-> Position(c), breaks |-> << >>])]
      body == EmitAfter(<<n.kids[2]>>, "JUMP", Position(c), entered)
      left == [body EXCEPT !.loops = Front(@)]
  IN IF Failed(body) THEN body
     ELSE PatchJump(Position(condition) - 1, Each(PatchJump, Last(body.loops).breaks, left))
CompiledBreakToTest(c) ==
  IF c.loops = << >> THEN Fail(c, "outside a loop") ELSE Emit("JUMP", Last(c.loops).continuePos, c)
CompiledBreak(c) ==
  IF c.loops = << >> THEN Fail(c, "outside a loop")
  ELSE Emit("JUMP", NO_OPERAND, [c EXCEPT !.loops[Len(c.loops)].breaks = Append(@, Position(c))])
CompiledContinue(c) ==
  IF c.loops = << >> THEN Fail(c, "outside a loop") ELSE Emit("JUMP", Last(c.loops).continuePos, c)
CompiledLetUnpopped(n, c) ==
  IF Initialiser(n) = << >> THEN c ELSE EmitAfter(Initialiser(n), "STORE_LOCAL", c.symbols[c.symbolOf[n.id]].slot, c)
CompiledLet(n, c) ==
  IF Initialiser(n) = << >> THEN c
  ELSE Emit("POP", NO_OPERAND, EmitAfter(Initialiser(n), "STORE_LOCAL", c.symbols[c.symbolOf[n.id]].slot, c))

Compiled(n, c) ==
  CASE Failed(c) -> c
    [] n.kind \in Constants -> EmitConstant(ConstValue(n.kind), c)
    [] IsVariable(n) \/ n.kind = "this" -> EmitAccess("LOAD", c.resolution[n.id], c)
    [] n.kind = "array" -> EmitAfter(Reverse(Children(n)), "NEW_ARRAY", Len(Children(n)), c)
    [] n.kind = "binary" -> EmitTable(BinaryOpcode, n.kids[2].kind, CompiledEach(Children(n), c))
    [] n.kind = "unary" -> EmitTable(UnaryOpcode, n.kids[1].kind, CompiledEach(Children(n), c))
    [] n.kind \in {"assign", "initialise"} -> CompiledAssignment(n, c)
    [] n.kind = "index" -> EmitAfter(n.kids, "GET_INDEX", NO_OPERAND, c)
    [] n.kind = "call" -> CompiledCall(n, c)
    [] n.kind = "get" -> EmitAfter(Children(n), "GET_PROPERTY", FieldIdx(n, c), c)
    [] n.kind = "new" -> CompiledNew(n, c)
    [] n.kind = "function" -> CompiledFunction(n, c)
    [] n.kind = "print" -> EmitAfter(n.kids, "PRINT", NO_OPERAND, c)
    [] n.kind = "if" -> CompiledIf(n, c)
    [] n.kind = "while" -> CompiledWhile(n, c)
    [] n.kind = "break" -> CompiledBreak(c)
    [] n.kind = "continue" -> CompiledContinue(c)
    [] n.kind \in {"let", "var"} -> CompiledLet(n, c)
    [] n.kind = "declare" -> c
    [] n.kind = "return" ->
         EmitAfter(Children(n), IF Children(n) = << >> THEN "RETURN_VOID" ELSE "RETURN_VALUE", NO_OPERAND, c)
    [] n.kind = "class" -> CompiledClass(n, c)
    [] n.kind = "expression" -> EmitAfter(Children(n), "POP", NO_OPERAND, c)
    [] OTHER -> CompiledEach(Children(n), c)

Compile(program, c) == Compiled(program, c)
=============================================================================
