------------------------------ MODULE BytecodeVM ------------------------------
(***************************************************************************)
(* The virtual machine of the bytecode backend (BytecodeVM/vm.cpp) and the *)
(* operations on its values (Core/value.cpp), one action per group of      *)
(* opcodes.  VMClosures studies its closures over every program; here it   *)
(* runs what the compiler emits.                                           *)
(*                                                                         *)
(* A value is its kind with its number or the place of its object in the   *)
(* heap.  Slots, positions and prototypes count from zero as in the code.  *)
(* Doubles are whole: they only come from arithmetic on booleans.          *)
(***************************************************************************)
EXTENDS Integers, Sequences, SequencesExt, TLC
LOCAL INSTANCE Bitwise

VARIABLES
  functionProtos,   \* the prototypes, the file's own last
  stack,            \* the values, locals and temporaries
  frames,           \* the calls: prototype, base, ip and the closure that runs
  upvalues,         \* every captured variable: its slot, or its value once closed
  openUpvalues,     \* those that still live on the stack
  heap,             \* closures, arrays and records
  output,           \* what was printed
  status            \* "running", "halted", "error" (it threw) or "undefined" behaviour

machine == <<functionProtos, stack, frames, upvalues, openUpvalues, heap, output, status>>
WordSize == 32

Garbage == <<"garbage", 0>>
Bool(b) == <<"bool", IF b THEN 1 ELSE 0>>
Resized(values, size) == [k \in 1..size |-> IF k <= Len(values) THEN values[k] ELSE Garbage]

(***************************************************************************)
(* Values                                                                  *)
(***************************************************************************)
IsObject(v) == v[1] \in {"function", "array"}
IsNumber(v) == v[1] \in {"int", "double", "bool"}
IsTruthy(v) == IsObject(v) \/ (IsNumber(v) /\ v[2] # 0)
\* Objects are compared by reference, records and garbage equal nothing.
IsEqual(a, b) ==
  \/ IsNumber(a) /\ IsNumber(b) /\ a[2] = b[2]
  \/ a = b /\ a[1] \in {"null", "function", "array"}

RECURSIVE Shown(_, _)
Shown(objects, v) ==
  IF v[1] \in {"array", "record"}
  THEN <<v[1], [k \in DOMAIN objects[v[2]].parts |-> Shown(objects, objects[v[2]].parts[k])]>>
  ELSE IF v[1] = "function" THEN <<"function", 0>> ELSE v

\* Assignment copies records, down to the first object of another kind.
RECURSIVE Clone(_, _)
Clone(objects, v) ==
  IF v[1] # "record" THEN [objects |-> objects, value |-> v]
  ELSE LET parts == objects[v[2]].parts
           copied[k \in 0..Len(parts)] ==
             IF k = 0 THEN [objects |-> objects, parts |-> << >>]
             ELSE LET part == Clone(copied[k - 1].objects, parts[k])
                  IN [objects |-> part.objects, parts |-> Append(copied[k - 1].parts, part.value)]
           all == copied[Len(parts)]
       IN [objects |-> Append(all.objects, [objects[v[2]] EXCEPT !.parts = all.parts]),
           value |-> <<"record", Len(all.objects) + 1>>]

Truncated(a, b) == IF (a < 0) = (b < 0) THEN a \div b ELSE -((-a) \div b)
Calculating == {"ADD", "SUB", "MUL", "DIV"}
Integral == {"MOD", "BIT_AND", "BIT_OR", "BIT_XOR", "LEFT_SHIFT", "RIGHT_SHIFT"}
Comparing == {"LESS", "LESS_EQUAL", "GREATER", "GREATER_EQUAL"}
BinaryOpcodes ==
  Calculating \union Integral \union Comparing \union {"EQUAL", "NOT_EQUAL", "LOGICAL_AND", "LOGICAL_OR"}
UnaryOpcodes == {"NEG", "LOGICAL_NOT", "BIT_NOT"}

BinaryThrows(op, a, b) ==
  \/ op \in Calculating \union Integral \union Comparing /\ ~(IsNumber(a) /\ IsNumber(b))
  \/ op \in Integral /\ "double" \in {a[1], b[1]}
  \/ op = "MOD" /\ b[2] = 0
BinaryUndefined(op, a, b) ==
  \/ op = "DIV" /\ a[1] = "int" /\ b = <<"int", 0>>
  \/ op \in {"LEFT_SHIFT", "RIGHT_SHIFT"} /\ b[2] \notin 0..WordSize - 1
ApplyBinary(op, a, b) ==
  LET x == a[2]
      y == b[2]
      Number(i) == <<IF op \in Integral \/ (a[1] = "int" /\ b[1] = "int") THEN "int" ELSE "double", i>>
  IN CASE op = "ADD" -> Number(x + y)
       [] op = "SUB" -> Number(x - y)
       [] op = "MUL" -> Number(x * y)
       [] op = "DIV" -> Number(Truncated(x, y))
       [] op = "MOD" -> Number(x - y * Truncated(x, y))
       [] op = "BIT_AND" -> Number(x & y)
       [] op = "BIT_OR" -> Number(x | y)
       [] op = "BIT_XOR" -> Number(x ^^ y)
       [] op = "LEFT_SHIFT" -> Number(x * 2^y)
       [] op = "RIGHT_SHIFT" -> Number(x \div 2^y)
       [] op = "LESS" -> Bool(x < y)
       [] op = "LESS_EQUAL" -> Bool(x <= y)
       [] op = "GREATER" -> Bool(x > y)
       [] op = "GREATER_EQUAL" -> Bool(x >= y)
       [] op = "EQUAL" -> Bool(IsEqual(a, b))
       [] op = "NOT_EQUAL" -> Bool(~IsEqual(a, b))
       [] op = "LOGICAL_AND" -> Bool(IsTruthy(a) /\ IsTruthy(b))
       [] op = "LOGICAL_OR" -> Bool(IsTruthy(a) \/ IsTruthy(b))
UnaryThrows(op, a) == (op = "NEG" /\ ~IsNumber(a)) \/ (op = "BIT_NOT" /\ a[1] # "int")
ApplyUnary(op, a) ==
  CASE op = "NEG" -> <<IF a[1] = "int" THEN "int" ELSE "double", -a[2]>>
    [] op = "LOGICAL_NOT" -> Bool(~IsTruthy(a))
    [] op = "BIT_NOT" -> <<"int", -a[2] - 1>>

(***************************************************************************)
(* The frame that runs                                                     *)
(***************************************************************************)
Frame == Last(frames)
CodeOf(frame) == functionProtos[frame.proto + 1].chunk.code
Opcode == CodeOf(Frame)[Frame.ip + 1][1]
Operand == CodeOf(Frame)[Frame.ip + 1][2]
Depth == Len(stack)
Top(k) == stack[Depth - k]
Callee == Top(Operand)
Captured == heap[Frame.function].parts
UpvalueAt(slot) == upvalues[Captured[slot + 1]]

\* What an instruction pops at least; the machine throws where the stack is empty.
Pops ==
  CASE Opcode \in {"POP", "DUPLICATE", "JUMP_IF_FALSE", "STORE_LOCAL", "STORE_UPVALUE", "RETURN_VALUE", "GET_PROPERTY", "PRINT"}
         \union UnaryOpcodes -> 1
    [] Opcode \in {"SWAP", "GET_INDEX", "SET_PROPERTY"} \union BinaryOpcodes -> 2
    [] Opcode = "SET_INDEX" -> 3
    [] Opcode \in {"NEW_ARRAY", "MAKE_RECORD"} -> Operand
    [] Opcode = "CALL" -> Operand + 1
    [] OTHER -> 0
BadIndex(array, index) ==
  array[1] # "array" \/ index[1] # "int" \/ index[2] \notin 0..Len(heap[array[2]].parts) - 1
Throws ==
  \/ Frame.ip >= Len(CodeOf(Frame))
  \/ Depth < Pops
  \/ Opcode \in BinaryOpcodes /\ BinaryThrows(Opcode, Top(1), Top(0))
  \/ Opcode \in UnaryOpcodes /\ UnaryThrows(Opcode, Top(0))
  \/ Opcode = "CALL" /\ Callee[1] # "function"
  \/ Opcode \in {"RETURN_VOID", "RETURN_VALUE"} /\ Frame.base = 0   \* a resize to base - 1
  \/ Opcode \in {"GET_INDEX", "SET_INDEX"} /\ BadIndex(Top(1), Top(0))
  \/ Opcode \in {"GET_PROPERTY", "SET_PROPERTY"} /\ Top(0)[1] # "record"

\* Nothing checks an operand, and the file itself has no closure to take upvalues from.
Lost(slot) ==
  \/ Frame.function = 0
  \/ slot \notin 0..Len(Captured) - 1
Closing(proto) == functionProtos[proto + 1].upvalues
IsUndefined ==
  CASE Opcode \in {"LOAD_LOCAL", "STORE_LOCAL"} -> Frame.base + Operand \notin 0..Depth - 1
    [] Opcode \in {"LOAD_UPVALUE", "STORE_UPVALUE"} ->
         Lost(Operand) \/ (~UpvalueAt(Operand).isClosed /\ UpvalueAt(Operand).stackSlot \notin 0..Depth - 1)
    [] Opcode = "MAKE_CLOSURE" ->
         \/ Operand \notin 0..Len(functionProtos) - 1
         \/ \E k \in DOMAIN Closing(Operand) : ~Closing(Operand)[k].isLocal /\ Lost(Closing(Operand)[k].index)
    [] Opcode \in {"GET_PROPERTY", "SET_PROPERTY"} -> Operand \notin 0..Len(heap[Top(0)[2]].parts) - 1
    [] Opcode \in BinaryOpcodes -> BinaryUndefined(Opcode, Top(1), Top(0))
    [] OTHER -> FALSE

Running == status = "running"
Executes(opcodes) == Running /\ ~Throws /\ Opcode \in opcodes /\ ~IsUndefined
\* The next instruction of the frame, or the one jumped to.
JumpTo(position) == frames' = [frames EXCEPT ![Len(frames)].ip = position]
Advance == JumpTo(Frame.ip + 1)
Replaced(count, values) == SubSeq(stack, 1, Depth - count) \o values

(***************************************************************************)
(* The instructions                                                        *)
(***************************************************************************)
Throw == Running /\ Throws /\ status' = "error"
         /\ UNCHANGED <<functionProtos, stack, frames, upvalues, openUpvalues, heap, output>>
GoWrong == Running /\ ~Throws /\ IsUndefined /\ status' = "undefined"
           /\ UNCHANGED <<functionProtos, stack, frames, upvalues, openUpvalues, heap, output>>

\* What only replaces values on top of the stack.
OnStack(opcodes, count, values) ==
  /\ Executes(opcodes)
  /\ stack' = Replaced(count, values)
  /\ Advance
  /\ UNCHANGED <<functionProtos, upvalues, openUpvalues, heap, output, status>>
PushUninitialised == OnStack({"PUSH_UNINITIALISED"}, 0, Resized(<< >>, Operand))
PushConst == OnStack({"PUSH_CONST"}, 0, <<functionProtos[Frame.proto + 1].chunk.constants[Operand + 1]>>)
Pop == OnStack({"POP"}, 1, << >>)
Duplicate == OnStack({"DUPLICATE"}, 0, <<Top(0)>>)
Swap == OnStack({"SWAP"}, 2, <<Top(0), Top(1)>>)
BinaryOp == OnStack(BinaryOpcodes, 2, <<ApplyBinary(Opcode, Top(1), Top(0))>>)
UnaryOp == OnStack(UnaryOpcodes, 1, <<ApplyUnary(Opcode, Top(0))>>)
LoadLocal == OnStack({"LOAD_LOCAL"}, 0, <<stack[Frame.base + Operand + 1]>>)
LoadUpvalue ==
  OnStack({"LOAD_UPVALUE"}, 0,
          LET up == UpvalueAt(Operand) IN <<IF up.isClosed THEN up.closed ELSE stack[up.stackSlot + 1]>>)
GetIndex == OnStack({"GET_INDEX"}, 2, <<heap[Top(1)[2]].parts[Top(0)[2] + 1]>>)
GetProperty == OnStack({"GET_PROPERTY"}, 1, <<heap[Top(0)[2]].parts[Operand + 1]>>)

\* A variable gets a copy, and the value stays on the stack.
StoreLocal ==
  /\ Executes({"STORE_LOCAL"})
  /\ LET copy == Clone(heap, Top(0))
     IN /\ heap' = copy.objects
        /\ stack' = [stack EXCEPT ![Frame.base + Operand + 1] = copy.value]
  /\ Advance
  /\ UNCHANGED <<functionProtos, upvalues, openUpvalues, output, status>>
StoreUpvalue ==
  /\ Executes({"STORE_UPVALUE"})
  /\ LET up == UpvalueAt(Operand)
         copy == Clone(heap, Top(0))
     IN IF up.isClosed
        THEN upvalues' = [upvalues EXCEPT ![Captured[Operand + 1]].closed = Top(0)] /\ UNCHANGED <<heap, stack>>
        ELSE heap' = copy.objects /\ stack' = [stack EXCEPT ![up.stackSlot + 1] = copy.value] /\ UNCHANGED upvalues
  /\ Advance
  /\ UNCHANGED <<functionProtos, openUpvalues, output, status>>

Jump ==
  /\ Executes({"JUMP"})
  /\ JumpTo(Operand)
  /\ UNCHANGED <<functionProtos, stack, upvalues, openUpvalues, heap, output, status>>
JumpIfFalse ==
  /\ Executes({"JUMP_IF_FALSE"})
  /\ JumpTo(IF IsTruthy(Top(0)) THEN Frame.ip + 1 ELSE Operand)
  /\ stack' = Front(stack)
  /\ UNCHANGED <<functionProtos, upvalues, openUpvalues, heap, output, status>>

\* The upvalue of a slot, a new one if none is open there, for each captured variable.
CaptureUpvalueAnew(slot, up) ==
  LET new == Len(up.all) + 1
  IN [all |-> Append(up.all, [stackSlot |-> slot, isClosed |-> FALSE, closed |-> <<"null", 0>>]),
      open |-> up.open \union {new}, taken |-> Append(up.taken, new)]
CaptureUpvalue(slot, up) ==
  LET open == {u \in up.open : up.all[u].stackSlot = slot}
      new == Len(up.all) + 1
  IN IF open # {} THEN [up EXCEPT !.taken = Append(@, CHOOSE u \in open : TRUE)]
     ELSE [all |-> Append(up.all, [stackSlot |-> slot, isClosed |-> FALSE, closed |-> <<"null", 0>>]),
           open |-> up.open \union {new}, taken |-> Append(up.taken, new)]
MakeClosure ==
  /\ Executes({"MAKE_CLOSURE"})
  /\ LET wanted == Closing(Operand)
         taken[k \in 0..Len(wanted)] ==
           IF k = 0 THEN [all |-> upvalues, open |-> openUpvalues, taken |-> << >>]
           ELSE IF wanted[k].isLocal THEN CaptureUpvalue(Frame.base + wanted[k].index, taken[k - 1])
           ELSE [taken[k - 1] EXCEPT !.taken = Append(@, Captured[wanted[k].index + 1])]
         captured == taken[Len(wanted)]
     IN /\ upvalues' = captured.all
        /\ openUpvalues' = captured.open
        /\ heap' = Append(heap, [kind |-> "function", proto |-> Operand, parts |-> captured.taken])
        /\ stack' = Append(stack, <<"function", Len(heap) + 1>>)
  /\ Advance
  /\ UNCHANGED <<functionProtos, output, status>>

\* The arguments are the first slots of the new frame.
Call ==
  /\ Executes({"CALL"})
  /\ LET function == heap[Callee[2]]
         base == Depth - Operand
     IN /\ stack' = Resized(stack, base + functionProtos[function.proto + 1].frameSize)
        /\ frames' = Append([frames EXCEPT ![Len(frames)].ip = @ + 1],
                            [proto |-> function.proto, base |-> base, ip |-> 0, function |-> Callee[2]])
  /\ UNCHANGED <<functionProtos, upvalues, openUpvalues, heap, output, status>>

\* Variables of the frame that were captured leave the stack first.
CloseUpvaluesInPlace(base) ==
  LET closing == {u \in openUpvalues : upvalues[u].stackSlot >= base}
  IN /\ upvalues' = [u \in DOMAIN upvalues |-> [upvalues[u] EXCEPT !.isClosed = u \in closing \/ @]]
     /\ UNCHANGED openUpvalues
CloseUpvalues(base) ==
  LET closing == {u \in openUpvalues : upvalues[u].stackSlot >= base}
  IN /\ openUpvalues' = openUpvalues \ closing
     /\ upvalues' = [u \in DOMAIN upvalues |->
          IF u \in closing THEN [upvalues[u] EXCEPT !.isClosed = TRUE, !.closed = stack[upvalues[u].stackSlot + 1]]
          ELSE upvalues[u]]
ReturnAboveCallee(opcode, value) ==
  /\ Executes({opcode})
  /\ CloseUpvalues(Frame.base)
  /\ stack' = Append(SubSeq(stack, 1, Frame.base), value)
  /\ frames' = Front(frames)
  /\ UNCHANGED <<functionProtos, heap, output, status>>
Return(opcode, value) ==
  /\ Executes({opcode})
  /\ CloseUpvalues(Frame.base)
  /\ stack' = Append(SubSeq(stack, 1, Frame.base - 1), value)
  /\ frames' = Front(frames)
  /\ UNCHANGED <<functionProtos, heap, output, status>>
ReturnVoid == Return("RETURN_VOID", Garbage)
ReturnValue == Return("RETURN_VALUE", Top(0))

\* What is popped first comes first.
Gather(opcode, kind) ==
  /\ Executes({opcode})
  /\ heap' = Append(heap, [kind |-> kind, proto |-> -1, parts |-> [k \in 1..Operand |-> Top(k - 1)]])
  /\ stack' = Replaced(Operand, << <<kind, Len(heap) + 1>> >>)
  /\ Advance
  /\ UNCHANGED <<functionProtos, upvalues, openUpvalues, output, status>>
NewArray == Gather("NEW_ARRAY", "array")
MakeRecord == Gather("MAKE_RECORD", "record")

SetIndex ==
  /\ Executes({"SET_INDEX"})
  /\ LET copy == Clone(heap, Top(2))
     IN heap' = [copy.objects EXCEPT ![Top(1)[2]].parts[Top(0)[2] + 1] = copy.value]
  /\ stack' = Replaced(3, <<Top(2)>>)
  /\ Advance
  /\ UNCHANGED <<functionProtos, upvalues, openUpvalues, output, status>>
SetProperty ==
  /\ Executes({"SET_PROPERTY"})
  /\ heap' = [heap EXCEPT ![Top(0)[2]].parts[Operand + 1] = Top(1)]
  /\ stack' = Replaced(2, <<Top(1)>>)
  /\ Advance
  /\ UNCHANGED <<functionProtos, upvalues, openUpvalues, output, status>>

PrintTop ==
  /\ Executes({"PRINT"})
  /\ output' = Append(output, Shown(heap, Top(0)))
  /\ stack' = Front(stack)
  /\ Advance
  /\ UNCHANGED <<functionProtos, upvalues, openUpvalues, heap, status>>
Halt ==
  /\ Executes({"HALT"})
  /\ status' = "halted"
  /\ Advance
  /\ UNCHANGED <<functionProtos, stack, upvalues, openUpvalues, heap, output>>

ExecuteInstr ==
  \/ PushUninitialised \/ PushConst \/ Pop \/ Duplicate \/ Swap \/ BinaryOp \/ UnaryOp
  \/ LoadLocal \/ StoreLocal \/ LoadUpvalue \/ StoreUpvalue \/ Jump \/ JumpIfFalse
  \/ MakeClosure \/ Call \/ ReturnVoid \/ ReturnValue
  \/ NewArray \/ GetIndex \/ SetIndex \/ MakeRecord \/ GetProperty \/ SetProperty
  \/ PrintTop \/ Halt \/ Throw \/ GoWrong

(***************************************************************************)
(* Before a program is loaded, and load                                    *)
(***************************************************************************)
Empty ==
  /\ functionProtos = << >> /\ stack = << >> /\ frames = << >> /\ upvalues = << >>
  /\ openUpvalues = {} /\ heap = << >> /\ output = << >> /\ status = "empty"
Load(protos) ==
  /\ functionProtos' = protos
  /\ stack' = Resized(<< >>, Last(protos).frameSize)
  /\ frames' = <<[proto |-> Len(protos) - 1, base |-> 0, ip |-> 0, function |-> 0]>>
  /\ status' = "running"
  /\ UNCHANGED <<upvalues, openUpvalues, heap, output>>
=============================================================================
