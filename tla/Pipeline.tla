------------------------------- MODULE Pipeline -------------------------------
(***************************************************************************)
(* The driver's passes over one file and the run of what they make of it   *)
(* (Compiler/main.cpp, the bytecode backend): names, types, moves, lowered *)
(* method calls, closures, code, and then the machine.  A pass that throws *)
(* ends the compilation.                                                   *)
(***************************************************************************)
EXTENDS BytecodeCompiler, BytecodeVM, Meaning

CONSTANT Programs   \* files, as the statements the parser makes of them

VARIABLES
  source,    \* the statements
  program,   \* the tree the passes work on
  pass,      \* the pass whose turn it is, "run" afterwards, "refused" after a throw
  unit       \* what the passes know of the tree

vars == <<source, program, pass, unit, machine>>

Init ==
  /\ source \in Programs
  /\ program = Program(source)
  /\ pass = "SymbolScopeBuilder"
  /\ unit = StartOf(program)
  /\ Empty

\* A pass writes on the tree, or throws.
Becomes(c, next) ==
  /\ unit' = c
  /\ pass' = IF Failed(c) THEN "refused" ELSE next
  /\ UNCHANGED <<source, program>>
RunPass(name, c, next) == pass = name /\ Becomes(c, next) /\ UNCHANGED machine

BuildScopes == RunPass("SymbolScopeBuilder", SymbolScopes(program, unit), "DeclTypeResolver")
DeclareTypes == RunPass("DeclTypeResolver", DeclaredTypes(program, unit), "Resolver")
ResolveNames == RunPass("Resolver", Resolve(program, unit), "ReferenceChecker")
CheckReferences == RunPass("ReferenceChecker", Check(program, unit), "MethodLower")
LowerMethods == RunPass("MethodLower", Lower(program, unit), "ClosureAnalyser")
AnalyseClosures == RunPass("ClosureAnalyser", Analyse(program, unit), "VMCompiler")
CompileCode ==
  LET compiled == Compile(program, unit)
  IN /\ pass = "VMCompiler"
     /\ Becomes(compiled, "run")
     /\ IF Failed(compiled) THEN UNCHANGED machine ELSE Load(compiled.protos)
Run == pass = "run" /\ ExecuteInstr /\ UNCHANGED <<source, program, pass, unit>>

Ended == pass = "refused" \/ status \in {"halted", "error", "undefined"}
Exit == Ended /\ UNCHANGED vars

Next ==
  \/ BuildScopes \/ DeclareTypes \/ ResolveNames \/ CheckReferences \/ LowerMethods \/ AnalyseClosures
  \/ CompileCode \/ Run \/ Exit
\* The machine executes instructions until it stops.
Spec == Init /\ [][Next]_vars /\ WF_vars(Run)

(***************************************************************************)
(* What the passes found                                                   *)
(***************************************************************************)
\* The function a prototype was compiled from, by its context.
ContextOf(proto) == unit.contextOf[CHOOSE id \in DOMAIN unit.protoOf : unit.protoOf[id] = proto]
RECURSIVE Nodes(_), OwnNodes(_)
Nodes(n) == {n} \union UNION {Nodes(n.kids[k]) : k \in DOMAIN n.kids}
\* Those that are not in a function inside.
OwnNodes(n) == {n} \union UNION {OwnNodes(n.kids[k]) : k \in {l \in DOMAIN n.kids : n.kids[l].kind # "function"}}
Kinds(statements) == {n.kind : n \in UNION {Nodes(statements[k]) : k \in DOMAIN statements}}

\* Whether the value may be in a variable of the type; nothing is said of what is unset.
RECURSIVE Conforms(_, _)
Conforms(v, type) ==
  \/ v = Garbage
  \/ type \in {ANY_TYPE, NoType, UNINITIALISED}
  \/ v[1] \in {"int", "bool", "null"} /\ type = <<v[1]>>
  \/ v[1] = "function" /\ Kind(type) = "function"
  \/ /\ v[1] = "array" /\ Kind(type) = "array"
     /\ type[3] \in {Unsized, Len(heap[v[2]].parts)}
     /\ \A k \in DOMAIN heap[v[2]].parts : Conforms(heap[v[2]].parts[k], type[2])
  \/ /\ v[1] = "record" /\ Kind(type) = "instance"
     /\ LET fields == unit.aggregates[type[2]].fields
        IN \A f \in DOMAIN fields :
             Conforms(heap[v[2]].parts[unit.symbols[fields[f]].fieldOffset + 1], unit.symbols[fields[f]].type)

\* The variable an upvalue of a context stands for, followed out to the frame that has it.
RECURSIVE Origin(_, _)
Origin(k, slot) ==
  LET up == unit.contexts[k].upvalues[slot + 1]
      parent == unit.contexts[k].parent
  IN IF up.isLocal THEN unit.contexts[parent].locals[up.index + 1].symbol ELSE Origin(parent, up.index)

\* The values on the stack before each instruction of a chunk, counted from its start, or
\* -1 where two ways to the same instruction disagree.
Effect(instruction) ==
  LET op == instruction[1]
      operand == instruction[2]
  IN CASE op \in {"PUSH_CONST", "DUPLICATE", "LOAD_LOCAL", "LOAD_UPVALUE", "MAKE_CLOSURE"} -> 1
       [] op \in {"POP", "JUMP_IF_FALSE", "GET_INDEX", "SET_PROPERTY", "PRINT"} \union BinaryOpcodes -> -1
       [] op = "SET_INDEX" -> -2
       [] op = "PUSH_UNINITIALISED" -> operand
       [] op \in {"NEW_ARRAY", "MAKE_RECORD"} -> 1 - operand
       [] op = "CALL" -> -operand
       [] OTHER -> 0
Successors(code, i) ==
  CASE code[i][1] = "JUMP" -> {code[i][2] + 1}
    [] code[i][1] = "JUMP_IF_FALSE" -> {i + 1, code[i][2] + 1}
    [] code[i][1] \in {"RETURN_VOID", "RETURN_VALUE", "HALT"} -> {}
    [] OTHER -> {i + 1}
RECURSIVE Depths(_, _, _)
\* From what is known of some instructions to what follows from it.
Depths(code, known, fresh) ==
  IF fresh = {} THEN known
  ELSE LET i == CHOOSE i \in fresh : TRUE
           next == Successors(code, i)
           after == known[i] + Effect(code[i])
           new == next \ DOMAIN known
       IN IF next \subseteq DOMAIN code /\ \A j \in next \ new : known[j] = after
          THEN Depths(code, [j \in new |-> after] @@ known, (fresh \ {i}) \union new)
          ELSE known @@ (0 :> -1)
\* How many functions a function hoists.
Hoists(k) == Len(unit.contexts[k].funcDecls)

(***************************************************************************)
(* Properties                                                              *)
(***************************************************************************)
\* Every value names an object of its kind, every open upvalue and frame lies on the stack.
IsValue(v) == IF v[1] \in {"function", "array", "record"} THEN v[2] \in DOMAIN heap /\ heap[v[2]].kind = v[1] ELSE v[2] \in Int
TypeOK ==
  /\ status \in {"empty", "running", "halted", "error", "undefined"}
  /\ (status = "empty") = (pass # "run")
  /\ \A k \in DOMAIN stack : IsValue(stack[k])
  /\ \A o \in DOMAIN heap :
       \A k \in DOMAIN heap[o].parts :
         IF heap[o].kind = "function" THEN heap[o].parts[k] \in DOMAIN upvalues ELSE IsValue(heap[o].parts[k])
  /\ \A u \in DOMAIN upvalues : IF u \in openUpvalues THEN upvalues[u].stackSlot < Depth ELSE IsValue(upvalues[u].closed)
  /\ \A k \in DOMAIN frames : frames[k].base <= Depth /\ frames[k].proto \in 0..Len(functionProtos) - 1

\* A program that is accepted prints what it means and ends as it should: in particular it
\* never reads a variable that was moved or has no value, and never assigns to a `let'.
RunsAgree == pass = "run" /\ Ended => [output |-> output, end |-> status] = Means(source)

\* RunsAgree for functions with several parameters: "[ callee function object ] [ arg0 ] ...
\* [ argN ]", with the frame's base at arg0, says the machine where it calls.
ArgumentsKeepTheirOrder == RunsAgree

\* In a program without branches and functions, what is refused for its use of a variable
\* would have gone wrong over one; assignments that give a variable its first value, or one
\* again after a move, are left to AssignmentGivesAValue.
StraightLine == Kinds(source) \intersect {"function", "declare", "class", "if", "while"} = {}
RefusalsAreDeserved ==
  /\ StraightLine /\ pass = "refused"
  /\ unit.error \in {"undefined variable", "value not available", "immutable binding"}
  => Means(source).end \in {"unbound", "uninitialised", "moved", "immutable"}

\* RefusalsAreDeserved for a variable that was moved or has no value yet and is assigned to:
\* "use `var` for deferred assignment", says the checker, and "Reinitializing a moved mutable
\* variable is allowed" (docs/ownership-daily-plan.md).  The checker visits the place assigned
\* to as if it were read.
AssignmentGivesAValue == RefusalsAreDeserved

\* Every local variable of every call holds a value of the type the third pass gave it.
LocalsHoldTheirTypes ==
  \A f \in DOMAIN frames :
    LET locals == unit.contexts[ContextOf(frames[f].proto)].locals
    IN \A k \in DOMAIN locals : Conforms(stack[frames[f].base + k], unit.symbols[locals[k].symbol].type)

\* Every use of a variable, followed through the captures of the functions around it, comes
\* to the variable the name was resolved to.
UsesReachTheirVariable ==
  pass = "VMCompiler" =>
    \A function \in {n \in Nodes(program) : n.kind = "function"} :
      LET k == unit.contextOf[function.id]
      IN \A n \in {m \in OwnNodes(Body(function)) : unit.resolution[m.id] # Unresolved} :
           unit.symbolOf[n.id] =
                IF unit.resolution[n.id][1] = "local" THEN unit.contexts[k].locals[unit.resolution[n.id][2] + 1].symbol
                ELSE Origin(k, unit.resolution[n.id][2])

\* Whatever way leads to an instruction, the stack is as high there, the jumps stay in the
\* chunk and nothing is popped that was not pushed.  A chunk leaves the same whichever way it
\* ends, and its statements add nothing to that: it is what was there before the first of
\* them, a closure per function it hoists if it was compiled with those (NothingIsLeft).
CodeIsBalanced ==
  pass = "run" /\ status = "running" /\ Frame.ip = 0 /\ Len(frames) = 1 =>
    \A p \in DOMAIN unit.protos :
      LET code == unit.protos[p].chunk.code
          depths == Depths(code, 1 :> 0, {1})
          ends == {i \in DOMAIN depths \intersect DOMAIN code : Successors(code, i) = {}}
          left == {depths[i] - (IF code[i][1] = "RETURN_VALUE" THEN 1 ELSE 0) : i \in ends}
      IN /\ 0 \notin DOMAIN depths /\ \A i \in DOMAIN depths : depths[i] >= 0
         /\ Cardinality(left) <= 1 /\ left \subseteq {0, Hoists(ContextOf(p - 1))}

\* The temporaries of a call never reach down to its variables, and a file that declares no
\* functions at its top ends with its variables alone (for one that does, NothingIsLeft).
StackDiscipline ==
  /\ \A f \in DOMAIN frames :
       LET top == IF f = Len(frames) THEN Depth ELSE frames[f + 1].base - 1
       IN top >= frames[f].base + functionProtos[frames[f].proto + 1].frameSize
  /\ status = "halted" /\ Hoists(1) = 0 => Depth = Last(functionProtos).frameSize

\* "Every statement must leave NO value on the stack" (vm.cpp:155): a file that has run to its
\* end leaves its variables there and nothing else.  The closure of a hoisted function is made
\* twice, by its compilation and to be stored, and only the second is popped.
NothingIsLeft == status = "halted" => Depth = Last(functionProtos).frameSize

\* A program whose meaning has an end comes to one: no jump leads it round for ever.
EveryRunEnds == pass = "run" ~> Ended
=============================================================================
