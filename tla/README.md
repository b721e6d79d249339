# KMY compiler: specifications and proofs

KMY is a small language with closures, records, classes and modules. `kmyc`
compiles it by one of two back ends: a stack-based virtual machine
(`BytecodeVM/`), and native x86-64 by way of HIR, SSA and MIR (`CodegenIR/`,
`SSA/`, `MachineIR/`, `X86Codegen/`). Both share a front end (`Core/`,
`Semantics/`) and the driver `Compiler/main.cpp`, which also loads modules.

The program is single threaded: one process compiles, one thread executes. What
is hard about it is *order* and *aliasing*: work lists drained while they are
rewritten, vectors modified while they are iterated, values read through a
variable after another evaluation has rebound it, stack slots reused by a later
call, modules initialised in the order a graph search happens to finish. These
are the subject of the modules here.

## 1. Inventory

| part | state it keeps | operations | what makes it correct |
|---|---|---|---|
| Driver and module loader, `Compiler/main.cpp` 318-555 | modules by path with LOADING/LOADED state, the work queue, the declaration order, module-global slots | load a file, queue its imports, depth-first cycle check, link imports and aliases, run each pass over every module | every imported module is loaded once; an import cycle is rejected; a module's initialiser runs after those of its imports and exactly once |
| Lexer and parser, `Core/lexer.cpp`, `Core/newParser.cpp` | token list and position | longest match, Pratt expression parsing, types, statements, `for` lowered to `while`, aggregates split into fields, methods, constructors and initialisers | the tree of a file is the derivation `grammar.md` gives it, every sentence is accepted and nothing else, and every parse ends |
| Scopes and types, `Semantics/SymbolScopeBuilder`, `DeclTypeResolver`, `Resolver`, `TypeInterner`, `MethodLower` | scope tree, symbols, interned types | declare, look up, resolve member access, add the implicit `this` | a name resolves to the innermost declaration; equal types are one object |
| Reference checker, `Semantics/ReferenceChecker.cpp` | availability of each binding | consume, require, assign, enter and leave a function | no use of a binding that was moved or has no value, no assignment to a `let`, and no refusal of a program without one |
| Closure analysis, `Semantics/ClosureAnalyser.cpp` | per function: local slots, upvalue list, environment slots | resolve a variable to a local, an upvalue chain or a global | the chain of (isLocal, index) pairs leads to the variable the name was resolved to, from every depth |
| HIR generation, `CodegenIR/IRBuilder.cpp` | current block, loop targets, environments, latest value of a symbol | one visit per syntax node | evaluation order; every block ends in one terminator; a captured variable lives in its cell |
| SSA construction, `SSA/SSABuilder.cpp` | dominators, frontiers, phi positions, a stack of definitions per symbol | place phis, rename | every use is replaced by the definition that reaches it |
| MIR lowering, `MachineIR/MIRBuilder.cpp` | copy lists per block, next value id | lower instructions, replace phis by MOVEs | the MOVEs have the effect of the phis |
| x86 code generation, `X86Codegen/x86Builder.cpp` | frame size, registers of the current instruction | one template per MIR instruction | every value has a frame slot of its own; call arguments are where the callee reads them |
| Bytecode compiler, `Compiler/compiler.cpp` | chunk, jump patch lists, loop stack | one visit per syntax node | each expression leaves one value on every path; jumps land where intended; what is compiled does what the program means |
| Virtual machine, `BytecodeVM/vm.cpp` | value stack, frames, open upvalues, heap objects | one case per opcode | a variable is one cell for all closures that share it, during and after its frame |
| C runtime, `Runtime C Functions/runtime.c` | reference count per allocation | allocate, retain, release, file and string helpers | freed when and only when the last owner releases it |
| Values and natives, `Core/value.cpp`, `Utils/NativeFunctionImpl.cpp` | none | arithmetic, comparison, printing | records are values, other objects are shared |
| Legacy interpreter, `Interpreter/` | environments | tree walking | superseded by the virtual machine |
| Standard library, `stdlib/` | containers written in KMY | push, pop, insert, remove | ordinary container contracts |
| Output, `Utils/` | none | AST, symbol and JSON printing | not modelled: formatting only |

How they interact: the driver hands each module's AST to the passes in turn, and
each pass annotates the AST for the next (symbols, then types, then slots and
upvalues). The bytecode compiler reads the slots and upvalue lists and emits
`FunctionProto`s the VM executes; the IR builder reads the same lists and builds
HIR functions, which SSA construction rewrites in place, MIR lowering copies into
MIR functions and x86 generation prints. `lastValueId` travels with a function
from HIR to MIR to the size of the x86 frame.

What is hard, and where it is treated:

- *Lists changed while they are walked.* `lowerHIRFunc` erases copies from the
  list it searches and keeps a reference into it (`PhiCopies`); `closeUpvalues`
  erases from the vector it iterates (`VMClosures`).
- *Values read later than they look.* A variable operand in HIR is a reference
  that SSA renaming resolves where it is used (`NativeRun`); an upvalue points
  at a stack slot a later call will reuse (`VMClosures`).
- *Order decided far away.* The map of modules is iterated in hash order by
  every pass, and the start-up order of modules is the order in which a search
  happens to finish them (`ModuleLoader`). Dominators are a fixpoint over blocks
  in creation order, which is not program order (`SSABuilder`).
- *Facts spread over passes.* A name is resolved by one pass, typed by the next,
  moved by the next, given a slot or a capture by another and compiled by the
  last: five tables must agree on what one identifier is (`Pipeline`).
- *Deciding on one token.* `{` opens a block, a record or a record type, `fun` a
  declaration or a value, `[` an index, an array or the suffix of a type; the
  parser decides without looking back (`Parser`, `SourceFile`).
- *Long legal sequences.* Nested loops, branches, breaks and returns combine in
  blocks nobody wrote a test for (`ControlFlow`, `NativeRun`); so do calls,
  captures and returns (`VMClosures`).
- *Termination* of the drain loop, of the loading queue, of the parser at the end
  of a file, and of compiled loops and calls.

There are no threads, messages, crashes to recover from or timeouts in this
program, so none are modelled.

## 2. Plan

Order of work, most important behaviour first. A module that composes others
names them in brackets.

| step | modules | question | state |
|---|---|---|---|
| A | `PhiCopies`, `ParallelAssign`, `PhiCopiesProofs` | do the MOVEs have the effect of the phis? | checked and proved |
| B | `ClosureProtos`, `ClosureCells`, `VMClosures` | does the VM keep the language's variables? | checked, proved in G |
| C | `HIR`, `ControlFlow` [HIR], `SSABuilder` [ControlFlow], `NativeRun` [SSABuilder] | does the native program do what its source says? | checked, in part proved in G |
| D | `ModuleLoader` | are modules collected, ordered and initialised rightly? | checked, proved in G |
| E | `Syntax`, `Lexer`, `Parser`, `SourceText` [both], `Grammar`, `SourceFile` [Grammar] | is the tree of a file the one the grammar gives it? | checked |
| F | `Ast`, `SymbolScopeBuilder`, `DeclTypeResolver`, `Resolver`, `ReferenceChecker`, `ClosureAnalyser`, `BytecodeCompiler`, `BytecodeVM`, `Meaning`, `Pipeline` [all] | does the bytecode of a program do what the program means, and is what is refused wrong? | checked |
| G | `SequenceFacts`, and with it `ModuleLoaderProofs`, `VMClosuresProofs`, `VMClosuresRefinement`, `NativeRunProofs`, `ScopeProofs`, `RenamingProofs` | do the invariants of loader, machine, block building and renaming hold for every program? | proved |
| H | environment layout of `ClosureAnalyser` and the closures, globals and calls of `IRBuilder` | is the same variable found from every depth on the native side? | not modelled |
| I | x86 calling sequence and frame, on the values of `PhiCopies` | are arguments where the callee reads them? | not modelled |
| J | reference counts of the C runtime | freed when and only when the last owner lets go | not modelled |

Abstract specifications: `ParallelAssign` (a set of copies takes place at once),
implemented by `PhiCopies`; `ClosureCells` (a variable is one cell for all
closures that share it), implemented by `VMClosures`; the source program itself,
run in lock step in `NativeRun`; the grammar sheet as a set of derivations
(`Grammar`), against which the parser is compared; and `Meaning`, an interpreter
of programs by names, against which the passes and the machine are.

## 3. Modules

Each definition's source lines are in `PROJECT.json` under `map`.

### Phi elimination: `PhiCopies`, `ParallelAssign`

`MIRBuilder::lowerHIRFunc`, step 3. `original` is the map `parallelCopies`, `left`
the predecessors the outer loop has not reached (an `unordered_map`, so any
order), `copies` the list being drained, `lastValueId` the counter shared by all
blocks of the function and `code` the MOVEs emitted. One action per way through
the loop body: `EmitSafe` erases the first copy whose destination no *other*
pending copy reads, `BreakCycle` saves the source of the first copy in a fresh
value and redirects the copies that read it; `TakeBlock`, `FinishBlock` and
`SetFrame` are what surrounds it. The source compares with a reference into the
list it rewrites, so only one copy is redirected; `BreakCycle` does the same, and
`TempOnlyForPermutation` is why that suffices.

`reg` is a history variable, the contents the MOVEs leave; only properties read
it. `ParallelAssign` performs the copies of a block in one step.

### The virtual machine's variables: `ClosureProtos`, `VMClosures`, `ClosureCells`

`VMClosures` has the VM's stack, frames, upvalue objects and the vector of open
upvalues. Which instruction comes next is open: any that is well formed in the
running function, which over-approximates what the bytecode compiler emits.
`MAKE_CLOSURE` (`MakeClosure`, `CaptureLocal`, `CaptureUpvalue`, `PushClosure`)
and the closing of upvalues on return (`StartReturn`, `CloseUpvalue`,
`SkipUpvalue`, `PopFrame`) take one step per iteration of their loops. A slot
never written holds `Garbage`, as `Value` does.

`ClosureCells` is the language: an activation has variables, a closure has the
variables it captured, a load yields what was last stored. The variables `act`
and `cell` inside frames and upvalues and the variables `acts` and `mem` are
history, which no guard reads.

### Modules of a program: `ModuleLoader`

`main()` from the queue of imports to the native start-up code. A file's text is
the list of its imports and whether its top-level code reads a variable of the
imported module. `SkipQueued`, `OpenFails`, `ParseFails` and `LoadModule` are one
turn of the queue; `CheckRoot`, `VisitImport`, `CircularImport` and `LeaveModule` the recursive
`checkCycles`, its call stack in `dfs`; `Link`, `Resolve` and `RunInitializer` one
module each. Every loop over the map of modules takes them in any order.

### From source to native code: `HIR`, `ControlFlow`, `SSABuilder`, `NativeRun`

`ControlFlow` is `IRBuilder` on statements. The program is not given: each action
reads one more statement and does what the `visit` call for it does to the
blocks, so every program up to a length is covered. `open` holds the active `visit(If&)`
and `visit(While&)` calls. The statements read are kept in `prog`.

`SSABuilder` is `SSABuilder::build`: one visit of a block per step of
`computeDoms` (`VisitBlock`, `EndSweep`), one worklist entry per step of
`computePhiPos` (`PlacePhis`), `insertPhis`, and one call or return per step of
`rename`. A failed assertion and a missing definition are phases of their own.

`NativeRun` then runs both programs: the blocks, with the copies of a predecessor
performed at its end where `MIRBuilder` puts them, all at once (this is
what `ParallelAssign` promises of the MOVEs), and the statements in `prog`. They
meet at every operation, short circuit, condition and return; an operation yields a fresh
number to both, a condition is decided the same way for both. `RunsAgree` says they meet at the
same kind of step, at the same place, with the same operands. Values are numbers modulo `Ticks`, so only
which value is read matters, never what was computed.

A *dialect* is a set of statement and expression kinds, so that a kind that
matters in one place does not multiply the programs everywhere.

### From text to trees: `Syntax`, `Lexer`, `Parser`, `SourceText`, `Grammar`, `SourceFile`

`Lexer` is `Lexer::tokenise` on characters; a word, and the digits on one side of a
point, are one character each, since only where a token ends matters. `Parser`
has one operator per parse function of `newParser.cpp`, from tokens and a
position to a tree and a position, or an exception; `Parts` reads the parts of a
construct in turn. The Pratt loop is `Operators` and its table of binding powers that of
`Core/newParser.hpp` and `newParser.cpp` (`InfixPower`, `BindingPower`). Lowering is what the code does: a `for`
becomes a block with a `while` whose body ends in the step, an aggregate the five
lists of `Ast.hpp`.

`Grammar` is the sheet `grammar.md` as a table of rules and knows nothing of the
parser. It finds the sentences up to a length, each with the tree of its
derivation. `SourceFile` has a file: its author types token after token as long
as the parser has not refused one, or writes a whole sentence; `SourceText`
gives the file its text, with a blank only between tokens that would grow
together, and what lexer and parser make of it. A *slice* of the language bounds
this: an alphabet, the nonterminal the file is a phrase of, and a context around
it, whose braces the author leaves alone. The twenty-four slices have the operators in
groups that share levels or prefixes, literals, both kinds of `new`, functions as values and
as declarations, one in the other, types, each kind of statement, aggregates and their members,
and imports.

What modelling them brought up, besides finding 3: `continue` in a `for` skips the
step, which is the last statement of the lowered body; `%=` is lexed and has no
binding power, so it ends an expression; a statement that starts with `fun`
declares a function and cannot be an expression: the sheet derives `fun () {};` (lines 15, 76
and 82 of `grammar.md`; line 95 makes an exception only for a literal that starts with a brace) and
the parser refuses it. `Grammar` derives it as the sheet does and no slice has it, so
`SentencesAreAccepted` does not answer for it; `new` takes a narrower type than
the sheet's, and `Grammar` follows the code there, as well as for the
kind of an assignment's target, which a later pass checks. `++` and `--` are left
out of the slices: the sheet does not give them a rule.

### From trees to output: `Ast` to `Pipeline`, and `Meaning`

`Pipeline` is the driver's bytecode backend for one file. Its variables are the
statements, the tree the passes write on, the pass whose turn it is, and `unit`,
what the passes have found: since they annotate shared nodes, nodes are numbered
and each annotation is a table. One action runs one pass; a pass that throws ends in
"refused". The last pass leaves the prototypes with which the machine starts, and
`Run` then executes one instruction.

| module | pass | what it leaves in `unit` |
|---|---|---|
| `SymbolScopeBuilder` | scopes, symbols and aggregates | scope of a node, names of a scope |
| `DeclTypeResolver` | annotations | types of parameters and fields; members |
| `Resolver` | every name and every type | symbol and type of a node |
| `ReferenceChecker` | uses and moves; with it `MethodLower` | only whether it throws; the lowered tree |
| `ClosureAnalyser` | slots | locals and upvalues of a function, a resolution per use |
| `BytecodeCompiler` | code | prototypes with chunks |
| `BytecodeVM` | one action per opcode or family of opcodes | stack, frames, upvalues, heap, output |

`Meaning` is written without a look at the passes: it walks the parser's tree with
an environment from names to cells, copies a record into the variable it is assigned
to, empties a variable whose owned value a declaration takes, and stops where a variable is read
before it has a value or after it was moved, or a `let` is assigned to again. An assignment gives
a `var` a value whatever state it was in (finding 6). One thing it takes over from the checker
and not from the plan for it: only a declaration moves. `consumeValue` (`ReferenceChecker.cpp` 81) is
called for declarations alone, while `docs/reference-checker-plan.md` 24-39 and
`docs/ownership-daily-plan.md` 116 and 124 want assignments, arguments and returns to move as well.
`RunsAgree` compares what it prints, and how it ends, with the machine. It gives
a program `Fuel` iterations and calls; every program of the dialects ends before.

## 4. Runs

| run | bounds | shows |
|---|---|---|
| `phi_copies` | two predecessors with up to 4 copies between them, 4 values | every list of copies over four values, in one block or spread over both: two 2-cycles, a 3-cycle with a tail, a 4-cycle, chains, fans, self copies. `ImplementsParallelAssign`, `NoLostValue`; one temporary per cycle and none otherwise; the counter both share: temporaries of two blocks never coincide and the frame covers them; both blocks compute their phis; the loop ends |
| `vm_closures` | calls nested 2 deep, 3 closures, 2 temporaries, the program of `MCVMClosures` | arguments, natives, capture across two levels, a return that leaves the caller's upvalue open and closes two of its own, the second of which has moved into the place of the first: the VM implements `ClosureCells`, an open upvalue points at a live local, there is one per slot, it is closed exactly when its frame is gone, and every slot and upvalue holds what was last stored to its variable |
| `module_loader` | 3 files, 1 unparsable, 1 missing, up to 2 imports each | every import graph with self imports, diamonds, cycles, duplicate imports and aliases, from every order of the map |
| `native_run` | five dialects: 4 statements nested 2 deep; 3 with `&&`; 2 with short circuits in short circuits; 4 that copy among three variables; 3 with nested assignments; `Ticks` 3 | all programs of these sizes, all decisions: well-formed graph, exact dominators, a definition for every use and one that dominates it, phis where definitions meet, the nearest definition on top of each stack, no variable left after renaming, both runs agree |
| `native_assert` | the same | finding 1 |
| `native_increment` | straight-line, 2 statements | finding 2 |
| `source_file` | twenty-four slices, 4 to 8 tokens typed, sentences up to 11 | the tokens are found however closely they are set; exactly the sentences are accepted, with the trees of their derivations |
| `source_unfinished` | one slice, 4 tokens | finding 3 |
| `pipeline` | the 3,554 programs of twelve dialects, `Fuel` 30 | passes and machine against `Meaning`: output and end, refusals, types of locals, captures, balance of the code on every path to the end of a function, discipline of the stack, end of every run |
| `pipeline_arguments` | the dialect `Parameters` | finding 4 |
| `pipeline_leftovers` | the dialect `Closures` | finding 5 |
| `pipeline_reassigned` | the dialect `Deferred` | finding 6 |

The dialects of `pipeline` (`MCPipeline`) offer a few statements at each place and take every
combination:

| dialect | programs about |
|---|---|
| `Scopes` | blocks that shadow, names before, after and outside their scope |
| `Closures`, `Makers` | functions that read, assign and shadow what is around them, two functions that share a variable, in the call that made it and after |
| `Recursion`, `Hoisting` | functions that call themselves and each other; functions in blocks, loops and branches, and returns from there |
| `Control` | loops left and continued from inside, nested |
| `Classes`, `Instances` | fields with and without values, constructors, methods that capture, copies, instances handed to functions |
| `Arrays`, `Numbers` | sharing, bounds; every operator on small numbers, division by zero, truth of each kind of value |
| `Moves` | three uses of a variable that may own something: read, moved, shadowed, and assigned to while it has a value |
| `Types` | a value of each type where each type is expected |
| `Parameters` | calls with two arguments; only in `pipeline_arguments` |
| `Deferred` | a value for a variable that was moved or never had one; only in `pipeline_reassigned` |

Why the bounds are enough: seven tokens hold any two operators and a third level
around them, eight a function with a parameter and a body, ten a `for` with all its parts,
eleven a function in a function;
in the dialects a function inside a function inside the file captures through
the one in between, and a program has a use before, inside and after every construct.
Four copies hold any two disjoint cycles and any cycle
with a tail, and the proofs of section 6 remove the bound; three files hold a
diamond with its apex as entry, a cycle not through the entry, and a shared dependency
reached before or after its importer; four statements hold a loop with a branch
that leaves it, a loop in a loop, and a loop that rotates two variables through a
third, the smallest programs in which a phi needs another phi, a header is in its
own frontier, and copies of one block overlap. Two nested calls and three closures hold
a capture through a function in between, a closure that outlives its frame, and one over two
variables of a frame below which another upvalue is open: three entries of the list, of which a
return keeps the first and closes the others. A loop that went on to the next place after a removal
would leave one open, and the run finds that.

`CHECK_DEADLOCK FALSE` is given where the program ends (`PhiCopies`,
`ModuleLoader`) or where the bounds of the run stop it (`VMClosures`, `SourceFile`);
`NativeRun` and `Pipeline` have a step for a finished program instead.

## 5. Fairness

`PhiCopies!FairSpec` and `ModuleLoader!FairSpec` assume weak fairness of the whole
next-state relation: one thread runs these loops and does nothing else, so as long
as a step is possible one is taken. The two `Terminates` properties need no more;
in particular they do not assume anything of the order in which a map is iterated.
`Pipeline!Spec` assumes weak fairness of `Run`: the machine's loop executes one
instruction after the other. `EveryRunEnds` is about the code it is given: that no jump
leads a program round for ever that has an end. The other specifications state no
fairness and no liveness.

## 6. Proofs

### Phi elimination

`PhiCopiesProofs` proves, for any finite or infinite set of blocks, any number of
values and any bound on copies, of every behaviour of `PhiCopies!Spec`:

- `TypeCorrectness`, `NoValueIsLost`, `MovesComputePhis`, `FrameIsLargeEnough`,
  each `Spec => []` of the invariant a run checks;
- `TempsArePrivate`: a temporary is written once in the whole function, and read only after that in
  the same block;
- `CyclesCostOneTemp`: a block spends one temporary on each cycle and none on anything else;
- `TempsOnlyBreakCycles`, the action property `TempOnlyForPermutation`;
- `RefinesParallelAssign`: `PhiCopies` implements `ParallelAssign`.

The only assumptions are those of `PhiCopiesAssumption`: the numbers are natural
and `NoBlock` is not a block. That the copies of a block have distinct
destinations is part of `Init`; it holds because each phi has a value of its own.

The inductive invariant is
`TypeOK /\ NoLostValue /\ PhiSemantics /\ Settled /\ FrameIsFinal`. `NoLostValue`
alone is not inductive: it says each pending copy will still find the value it
should deliver. `Settled` adds what has been delivered: every value that no pending
copy writes already has its final content. Together they give
`PhiSemantics` when the list is empty. For `EmitSafe` the argument is that the
overwritten value is read by no pending copy; for `BreakCycle`, that no value is
overwritten. `TempsOnlyBreakCycles` is a counting argument: when no copy is safe,
every destination is also a source, destinations are distinct, so sources and
destinations are the same set and each source has one reader.

`TempsArePrivate` needs to know of the copies still pending what it says of the code: a
temporary one of them will read has been written for the same block (`SavedBefore`). That two
blocks do not share one is the counter's doing. `CyclesCostOneTemp` counts.
A cycle of the copies a block began with is *intact* while all its copies are
pending as they were. `CycleInv` says that the temporaries spent and the intact cycles make up
all cycles. Emitting a safe copy breaks no cycle, because in a cycle each
destination is read by the next copy. Saving a source breaks exactly one: no copy is safe
then, so the pending copies are a permutation and the one saved lies on a cycle, whose members
following the sources must return to it (by the pigeonhole principle). After the drain no copy is pending
and none is intact.

### The virtual machine's variables

`VMClosuresProofs` proves of every behaviour of `VMClosures!Spec`, for any compiled
functions with any frames and captures and any values of the bounds:

- `TypesHold`: every reference among stack, frames, closures and upvalues is to
  something that exists;
- `ValuesAreKept`: slots and upvalues hold what was last stored to their variable,
  while its activation lives, during its return and after it;
- `UpvaluesAreShared`, `OpenUpvaluesAreLocals` and `ClosedWhenDead`, the three
  invariants the run checks of the list of open upvalues.

Assumed is `ProtosAssumption`, what closure analysis puts into a function: there are
no more parameters than locals, and a capture names a local or an upvalue the parent
has. `ValuesAreKept` is not inductive. A store through an upvalue reaches its
variable and no other only if the upvalue points into the activation that declared it
(`Owned`), the locals of different frames are different slots (`Stacked`), and the
variable has no second upvalue, open or closed (`OneUpvaluePerVariable`). The last is
kept by `CaptureLocal` because its search goes through exactly the upvalues that are
not closed (`Listed`) and because no variable of a live activation has a closed one
except while that activation returns (`Dead`). `PopFrame` keeps `Owned` because the
loop before it has left no open upvalue of the frame behind `at` (`InLoop`), although
it moves the last entry into the place of each it removes.

`VMClosuresRefinement` proves `VariablesAreCells`, that every behaviour of `VMClosures`
is one of `ClosureCells` under the mapping of `ImplementsCells`: an instruction is the step
of the language it is meant to be, and the turns of the machine's loops are stutters except the
one that completes what they are for. For this the invariants of `VMClosuresProofs` are
not enough, since a closure is made and a call returns in many steps. `Prepared` adds what
holds in between: the upvalues put into a half-made closure are those of the variables
its captures name, in their order (`Filling`), and a return under way still has its value (`Returning`). A load
or a store is then the one the language makes because `ValuesAreKept` says the slot
or the upvalue holds the variable's value, and a capture finds the variable because an
upvalue leads to one variable only.

### The module loader

`ModuleLoaderProofs` proves of every behaviour of `ModuleLoader!Spec`, for any finite
set of files with any texts and any order in which the maps are iterated:

- `TypesHold`, `NoInternalError`: the errors "should never happen" never do;
- `DependenciesComeFirst`: each module is in the declaration order once, after all
  its imports; `InitialisersRunInOrder`: start-up follows that order and leaves none out;
- `VerdictHolds`: what is started is well formed, and the loader and the linker
  reject no well-formed program.

Assumed is `ModuleLoaderAssumption`: files are finitely many, a file that is missing
or malformed is not one that has a text, and a text is a sequence of imports.
The inductive invariant adds to the properties: what is stored was asked for and what
was asked for is stored or queued (`Collected`); whatever set holds the entry and all
imports of its members holds what is loaded (`Needed`); what the two marks of the
search say of the order and of the active path (`Marked`), which is a chain of
imports without repetition (`OnPath`); ranks fall along it (`Ranked`), so that a
circle can be reported only where a program has none; and how far linking and
start-up are (`Linked`, `Started`). That a program which starts has ranks is shown
with the places of its modules in the declaration order. That files are finite is
needed only to know that the ranks of a well-formed program are numbers.

### From source to native code

`NativeRunProofs` proves, for any dialects, so for programs of any length and nesting
over any variables:

- `BuilderInvariant`, and from it `EdgesMatch`: the edges that dominance and phis are computed
  from are those the terminators take, once for each time they take them, at both ends, and
  the phi of a short circuit has an operand for each block it is entered from;
- `DominatorInvariant`, and from it `DominanceIsExact`: when the iteration ends, a block
  dominates exactly what no path reaches without it;
- `TypesHold`: through building, the insertion of phis, renaming and the runs, edges lead to
  blocks, blocks have ended, every jump of the source leads to a token or past the last, and
  the run of the source evaluates only what is there.

Assumed are `ControlFlowAssumption`, that there are finitely many names, none of them the one that says
"no variable", and what a dialect is; and `TicksAssumption`, that
the parameters have different values to begin with.

`EdgesMatch` is not inductive while a function is being built, because statements fill blocks
an enclosing construct has made and will come back to. `BuilderInv` adds what they
leave alone: the blocks an open construct will jump to or fill exist (`TargetsAwait`)
and have no phi, whose operands a further predecessor would make incomplete; and only the block being
filled and those an open construct still has to fill are without a terminator
(`OnlyUnfilledAreOpen`). The lemmas about `lower` show that an expression, whatever
blocks it makes, ends in an open one and gives none but its own a terminator or an edge
(`Extends`); those about statements, that they advance the function likewise (`Advances`).

`DominatorInv` has two halves. What has been taken away from `dom[b]` was taken away
for a reason: a path reaches `b` without it (`RuledOutAreReached`). And once a sweep has
changed nothing, every block has just the dominators its predecessors give it (`Settled`),
so that no path to `b` avoids what is still in `dom[b]`. The first
needs no end of the iteration and the second no order of the blocks. `ReachedIsLeast` relates
both to paths: what `ReachedWithout` computes in as many rounds as there are blocks is the least set
that has the entry and follows every edge.

`TypesHold` rests on three more invariants: `ShapeInv`, which renaming keeps since it
replaces code and operands and nothing of the graph; `LinksInv`, that `else`, the ends of
constructs, `break` and `continue` are linked to a token that opened a construct; and
`SourceTypes`, of which the delicate part is `deep`: it is 1 or 2 only inside a short circuit that
has so many right operands, and 0 as soon as a value is there.

### Scope and dominance

`ScopeProofs` proves `ScopeInvariant`: in the function that is handed to dominators and
phis, a variable an instruction or a terminator reads has a definition earlier in the block or
in a block that dominates it, an operand of a phi one that dominates the predecessor
it comes from, and every block is reached from the entry. The code relies on all three: `rename`
looks a variable up on its stack without asking whether it is empty.

Dominance is taken as what it is for paths, `Dominates(f, d, b)`: `b` is not in the
least set that has the entry and follows every edge but those into `d`. Transitivity, that no two
blocks dominate each other, and that the dominators of a block are in a line follow from the
set being least, with no induction over paths.

While the function is being built, `InBuild` says that each open construct has a head, the
block its condition was decided in (`Around`, `Headed`): the head dominates the block being filled,
the heads of inner constructs and the blocks the construct still has to fill, and what was
visible at the construct's first token reaches it. So the variables visible again after the construct
reach its merge block, whatever the branches did. An edge can take a
dominator away only from the block it leads to (`Keeps`); statements lead edges only to blocks still to fill, whose
code is empty, or back to the head of a loop. That is the case that needs care: the edge from the end of the
body leads to a block long filled, and takes no dominator from it because the head dominates the block
the edge comes from (`JumpDominance`). `Lowered` says the same of the blocks of
one expression, which are entered only through the block it begins in.

### Renaming

`RenamingProofs` takes it from there to the renamed function:

- `UsesFindDefinitions`: `rename` never comes to a use, or to an operand of a phi, with
  an empty stack for its variable;
- `ReferencesAreReplaced`: when it is done, no operand of an instruction, a terminator or
  a phi is a variable any more;
- `DefinitionsAreAbove`: the value in its place is made in a block that dominates the use,
  for the operand of a phi the end of the predecessor it comes from;
- `PhisSeparateDefinitions`: when `insertPhis` is done, two definitions of a variable
  never meet at a block without a phi for it: what such a block, with a definition above it, sees above any of
  its predecessors it sees above itself;
- `NearestIsOnTop`: whenever a call renames, the top of the stack of a variable is what
  the nearest block above that gives the variable a value gave it last.

All but `PhisSeparateDefinitions` follow from `RenamingInvariant`, in whose argument four things come together:

1. *The function.* `CodeKnown` says of it what `ScopeInv` says of paths in terms of `dom`: a
   variable an operand names has a definition above the use, and a value an operand holds is
   made above it. The phis `insertPhis` puts first keep that, because it inserts only
   those whose operands every predecessor has (`InsertPhisPutsPhisFirst`), and so does
   replacing operands by such values (`ReplacedIsKnown`), so it is there for each block when its turn comes
   and, at the end, for `DefinitionsAreAbove`.
2. *The path.* The blocks of the active calls are the dominators of the last of them, in order
   (`OnPath`). `idom` finds the parent because the dominators of a block are in a line
   (`ParentExists`).
3. *The stacks.* Each call has a height per variable (`Heights`): as far up as that the stack of the
   variable holds values made above the block of the call, and where the block defines the variable
   it is not empty. A call adds what it counts in `pushed`, so undoing as many pops on return
   leaves the heights of the caller. At its height each entered call has on top what its block
   gave last, and a call whose block gives a variable nothing has pushed nothing for it (`Tops`); so
   the top is that of the last call whose block gives one (`NearestGivesTop`). `renamed` is a recursive function over
   the instructions of a block; `RenamesBlock` unfolds it by induction over sets (`SetInduction`).
4. *The rest.* A block is `Finished` when nothing it uses, and nothing a phi takes from it, is a variable.
   One that is not has a block above it that is still to be entered: a child some call has left,
   or the block of a call that has not begun (`Covered`). Entering a block hands what
   it covered to its children (`ChildDominates`); when the first call returns nothing is left.

`PhisSeparateDefinitions` has an invariant of its own, on the worklist of `insertPhis`: a block that
gives a variable a value and is not on the worklist has the whole of its dominance frontier in
`phiBlocks` (`FrontiersCovered`). A block enters `phiBlocks` and the worklist together, so when the worklist is empty
the frontiers of the phis are covered too. A block above a predecessor but not above the block itself
has that block in its frontier, so a phi is wanted there (`MeetingIsWanted`). `insertPhis` drops a
phi when some predecessor has no definition, as for a variable declared inside a loop; where the block has
a definition above it, so has each predecessor, and the phi is put (`InsertPhisMerges`). Renaming replaces
operands and moves no phi (`ReplacedMerges`).

TLC has seen each part of both invariants on the states of `native_run` before it was proved.

### What the proofs share

`SequenceFacts` has what they use of sequences: what appending, taking the front and
the tail do to what a sequence holds. It also has the inductions the proofs cannot do without. The
induction rules of the library take an operator as a parameter, which the provers used
here do not instantiate; `SetInduction` is the one over sets of numbers, and from it follow
least and greatest elements (`LeastNatural`, `GreatestNatural`), that iterating a function
defines a sequence (`IterationExists`) and that a set inside a finite one cannot
grow for ever (`GrowthStops`).

### Model-checked only

- Both `Terminates` and `EveryRunEnds`, which are liveness.
- Everything about the parser and the passes of `Pipeline`: their modules use RECURSIVE operators
  on trees, which the prover does not take.
- `RunsAgree` of `NativeRun`: that the renamed function does what its source does. What is proved
  is the part of SSA in it: a use reads the nearest definition above it, and no other definition
  comes in between without a phi. What is left is that the blocks are a translation of the
  tokens, expression by expression, and it holds only of the dialects the runs give: two of the
  findings are functions outside them.

## 7. Findings

Each is shown by a run that TLC ends with a counterexample.

1. **An assertion on unreachable continuations** (`native_assert`). The merge block
   of an `if` that leaves in both branches has no predecessor; `computeDoms`
   asserts that every block has one.
2. **`x++` yields the new value** (`native_increment`) when its value is used after
   the increment, for a local variable: the operand is a reference, resolved late.
3. **A file that ends inside an expression is parsed for ever** (`source_unfinished`).
   At the end of the file `advance` hands out the last token again; where that token
   opens an operand (`-`, `(`, `[`), `parse_prefix` calls itself on it until the stack is full.
4. **Parameters get each other's arguments** (`pipeline_arguments`): `CALL` takes the
   first value pushed as the first parameter, and the compiler pushes the last argument first.
5. **A declared function leaves a closure behind** (`pipeline_leftovers`). `visit(FunctionExpr)`
   ends with `MAKE_CLOSURE` (`compiler.cpp` 410), and the loop over hoisted functions makes
   a second one to store and pops that (348). The first lies under the temporaries of the
   frame until it returns; "Every statement must leave NO value on the stack" (`vm.cpp` 155).
   Functions declared in methods are spared: there the second is not made.
6. **A variable cannot be given a value again, or late** (`pipeline_reassigned`).
   `visit(Assignment)` visits the variable assigned to as if it were read
   (`ReferenceChecker.cpp` 163), so it must be available; the plan allows "Reinitializing a moved
   mutable variable" (`docs/ownership-daily-plan.md` 119), and the checker itself recommends
   `var` "for deferred assignment" (200).

A known limitation shows in `ModuleLoader` as well, and is no finding because the documents
disagree among themselves. `Resolver` accepts `alias::x` only after it has visited the module that
declares `x`, and visits modules in the order of an `unordered_map` (`Compiler/main.cpp` 489), so
whether such a program compiles depends on hash order. The repository's `README.md` 93 and
`MODULES.md` 14 say that imported variables do not work yet; `Examples/ModuleShowcase/README.md` 3
has "exported globals" among what it exercises. `module_loader` has files that read one, and
`VerdictIsRight` sets this error apart.

`RunsAgree` in `native_run` is checked on programs that use neither the value of
an increment nor that of an assignment as a right-hand side, because of 2 and because
`y = (x = e)` loses the inner assignment: the producing instruction has room for
one defined variable (`IRBuilder.cpp` 2015).
`native_assert` shows behaviours that `native_run` also contains, where they end
in the phase `assertion failed`.

## 8. Not modelled

- In modelled parts: globals, captured variables, calls and
  aggregates in HIR; the environment layout of `ClosureAnalyser`, which only
  the native back end reads; strings, doubles, record literals, enums, aliases, pointers, shared and
  nullable types, imports and native functions in the passes; the JSON front end
  and the output paths of the driver.
- Steps H to J of section 2: closures of the native back end, x86 code generation, C runtime.
- Not planned: printing and JSON output (formatting only), the legacy interpreter and
  `Core/parser.cpp` (not part of `kmyc`), native functions (functions of single values).

The dialects of `pipeline` keep away from programs on which the code is known to do
something else than the language would, or for which nothing says what it
should do; `RunsAgree` says nothing of them:

- calls with two arguments or more (finding 4), and side effects in several
  operands of one call or literal, which the reversed order makes visible;
- `&&` and `||` whose right operand has an effect: the machine evaluates both;
- variables declared without an initialiser in a loop, or captured by a function and declared
  in a loop: the slot keeps the last iteration's value or upvalue;
- assignments to a variable that was moved or has no value yet (finding 6);
- compound assignments to a place with an effect, which is evaluated twice, or to booleans;
- two names for one instance (`let x = this`), equality of instances, records inside
  records, a method as a value, a method call in a field initialiser, a closure in a
  constructor, methods called with too many arguments, fields that are never set;
- a function whose `return` has another type than it declares: no pass compares them;
- `break` in a function declared in a loop: `loopDepth` is not reset;
- a hoisted function called before a `let` it reads, or that makes an instance of a class compiled later;
- moves in loops and inside functions: availability is restored when a function is left;
- values of type `any` called; `return` outside a function.

The closures hoisting leaves behind (finding 5) are in every run with declared functions.
`CodeIsBalanced` shows that the statements of a function add nothing to them, and `StackDiscipline`
that a file which declares no function at its top, only function values, methods and
constructors, ends with its variables alone.
