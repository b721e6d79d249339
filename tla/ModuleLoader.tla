---------------------------- MODULE ModuleLoader ----------------------------
(***************************************************************************)
(* How kmyc's main() collects, orders and initialises the modules of a     *)
(* program (Compiler/main.cpp): the queue that loads every imported file,  *)
(* the depth-first search that rejects import cycles and leaves modules in *)
(* dependency order, the linking of aliases, the resolver pass over every  *)
(* module, and the initialisers the native entry function calls.           *)
(*                                                                         *)
(* A module's text is abstracted to its import declarations; `reads' says  *)
(* whether its top-level code reads a variable through the alias           *)
(* (alias::x).  Iterating an unordered_map visits its entries in any order.*)
(***************************************************************************)
EXTENDS Integers, FiniteSets, Sequences, SequencesExt

CONSTANTS
  Files,       \* normalised paths of the files that exist and parse
  Malformed,   \* paths of files that exist and do not parse
  Missing,     \* paths of files that do not exist
  Aliases,
  Entry,       \* the path on the command line
  Texts        \* the texts a file may have: sequences of import declarations

Paths == Files \union Malformed \union Missing
ImportDecls == [path : Paths, alias : Aliases, reads : BOOLEAN]

ASSUME ModuleLoaderAssumption ==
  /\ Entry \in Paths
  /\ IsFiniteSet(Files)
  /\ Files \intersect (Malformed \union Missing) = {}
  /\ Malformed \intersect Missing = {}
  /\ Texts \subseteq Seq(ImportDecls)

VARIABLES
  importDecls,       \* what each file declares, paths resolved
  phase,             \* the pass main() is in, or how it ended
  error,             \* the message it ended with
  importQueue,
  moduleStates,      \* path -> "LOADING" or "LOADED", for the paths it has
  modules,           \* the paths stored in the map
  unvisited,         \* entries the current loop over the map has not reached
  dfs,               \* active calls of checkCycles: [path, next]
  declarationOrder,
  imports,           \* linked modules: alias -> path
  available,         \* modules whose variables the resolver has seen declared
  initialised        \* modules whose top-level code has run, in order

vars == <<importDecls, phase, error, importQueue, moduleStates, modules, unvisited,
          dfs, declarationOrder, imports, available, initialised>>
input == importDecls
loading == <<importQueue, modules>>
search == <<moduleStates, dfs, declarationOrder>>
later == <<imports, available, initialised>>

NoError == ""

Init ==
  /\ importDecls \in [Files -> Texts]
  /\ phase = "load"
  /\ error = NoError
  /\ importQueue = <<Entry>>
  /\ moduleStates = << >>
  /\ modules = {}
  /\ unvisited = {}
  /\ dfs = << >>
  /\ declarationOrder = << >>
  /\ imports = << >>
  /\ available = {}
  /\ initialised = << >>

Known(p) == p \in DOMAIN moduleStates
SetState(p, s) == moduleStates' = [q \in DOMAIN moduleStates \union {p} |->
                                     IF q = p THEN s ELSE moduleStates[q]]
DeclaredPaths(m) == [i \in DOMAIN importDecls[m] |-> importDecls[m][i].path]
Fail(message) == /\ phase' = "failed"
                 /\ error' = message
Begin(p) == /\ phase' = p
            /\ unvisited' = modules

-----------------------------------------------------------------------------
(* The loading queue.                                                      *)
SkipQueuedKeepsIt ==
  /\ phase = "load"
  /\ importQueue # << >>
  /\ Known(Head(importQueue))
  /\ importQueue' = importQueue
  /\ UNCHANGED <<input, phase, error, modules, unvisited, search, later>>

SkipQueued ==
  /\ phase = "load"
  /\ importQueue # << >>
  /\ Known(Head(importQueue))
  /\ importQueue' = Tail(importQueue)
  /\ UNCHANGED <<input, phase, error, modules, unvisited, search, later>>

OpenFails ==
  /\ phase = "load"
  /\ importQueue # << >>
  /\ ~Known(Head(importQueue))
  /\ Head(importQueue) \in Missing
  /\ importQueue' = Tail(importQueue)
  /\ SetState(Head(importQueue), "LOADING")
  /\ Fail("Could not open file")
  /\ UNCHANGED <<input, modules, unvisited, dfs, declarationOrder, later>>

\* The lexer or the parser throws.
ParseFails ==
  /\ phase = "load"
  /\ importQueue # << >>
  /\ ~Known(Head(importQueue))
  /\ Head(importQueue) \in Malformed
  /\ importQueue' = Tail(importQueue)
  /\ SetState(Head(importQueue), "LOADING")
  /\ Fail("Syntax error")
  /\ UNCHANGED <<input, modules, unvisited, dfs, declarationOrder, later>>

\* The module is stored without being marked.
LoadModuleUnmarked ==
  /\ phase = "load"
  /\ importQueue # << >>
  /\ LET path == Head(importQueue)
     IN  /\ ~Known(path)
         /\ path \in Files
         /\ IF path \in modules
            THEN /\ Fail("Module was collected more than once")
                 /\ importQueue' = Tail(importQueue)
                 /\ UNCHANGED modules
            ELSE /\ modules' = modules \union {path}
                 /\ importQueue' = Tail(importQueue) \o DeclaredPaths(path)
                 /\ UNCHANGED <<phase, error>>
  /\ UNCHANGED <<input, unvisited, search, later>>

\* Read, parse, store, and queue what the module imports.
LoadModule ==
  /\ phase = "load"
  /\ importQueue # << >>
  /\ LET path == Head(importQueue)
     IN  /\ ~Known(path)
         /\ path \in Files
         /\ IF path \in modules
            THEN /\ Fail("Module was collected more than once")
                 /\ importQueue' = Tail(importQueue)
                 /\ SetState(path, "LOADING")
                 /\ UNCHANGED modules
            ELSE /\ modules' = modules \union {path}
                 /\ importQueue' = Tail(importQueue) \o DeclaredPaths(path)
                 /\ SetState(path, "LOADED")
                 /\ UNCHANGED <<phase, error>>
  /\ UNCHANGED <<input, unvisited, dfs, declarationOrder, later>>

\* The state map is cleared and reused by the cycle check.
FinishLoading ==
  /\ phase = "load"
  /\ importQueue = << >>
  /\ moduleStates' = << >>
  /\ Begin("check cycles")
  /\ UNCHANGED <<input, error, loading, dfs, declarationOrder, later>>

-----------------------------------------------------------------------------
(* checkCycles: a depth-first search from every module.                    *)
Call(path) ==
  /\ SetState(path, "LOADING")
  /\ dfs' = Append(dfs, [path |-> path, next |-> 1])
ReturnedPastTwo(calls) ==
  IF calls = << >> THEN calls
                   ELSE [calls EXCEPT ![Len(calls)].next = @ + 2]
Returned(calls) ==
  IF calls = << >> THEN calls
                   ELSE [calls EXCEPT ![Len(calls)].next = @ + 1]

CheckRoot(m) ==
  /\ phase = "check cycles"
  /\ dfs = << >>
  /\ m \in unvisited
  /\ unvisited' = unvisited \ {m}
  /\ IF Known(m) THEN UNCHANGED <<moduleStates, dfs>> ELSE Call(m)
  /\ UNCHANGED <<input, phase, error, loading, declarationOrder, later>>

Caller == Last(dfs)
Target == importDecls[Caller.path][Caller.next].path
AtImport == /\ phase = "check cycles"
            /\ dfs # << >>
            /\ Caller.next <= Len(importDecls[Caller.path])

VisitImport ==
  /\ AtImport
  /\ ~Known(Target)
  /\ IF Target \in modules
     THEN /\ Call(Target)
          /\ UNCHANGED <<phase, error>>
     ELSE /\ Fail("Imported module was not collected")
          /\ UNCHANGED <<moduleStates, dfs>>
  /\ UNCHANGED <<input, loading, unvisited, declarationOrder, later>>

\* A module still on the active path counts as done.
ImportMarked ==
  /\ AtImport
  /\ Known(Target)
  /\ dfs' = Returned(dfs)
  /\ UNCHANGED <<input, phase, error, loading, unvisited, moduleStates, declarationOrder, later>>

ImportDone ==
  /\ AtImport
  /\ Known(Target)
  /\ moduleStates[Target] = "LOADED"
  /\ dfs' = Returned(dfs)
  /\ UNCHANGED <<input, phase, error, loading, unvisited, moduleStates, declarationOrder, later>>

CircularImport ==
  /\ AtImport
  /\ Known(Target)
  /\ moduleStates[Target] = "LOADING"
  /\ Fail("Circular import")
  /\ UNCHANGED <<input, loading, unvisited, search, later>>

LeaveModuleStillLoading ==
  /\ phase = "check cycles"
  /\ dfs # << >>
  /\ Caller.next > Len(importDecls[Caller.path])
  /\ declarationOrder' = Append(declarationOrder, Caller.path)
  /\ dfs' = Returned(Front(dfs))
  /\ UNCHANGED <<input, phase, error, loading, unvisited, moduleStates, later>>

\* Postorder: the module follows everything it imports.
LeaveModule ==
  /\ phase = "check cycles"
  /\ dfs # << >>
  /\ Caller.next > Len(importDecls[Caller.path])
  /\ SetState(Caller.path, "LOADED")
  /\ declarationOrder' = Append(declarationOrder, Caller.path)
  /\ dfs' = Returned(Front(dfs))
  /\ UNCHANGED <<input, phase, error, loading, unvisited, later>>

FinishCheck ==
  /\ phase = "check cycles"
  /\ dfs = << >>
  /\ unvisited = {}
  /\ Begin("link")
  /\ UNCHANGED <<input, error, loading, search, later>>

-----------------------------------------------------------------------------
(* Linking, resolving, and running the initialisers.                       *)
DuplicateAlias(m) ==
  \E i, j \in DOMAIN importDecls[m] : i < j /\ importDecls[m][i].alias = importDecls[m][j].alias
LinkedImports(m) ==
  [a \in {importDecls[m][i].alias : i \in DOMAIN importDecls[m]} |->
     LET i == CHOOSE i \in DOMAIN importDecls[m] : importDecls[m][i].alias = a
     IN  importDecls[m][i].path]

Link(m) ==
  /\ phase = "link"
  /\ m \in unvisited
  /\ IF DuplicateAlias(m)
     THEN /\ Fail("Duplicate import alias")
          /\ UNCHANGED <<unvisited, imports>>
     ELSE /\ imports' = [q \in DOMAIN imports \union {m} |->
                           IF q = m THEN LinkedImports(m) ELSE imports[q]]
          /\ unvisited' = unvisited \ {m}
          /\ UNCHANGED <<phase, error>>
  /\ UNCHANGED <<input, loading, search, available, initialised>>

FinishLinking ==
  /\ phase = "link"
  /\ unvisited = {}
  /\ Begin("resolve")
  /\ UNCHANGED <<input, error, loading, search, later>>

\* alias::x names a variable of the imported module once the resolver has
\* visited its declaration there.
UnresolvedRead(m) ==
  \E i \in DOMAIN importDecls[m] :
    importDecls[m][i].reads /\ imports[m][importDecls[m][i].alias] \notin available

Resolve(m) ==
  /\ phase = "resolve"
  /\ m \in unvisited
  /\ IF UnresolvedRead(m)
     THEN /\ Fail("No imported value or type")
          /\ UNCHANGED <<unvisited, available>>
     ELSE /\ available' = available \union {m}
          /\ unvisited' = unvisited \ {m}
          /\ UNCHANGED <<phase, error>>
  /\ UNCHANGED <<input, loading, search, imports, initialised>>

FinishResolving ==
  /\ phase = "resolve"
  /\ unvisited = {}
  /\ phase' = "run"
  /\ UNCHANGED <<input, error, loading, unvisited, search, later>>

EntryPosition ==
  CHOOSE i \in DOMAIN declarationOrder :
    declarationOrder[i] = Entry /\ \A j \in 1 .. i - 1 : declarationOrder[j] # Entry

UpToEntry == SubSeq(declarationOrder, 1, EntryPosition)

\* dependencyInitializers: what precedes the entry module in declaration order.
DependencyInitializers == SubSeq(declarationOrder, 1, EntryPosition - 1)
StartupCode == Append(DependencyInitializers, Entry)

\* The entry function calls each initialiser, then runs its own statements.
RunInitializer ==
  /\ phase = "run"
  /\ Len(initialised) < Len(StartupCode)
  /\ initialised' = Append(initialised, StartupCode[Len(initialised) + 1])
  /\ UNCHANGED <<input, phase, error, loading, unvisited, search, imports, available>>

Exit ==
  /\ phase = "run"
  /\ Len(initialised) = Len(StartupCode)
  /\ phase' = "done"
  /\ UNCHANGED <<input, error, loading, unvisited, search, later>>

Next ==
  \/ SkipQueued
  \/ OpenFails
  \/ ParseFails
  \/ LoadModule
  \/ FinishLoading
  \/ \E m \in Files : CheckRoot(m)
  \/ VisitImport
  \/ ImportDone
  \/ CircularImport
  \/ LeaveModule
  \/ FinishCheck
  \/ \E m \in Files : Link(m) \/ Resolve(m)
  \/ FinishLinking
  \/ FinishResolving
  \/ RunInitializer
  \/ Exit

Spec == Init /\ [][Next]_vars

\* main() runs to its end on one thread.
FairSpec == Spec /\ WF_vars(Next)

(***************************************************************************)
(* Properties.                                                             *)
(***************************************************************************)
States == {"LOADING", "LOADED"}

\* The maps hold files only, each active call of checkCycles is inside the
\* imports of its module, and a message is kept exactly when main() failed.
TypeOK ==
  /\ importDecls \in [Files -> Texts]
  /\ phase \in {"load", "check cycles", "link", "resolve", "run", "done", "failed"}
  /\ error # NoError <=> phase = "failed"
  /\ importQueue \in Seq(Paths)
  /\ DOMAIN moduleStates \subseteq Paths
  /\ \A p \in DOMAIN moduleStates : moduleStates[p] \in States
  /\ modules \subseteq Files
  /\ unvisited \subseteq modules
  /\ dfs \in Seq([path : modules, next : Nat])
  /\ \A k \in DOMAIN dfs : dfs[k].next \in 1 .. Len(importDecls[dfs[k].path]) + 1
  /\ declarationOrder \in Seq(modules)
  /\ DOMAIN imports \subseteq modules
  /\ available \subseteq modules
  /\ initialised \in Seq(modules)

\* "The queue only collects each physical path once", and an import that was
\* queued has been collected by the time the graph is searched: the loader's two
\* internal errors cannot happen.
InternalErrorsUnreachable ==
  error \notin {"Module was collected more than once", "Imported module was not collected"}

FollowsImports(s) ==
  \A i \in DOMAIN s : \A k \in DOMAIN importDecls[s[i]] :
    \E j \in 1 .. i - 1 : s[j] = importDecls[s[i]][k].path
NoRepeats(s) == \A i, j \in DOMAIN s : s[i] = s[j] => i = j

\* Dependencies come before importers in the declaration order, on which slots,
\* declared types, function labels and initialisers all rely, and no module is
\* listed twice, whatever order the map is searched in.
DependencyOrder == FollowsImports(declarationOrder) /\ NoRepeats(declarationOrder)

\* Start-up runs each module's top-level code exactly once, after that of every
\* module it imports and the entry module last (MODULES.md, module initialization).
InitialisedInOrder ==
  /\ FollowsImports(initialised)
  /\ NoRepeats(initialised)
  /\ phase = "done" => {initialised[i] : i \in DOMAIN initialised} = modules

\* A program is well formed when what it imports exists, has distinct aliases and
\* can be ranked so that every module ranks above its imports.
Closed(ms) ==
  Entry \in ms /\ \A m \in ms : \A k \in DOMAIN importDecls[m] : importDecls[m][k].path \in ms
Ranks(ms, rank) ==
  \A m \in ms : \A k \in DOMAIN importDecls[m] : rank[importDecls[m][k].path] < rank[m]
WellFormed ==
  \E ms \in SUBSET Files :
    /\ Closed(ms)
    /\ \A m \in ms : ~DuplicateAlias(m)
    /\ \E rank \in [ms -> 1 .. Cardinality(ms)] : Ranks(ms, rank)

\* The verdict depends on the import graph and not on the order the map is
\* searched in: a started program is well formed and a well-formed one is not
\* rejected by the loader (the resolver's errors aside).
VerdictIsRight ==
  /\ phase \in {"run", "done"} => WellFormed
  /\ phase = "failed" /\ error # "No imported value or type" => ~WellFormed

\* Loading ends although imports may form cycles and repeat, and so does the rest.
Terminates == <>(phase \in {"done", "failed"})
=============================================================================
