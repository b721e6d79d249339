------------------------- MODULE ModuleLoaderProofs -------------------------
(***************************************************************************)
(* The module loader is correct for every set of files, every text they    *)
(* may have and every order in which the map of modules is iterated.       *)
(***************************************************************************)
EXTENDS ModuleLoader, SequenceFacts, FiniteSetTheorems, TLAPS

-----------------------------------------------------------------------------
(* The inductive invariant.                                                *)
ImportsIt(m, path) == \E k \in DOMAIN importDecls[m] : importDecls[m][k].path = path
AfterCheck == {"link", "resolve", "run", "done"}

\* What is collected or queued was asked for, and what was asked for is collected
\* or queued as long as nothing failed.
Collected ==
  /\ \A m \in modules : m = Entry \/ \E n \in modules : ImportsIt(n, m)
  /\ \A i \in DOMAIN importQueue :
       importQueue[i] = Entry \/ \E n \in modules : ImportsIt(n, importQueue[i])
  /\ phase # "failed" => Entry \in modules \/ Holds(importQueue, Entry)
  /\ phase # "failed" =>
       \A n \in modules : \A k \in DOMAIN importDecls[n] :
         importDecls[n][k].path \in modules \/ Holds(importQueue, importDecls[n][k].path)
  /\ phase = "load" => DOMAIN moduleStates = modules
  /\ phase \notin {"load", "failed"} => importQueue = << >>

\* A set of files that holds the entry module and all imports of its members
\* holds whatever the loader meets.
Needed ==
  \A ms \in SUBSET Files : Closed(ms) =>
    /\ modules \subseteq ms
    /\ \A i \in DOMAIN importQueue : importQueue[i] \in ms

\* The states of the search: LOADING on the active path, LOADED in the order.
Searching ==
  /\ \A k \in DOMAIN dfs : dfs[k].path \in DOMAIN moduleStates /\ moduleStates[dfs[k].path] = "LOADING"
  /\ \A k \in DOMAIN declarationOrder :
       declarationOrder[k] \in DOMAIN moduleStates /\ moduleStates[declarationOrder[k]] = "LOADED"
  /\ \A p \in DOMAIN moduleStates : Holds(declarationOrder, p) \/ \E k \in DOMAIN dfs : dfs[k].path = p
  /\ modules \ unvisited \subseteq DOMAIN moduleStates

\* The search runs between the loading and the linking and reaches every module.
Marked ==
  /\ phase = "load" => dfs = << >> /\ declarationOrder = << >>
  /\ phase \in AfterCheck => dfs = << >>
  /\ phase = "check cycles" => Searching
  /\ phase \in AfterCheck => \A m \in modules : Holds(declarationOrder, m)

\* The active path: distinct modules, each at an import that is the next one on the
\* path, the imports before it done.
OnPath ==
  /\ \A i, j \in DOMAIN dfs : dfs[i].path = dfs[j].path => i = j
  /\ \A k \in DOMAIN dfs : \A j \in 1 .. dfs[k].next - 1 :
       Holds(declarationOrder, importDecls[dfs[k].path][j].path)
  /\ \A k \in 1 .. Len(dfs) - 1 :
       /\ dfs[k].next <= Len(importDecls[dfs[k].path])
       /\ importDecls[dfs[k].path][dfs[k].next].path = dfs[k + 1].path

\* Ranks fall along the active path, so it never comes back to itself in a program
\* that has them.
Ranked ==
  \A ms \in SUBSET Files : \A rank \in [ms -> Nat] :
    Closed(ms) /\ Ranks(ms, rank) =>
      \A i, j \in DOMAIN dfs : i < j => rank[dfs[j].path] < rank[dfs[i].path]

\* Linked modules have distinct aliases.
Linked ==
  /\ phase = "link" => \A m \in modules \ unvisited : ~DuplicateAlias(m)
  /\ phase \in {"resolve", "run", "done"} => \A m \in modules : ~DuplicateAlias(m)

\* The initialisers run so far are the first of the declaration order.
Started ==
  /\ phase \notin {"run", "done"} => initialised = << >>
  /\ Len(initialised) <= Len(declarationOrder)
  /\ \A i \in DOMAIN initialised : initialised[i] = declarationOrder[i]
  /\ phase = "done" => Len(initialised) = Len(declarationOrder)

\* A message means that the program is not well formed, the resolver's aside.
Rejected == phase = "failed" /\ error # "No imported value or type" => ~WellFormed

\* DependencyOrder is inductive only with the states and the path of the search, the
\* verdict only with what was asked for and the ranks.
IInv ==
  /\ TypeOK
  /\ InternalErrorsUnreachable
  /\ Collected
  /\ Needed
  /\ Marked
  /\ OnPath
  /\ DependencyOrder
  /\ Ranked
  /\ Linked
  /\ Started
  /\ Rejected

-----------------------------------------------------------------------------
(* Texts, states and the active path.                                      *)

\* The imports of a file name paths, and are queued in their order.
LEMMA ImportsArePaths ==
  ASSUME TypeOK, NEW m \in Files
  PROVE  /\ Len(importDecls[m]) \in Nat
         /\ DOMAIN importDecls[m] = 1 .. Len(importDecls[m])
         /\ \A k \in DOMAIN importDecls[m] : importDecls[m][k] \in ImportDecls
         /\ \A k \in DOMAIN importDecls[m] : importDecls[m][k].path \in Paths
         /\ DeclaredPaths(m) \in Seq(Paths)
         /\ \A x : Holds(DeclaredPaths(m), x) <=> ImportsIt(m, x)
<1>1. importDecls[m] \in Seq(ImportDecls)
  BY ModuleLoaderAssumption DEF TypeOK
<1>2. /\ Len(importDecls[m]) \in Nat
      /\ DOMAIN importDecls[m] = 1 .. Len(importDecls[m])
  BY <1>1, LenProperties
<1>3. \A k \in DOMAIN importDecls[m] : importDecls[m][k] \in ImportDecls
  BY <1>1, <1>2, ElementOfSeq
<1>4. \A k \in DOMAIN importDecls[m] : importDecls[m][k].path \in Paths
  BY <1>3 DEF ImportDecls
<1>5. DeclaredPaths(m) \in [1 .. Len(importDecls[m]) -> Paths]
  BY <1>2, <1>4 DEF DeclaredPaths
<1>6. DeclaredPaths(m) \in Seq(Paths)
  BY <1>2, <1>5, SeqDef
<1>7. \A x : Holds(DeclaredPaths(m), x) <=> ImportsIt(m, x)
  BY DEF Holds, ImportsIt, DeclaredPaths
<1> QED BY <1>2, <1>3, <1>4, <1>6, <1>7

\* Setting the state of a path leaves those of the others.
LEMMA StateIsSet ==
  ASSUME NEW p, NEW s, SetState(p, s)
  PROVE  /\ DOMAIN moduleStates' = DOMAIN moduleStates \union {p}
         /\ moduleStates'[p] = s
         /\ \A q \in DOMAIN moduleStates : q # p => moduleStates'[q] = moduleStates[q]
BY DEF SetState

ActiveCalls == [path : modules, next : Nat]

\* The call that checks imports is the last of the active ones, at an import or past them.
LEMMA CallerIsLast ==
  ASSUME TypeOK, dfs # << >>
  PROVE  /\ Len(dfs) \in Nat \ {0} /\ DOMAIN dfs = 1 .. Len(dfs)
         /\ Caller = dfs[Len(dfs)]
         /\ Caller.path \in modules /\ Caller.path \in Files
         /\ Caller.next \in 1 .. Len(importDecls[Caller.path]) + 1
<1>1. dfs \in Seq(ActiveCalls)
  BY DEF TypeOK, ActiveCalls
<1>2. /\ Len(dfs) \in Nat \ {0} /\ DOMAIN dfs = 1 .. Len(dfs)
      /\ Last(dfs) = dfs[Len(dfs)] /\ Last(dfs) \in ActiveCalls
  BY <1>1, FrontIsPrefix
<1>3. modules \subseteq Files /\ \A k \in DOMAIN dfs : dfs[k].next \in 1 .. Len(importDecls[dfs[k].path]) + 1
  BY DEF TypeOK
<1>4. Caller = dfs[Len(dfs)] /\ Caller.path \in modules /\ Len(dfs) \in DOMAIN dfs
  BY <1>2 DEF Caller, ActiveCalls
<1> QED BY <1>2, <1>3, <1>4

\* A return moves the caller to its next import and leaves the other calls.
LEMMA ReturnMovesCaller ==
  ASSUME NEW calls \in Seq(ActiveCalls)
  PROVE  /\ Returned(calls) \in Seq(ActiveCalls)
         /\ Len(Returned(calls)) = Len(calls)
         /\ DOMAIN Returned(calls) = DOMAIN calls
         /\ \A k \in DOMAIN calls : Returned(calls)[k].path = calls[k].path
         /\ \A k \in DOMAIN calls :
              Returned(calls)[k].next = IF k = Len(calls) THEN calls[k].next + 1 ELSE calls[k].next
         /\ calls # << >> => Returned(calls) # << >>
<1>1. CASE calls = << >>
  <2>1. DOMAIN calls = {}
    BY <1>1, LenProperties, EmptySeq
  <2> QED BY <1>1, <2>1 DEF Returned
<1>2. CASE calls # << >>
  <2> DEFINE n == Len(calls)
             last == [calls[n] EXCEPT !.next = @ + 1]
  <2>1. /\ n \in Nat \ {0} /\ DOMAIN calls = 1 .. n
        /\ n \in 1 .. n
        /\ \A k \in 1 .. n : calls[k] \in ActiveCalls
    BY <1>2, FrontIsPrefix, ElementOfSeq
  <2>2. /\ last \in ActiveCalls
        /\ last.path = calls[n].path
        /\ last.next = calls[n].next + 1
    BY <2>1 DEF ActiveCalls
  <2>3. Returned(calls) = [calls EXCEPT ![n] = last]
    BY <1>2 DEF Returned
  <2>4. /\ Returned(calls) \in Seq(ActiveCalls)
        /\ Len(Returned(calls)) = n
        /\ \A k \in 1 .. n : Returned(calls)[k] = IF k = n THEN last ELSE calls[k]
    <3> HIDE DEF last
    <3> QED BY <2>1, <2>2, <2>3, ExceptSeq
  <2>5. DOMAIN Returned(calls) = 1 .. n
    BY <2>4, LenProperties
  <2>6. Returned(calls) # << >>
    BY SMTT(30), <2>1, <2>4, EmptySeq
  <2> QED BY <2>1, <2>2, <2>4, <2>5, <2>6
<1> QED BY <1>1, <1>2

\* Everything else is imported by something, so the entry module is last in the
\* declaration order, and the start-up code is that order.
LEMMA StartupIsOrder ==
  ASSUME TypeOK, Collected, Marked, DependencyOrder, phase \in {"run", "done"}
  PROVE  StartupCode = declarationOrder
<1> DEFINE s == declarationOrder
           n == Len(s)
<1>1. /\ s \in Seq(modules)
      /\ n \in Nat /\ DOMAIN s = 1 .. n
      /\ \A i \in 1 .. n : s[i] \in modules
  BY LenProperties, ElementOfSeq DEF TypeOK
<1>2. /\ importQueue = << >>
      /\ Entry \in modules \/ Holds(importQueue, Entry)
      /\ \A m \in modules : m = Entry \/ \E m2 \in modules : ImportsIt(m2, m)
      /\ \A m \in modules : Holds(s, m)
  BY DEF Collected, Marked, AfterCheck
<1>3. /\ \A i \in 1 .. n : \A k \in DOMAIN importDecls[s[i]] :
           \E j \in 1 .. i - 1 : s[j] = importDecls[s[i]][k].path
      /\ \A i, j \in 1 .. n : s[i] = s[j] => i = j
  BY <1>1 DEF DependencyOrder, FollowsImports, NoRepeats
<1>4. Entry \in modules
  <2>1. << >> \in Seq(Paths) /\ Len(<< >>) = 0
    BY EmptySeq
  <2>2. DOMAIN importQueue = 1 .. 0
    BY <1>2, <2>1, LenProperties
  <2>3. 1 .. 0 = {}
    OBVIOUS
  <2> QED BY <1>2, <2>2, <2>3 DEF Holds
<1>5. n \in 1 .. n /\ s[n] = Entry
  <2>1. PICK e \in 1 .. n : s[e] = Entry
    BY <1>1, <1>2, <1>4 DEF Holds
  <2>2. n \in 1 .. n
    BY <1>1, <2>1
  <2>3. ASSUME s[n] # Entry
        PROVE  FALSE
    <3>1. PICK m \in modules : ImportsIt(m, s[n])
      BY <1>1, <1>2, <2>2, <2>3
    <3>2. PICK k \in DOMAIN importDecls[m] : importDecls[m][k].path = s[n]
      BY <3>1 DEF ImportsIt
    <3>3. PICK i \in 1 .. n : s[i] = m
      BY <1>1, <1>2, <3>1 DEF Holds
    <3>4. PICK j \in 1 .. i - 1 : s[j] = s[n]
      BY ZenonT(60), <1>3, <3>2, <3>3
    <3>5. j \in 1 .. n /\ j < n
      BY <1>1, <3>3, <3>4
    <3> QED BY <1>3, <2>2, <3>4, <3>5
  <2> QED BY <2>2, <2>3
<1>6. EntryPosition = n
  <2>1. \A i \in DOMAIN s : (s[i] = Entry /\ \A j \in 1 .. i - 1 : s[j] # Entry) <=> i = n
    <3>1. \A j \in 1 .. n - 1 : s[j] # Entry
      BY <1>1, <1>3, <1>5
    <3>2. \A i \in DOMAIN s : s[i] = Entry => i = n
      BY <1>1, <1>3, <1>5
    <3> QED BY <1>1, <1>5, <3>1, <3>2
  <2> QED BY <1>1, <1>5, <2>1 DEF EntryPosition
<1>7. /\ SubSeq(s, 1, n - 1) \in Seq(modules)
      /\ Len(SubSeq(s, 1, n - 1)) = n - 1
      /\ \A i \in 1 .. n - 1 : SubSeq(s, 1, n - 1)[i] = s[i]
  <2>1. s # << >>
    BY <1>1, <1>5, EmptySeq
  <2> QED BY <1>1, <2>1, FrontIsPrefix DEF Front
<1> DEFINE front == SubSeq(s, 1, n - 1)
<1>8. StartupCode = Append(front, Entry)
  BY <1>6 DEF StartupCode, DependencyInitializers
<1>9. /\ Append(front, Entry) \in Seq(modules)
      /\ Len(Append(front, Entry)) = n
      /\ \A i \in 1 .. n - 1 : Append(front, Entry)[i] = s[i]
      /\ Append(front, Entry)[n] = Entry
  <2> HIDE DEF front, s
  <2>1. front \in Seq(modules) /\ Len(front) = n - 1 /\ \A i \in 1 .. n - 1 : front[i] = s[i]
    BY <1>7 DEF front
  <2>2. /\ Append(front, Entry) \in Seq(modules)
        /\ Len(Append(front, Entry)) = Len(front) + 1
        /\ \A i \in 1 .. Len(front) : Append(front, Entry)[i] = front[i]
        /\ Append(front, Entry)[Len(front) + 1] = Entry
    BY <1>4, <2>1, AppendHolds
  <2> QED BY <1>1, <2>1, <2>2
<1>10. \A i \in 1 .. n : Append(front, Entry)[i] = s[i]
  <2> HIDE DEF front, s, n
  <2>1. \A i \in 1 .. n : i \in 1 .. n - 1 \/ i = n
    BY <1>1
  <2> QED BY <1>5, <1>9, <2>1
<1> QED BY <1>1, <1>8, <1>9, <1>10, SeqEqual

-----------------------------------------------------------------------------
(* Type correctness.                                                       *)

\* The maps and lists keep their types in every step.
LEMMA TypeStep ==
  ASSUME TypeOK, Collected, Marked, OnPath, DependencyOrder, Next
  PROVE  TypeOK'
<1> USE DEF input, loading, search, later, NoError, Fail, Begin
<1>q. ASSUME importQueue # << >>
      PROVE  /\ Head(importQueue) \in Paths
             /\ Tail(importQueue) \in Seq(Paths)
  BY <1>q, QueueHolds DEF TypeOK
<1>s. ASSUME NEW p \in Paths, NEW s \in States, SetState(p, s)
      PROVE  /\ DOMAIN moduleStates' \subseteq Paths
             /\ \A q \in DOMAIN moduleStates' : moduleStates'[q] \in States
  <2>1. DOMAIN moduleStates \subseteq Paths /\ \A q \in DOMAIN moduleStates : moduleStates[q] \in States
    BY DEF TypeOK
  <2>2. /\ DOMAIN moduleStates' = DOMAIN moduleStates \union {p}
        /\ moduleStates'[p] = s
        /\ \A q \in DOMAIN moduleStates : q # p => moduleStates'[q] = moduleStates[q]
    BY <1>s, StateIsSet
  <2> QED BY <2>1, <2>2
<1>1. CASE SkipQueued
  BY <1>1, <1>q DEF SkipQueued, TypeOK
<1>2. CASE OpenFails
  BY <1>2, <1>q, <1>s DEF OpenFails, TypeOK, States
<1>3. CASE ParseFails
  BY <1>3, <1>q, <1>s DEF ParseFails, TypeOK, States
<1>4. CASE LoadModule
  <2> DEFINE path == Head(importQueue)
  <2>1. /\ path \in Files /\ path \in Paths
        /\ modules \subseteq modules' /\ modules' \subseteq Files
        /\ DeclaredPaths(path) \in Seq(Paths)
    <3>1. path \in Files /\ importQueue # << >>
      BY <1>4 DEF LoadModule
    <3>2. modules \subseteq modules' /\ modules' \subseteq Files
      BY <1>4, <3>1 DEF LoadModule, TypeOK
    <3> QED BY <3>1, <3>2, ImportsArePaths DEF Paths
  <2>2. importQueue' \in Seq(Paths)
    <3>1. importQueue' = Tail(importQueue) \/ importQueue' = Tail(importQueue) \o DeclaredPaths(path)
      BY <1>4 DEF LoadModule
    <3>2. Tail(importQueue) \o DeclaredPaths(path) \in Seq(Paths)
      BY <1>4, <1>q, <2>1, ConcatProperties DEF LoadModule
    <3> QED BY <1>4, <1>q, <3>1, <3>2 DEF LoadModule
  <2>3. /\ DOMAIN moduleStates' \subseteq Paths
        /\ \A q \in DOMAIN moduleStates' : moduleStates'[q] \in States
    <3>1. SetState(path, "LOADING") \/ SetState(path, "LOADED")
      BY <1>4 DEF LoadModule
    <3> QED BY <1>s, <2>1, <3>1 DEF States
  <2>4. dfs' \in Seq([path : modules', next : Nat])
    <3>1. [path : modules, next : Nat] \subseteq [path : modules', next : Nat]
      BY <2>1
    <3> QED BY <1>4, <3>1, SeqMonotonic DEF LoadModule, TypeOK
  <2>5. declarationOrder' \in Seq(modules') /\ initialised' \in Seq(modules')
    BY <1>4, <2>1, SeqMonotonic DEF LoadModule, TypeOK
  <2>6. /\ importDecls' = importDecls /\ dfs' = dfs /\ imports' = imports /\ available' = available
        /\ unvisited' = unvisited /\ phase = "load"
        /\ \/ phase' = "failed" /\ error' = "Module was collected more than once"
           \/ phase' = phase /\ error' = error
    BY <1>4 DEF LoadModule
  <2> QED BY <2>1, <2>2, <2>3, <2>4, <2>5, <2>6 DEF TypeOK
<1>5. CASE FinishLoading
  <2>1. DOMAIN moduleStates' = {}
    <3>1. Len(<< >>) = 0 /\ << >> \in Seq(Paths)
      BY EmptySeq
    <3>2. DOMAIN << >> = {}
      <4>1. DOMAIN << >> = 1 .. 0 /\ 1 .. 0 = {}
        BY <3>1, LenProperties
      <4> QED BY <4>1
    <3> QED BY <1>5, <3>2 DEF FinishLoading
  <2> QED BY <1>5, <2>1 DEF FinishLoading, TypeOK
<1>c. ASSUME NEW m \in modules, Call(m)
      PROVE  /\ dfs' \in Seq([path : modules, next : Nat])
             /\ \A k \in DOMAIN dfs' : dfs'[k].next \in 1 .. Len(importDecls[dfs'[k].path]) + 1
  <2>1. /\ [path |-> m, next |-> 1] \in [path : modules, next : Nat]
        /\ dfs' = Append(dfs, [path |-> m, next |-> 1])
        /\ dfs \in Seq([path : modules, next : Nat])
        /\ m \in Files
    BY <1>c DEF Call, TypeOK
  <2>2. /\ dfs' \in Seq([path : modules, next : Nat])
        /\ DOMAIN dfs' = 1 .. Len(dfs) + 1
        /\ \A k \in 1 .. Len(dfs) : dfs'[k] = dfs[k]
        /\ dfs'[Len(dfs) + 1] = [path |-> m, next |-> 1]
    BY <2>1, AppendHolds
  <2>3. 1 \in 1 .. Len(importDecls[m]) + 1
    BY <2>1, ImportsArePaths
  <2>4. DOMAIN dfs = 1 .. Len(dfs) /\ Len(dfs) \in Nat
    BY <2>1, LenProperties
  <2>5. \A k \in DOMAIN dfs : dfs[k].next \in 1 .. Len(importDecls[dfs[k].path]) + 1
    BY DEF TypeOK
  <2> QED BY <2>2, <2>3, <2>4, <2>5
<1>6. CASE \E m \in Files : CheckRoot(m)
  <2>1. PICK m \in Files : CheckRoot(m)
    BY <1>6
  <2>2. m \in modules /\ m \in Paths
    BY <2>1 DEF CheckRoot, TypeOK, Paths
  <2>3. CASE Known(m)
    BY <2>1, <2>3 DEF CheckRoot, TypeOK
  <2>4. CASE Call(m)
    <3>1. SetState(m, "LOADING")
      BY <2>4 DEF Call
    <3>2. /\ DOMAIN moduleStates' \subseteq Paths
          /\ \A q \in DOMAIN moduleStates' : moduleStates'[q] \in States
      BY <1>s, <2>2, <3>1 DEF States
    <3> QED BY <1>c, <2>1, <2>2, <2>4, <3>2 DEF CheckRoot, TypeOK
  <2> QED BY <2>1, <2>3, <2>4 DEF CheckRoot
<1>7. CASE VisitImport
  <2>1. CASE Target \notin modules
    BY <1>7, <2>1 DEF VisitImport, AtImport, TypeOK
  <2>2. CASE Target \in modules
    <3>1. Call(Target) /\ SetState(Target, "LOADING") /\ Target \in Paths
      BY <1>7, <2>2 DEF VisitImport, Call, TypeOK, Paths
    <3>2. /\ DOMAIN moduleStates' \subseteq Paths
          /\ \A q \in DOMAIN moduleStates' : moduleStates'[q] \in States
      BY <1>s, <3>1 DEF States
    <3>3. /\ dfs' \in Seq([path : modules, next : Nat])
          /\ \A k \in DOMAIN dfs' : dfs'[k].next \in 1 .. Len(importDecls[dfs'[k].path]) + 1
      BY <1>c, <2>2, <3>1
    <3> QED BY <1>7, <2>2, <3>2, <3>3 DEF VisitImport, AtImport, TypeOK
  <2> QED BY <2>1, <2>2
<1>8. CASE ImportDone
  <2>1. /\ dfs # << >> /\ dfs' = Returned(dfs) /\ dfs \in Seq(ActiveCalls)
        /\ Caller.next <= Len(importDecls[Caller.path])
    BY <1>8 DEF ImportDone, AtImport, TypeOK, ActiveCalls
  <2>2. \A k \in DOMAIN dfs' : dfs'[k].next \in 1 .. Len(importDecls[dfs'[k].path]) + 1
    <3>1. \A k \in DOMAIN dfs : dfs[k].next \in 1 .. Len(importDecls[dfs[k].path]) + 1
      BY DEF TypeOK
    <3>2. Len(importDecls[Caller.path]) \in Nat /\ Caller = dfs[Len(dfs)]
      BY <2>1, CallerIsLast, ImportsArePaths
    <3>3. /\ DOMAIN dfs' = DOMAIN dfs
          /\ \A k \in DOMAIN dfs : dfs'[k].path = dfs[k].path
          /\ \A k \in DOMAIN dfs : dfs'[k].next = IF k = Len(dfs) THEN dfs[k].next + 1 ELSE dfs[k].next
      BY <2>1, ReturnMovesCaller
    <3>4. ASSUME NEW k \in DOMAIN dfs
          PROVE  dfs'[k].next \in 1 .. Len(importDecls[dfs[k].path]) + 1
      <4>1. CASE k = Len(dfs)
        BY <2>1, <3>1, <3>2, <3>3, <4>1
      <4>2. CASE k # Len(dfs)
        BY <3>1, <3>3, <4>2
      <4> QED BY <4>1, <4>2
    <3>5. importDecls' = importDecls
      BY <1>8 DEF ImportDone
    <3> QED BY <3>3, <3>4, <3>5
  <2>3. dfs' \in Seq([path : modules, next : Nat])
    BY <2>1, ReturnMovesCaller DEF ActiveCalls
  <2> QED BY <1>8, <2>2, <2>3 DEF ImportDone, TypeOK
<1>9. CASE CircularImport
  BY <1>9 DEF CircularImport, AtImport, TypeOK
<1>10. CASE LeaveModule
  <2>1. /\ dfs # << >> /\ dfs' = Returned(Front(dfs)) /\ dfs \in Seq(ActiveCalls)
        /\ declarationOrder' = Append(declarationOrder, Caller.path)
        /\ SetState(Caller.path, "LOADED")
        /\ declarationOrder \in Seq(modules)
    BY <1>10 DEF LeaveModule, TypeOK, ActiveCalls
  <2>2. Caller.path \in modules /\ Caller.path \in Paths
    BY <2>1, CallerIsLast DEF Paths
  <2>3. /\ DOMAIN moduleStates' \subseteq Paths
        /\ \A q \in DOMAIN moduleStates' : moduleStates'[q] \in States
    BY <1>s, <2>1, <2>2 DEF States
  <2>4. declarationOrder' \in Seq(modules)
    BY <2>1, <2>2, AppendHolds
  <2>5. dfs' \in Seq([path : modules, next : Nat])
    BY <2>1, FrontIsPrefix, ReturnMovesCaller DEF ActiveCalls
  <2>6. \A k \in DOMAIN dfs' : dfs'[k].next \in 1 .. Len(importDecls[dfs'[k].path]) + 1
    <3>1. \A k \in DOMAIN dfs : dfs[k].next \in 1 .. Len(importDecls[dfs[k].path]) + 1
      BY DEF TypeOK
    <3>2. /\ Front(dfs) \in Seq(ActiveCalls) /\ Len(dfs) \in Nat \ {0} /\ DOMAIN dfs = 1 .. Len(dfs)
          /\ Len(Front(dfs)) = Len(dfs) - 1 /\ DOMAIN Front(dfs) = 1 .. Len(dfs) - 1
          /\ \A k \in 1 .. Len(dfs) - 1 : Front(dfs)[k] = dfs[k]
      BY <2>1, FrontIsPrefix
    <3>3. /\ DOMAIN dfs' = 1 .. Len(dfs) - 1
          /\ \A k \in 1 .. Len(dfs) - 1 : dfs'[k].path = dfs[k].path
          /\ \A k \in 1 .. Len(dfs) - 1 : dfs'[k].next = IF k = Len(dfs) - 1 THEN dfs[k].next + 1 ELSE dfs[k].next
      <4> DEFINE front == Front(dfs)
      <4>1. /\ front \in Seq(ActiveCalls) /\ dfs' = Returned(front)
            /\ Len(front) = Len(dfs) - 1 /\ DOMAIN front = 1 .. Len(dfs) - 1
            /\ \A k \in 1 .. Len(dfs) - 1 : front[k] = dfs[k]
        BY <2>1, <3>2
      <4> HIDE DEF front
      <4>2. /\ DOMAIN Returned(front) = DOMAIN front
            /\ \A k \in DOMAIN front : Returned(front)[k].path = front[k].path
            /\ \A k \in DOMAIN front :
                 Returned(front)[k].next = IF k = Len(front) THEN front[k].next + 1 ELSE front[k].next
        BY <4>1, ReturnMovesCaller
      <4> QED BY <4>1, <4>2
    <3>4. \A k \in 1 .. Len(dfs) - 1 : dfs[k].next <= Len(importDecls[dfs[k].path])
      BY DEF OnPath
    <3>5. \A k \in DOMAIN dfs : Len(importDecls[dfs[k].path]) \in Nat
      <4> TAKE k \in DOMAIN dfs
      <4>1. dfs[k] \in ActiveCalls
        BY <2>1, <3>2, ElementOfSeq
      <4>2. dfs[k].path \in Files
        BY <4>1 DEF ActiveCalls, TypeOK
      <4> QED BY <4>2, ImportsArePaths
    <3>6. ASSUME NEW k \in 1 .. Len(dfs) - 1
          PROVE  dfs'[k].next \in 1 .. Len(importDecls[dfs'[k].path]) + 1
      <4>1. /\ k \in DOMAIN dfs
            /\ dfs[k].next \in 1 .. Len(importDecls[dfs[k].path]) + 1
            /\ Len(importDecls[dfs[k].path]) \in Nat
            /\ dfs[k].next <= Len(importDecls[dfs[k].path])
        BY SMTT(30), <3>1, <3>2, <3>4, <3>5
      <4> QED BY <3>3, <4>1
    <3> QED BY <1>10, <3>3, <3>6 DEF LeaveModule
  <2> QED BY <1>10, <2>3, <2>4, <2>5, <2>6 DEF LeaveModule, TypeOK
<1>11. CASE FinishCheck
  BY <1>11 DEF FinishCheck, TypeOK
<1>12. CASE \E m \in Files : Link(m)
  <2>1. PICK m \in Files : Link(m)
    BY <1>12
  <2>2. DOMAIN imports' \subseteq modules
    <3>1. m \in modules
      BY <2>1 DEF Link, TypeOK
    <3> QED BY <2>1, <3>1 DEF Link, TypeOK
  <2> QED BY <2>1, <2>2 DEF Link, TypeOK
<1>13. CASE \E m \in Files : Resolve(m)
  BY <1>13 DEF Resolve, TypeOK
<1>14. CASE FinishLinking
  BY <1>14 DEF FinishLinking, TypeOK
<1>15. CASE FinishResolving
  BY <1>15 DEF FinishResolving, TypeOK
<1>16. CASE RunInitializer
  <2>1. /\ phase = "run" /\ Len(initialised) < Len(StartupCode)
        /\ initialised' = Append(initialised, StartupCode[Len(initialised) + 1])
        /\ initialised \in Seq(modules) /\ declarationOrder \in Seq(modules)
    BY <1>16 DEF RunInitializer, TypeOK
  <2>2. StartupCode = declarationOrder
    BY <2>1, StartupIsOrder
  <2>3. Len(initialised) + 1 \in 1 .. Len(declarationOrder)
    BY <2>1, <2>2, LenProperties
  <2>4. initialised' \in Seq(modules)
    BY <2>1, <2>2, <2>3, ElementOfSeq, AppendHolds
  <2> QED BY <1>16, <2>4 DEF RunInitializer, TypeOK
<1>17. CASE Exit
  BY <1>17 DEF Exit, TypeOK
<1> QED
  BY <1>1, <1>2, <1>3, <1>4, <1>5, <1>6, <1>7, <1>8, <1>9, <1>10, <1>11, <1>12, <1>13, <1>14, <1>15, <1>16, <1>17
  DEF Next

-----------------------------------------------------------------------------
(* What is collected.                                                      *)

\* Once the queue is empty the collection stays as it is.
LEMMA CollectionIsOver ==
  ASSUME Next, phase # "load"
  PROVE  /\ importDecls' = importDecls /\ modules' = modules /\ importQueue' = importQueue
         /\ phase # "failed" /\ phase' # "load"
BY DEF Next, SkipQueued, OpenFails, ParseFails, LoadModule, FinishLoading, CheckRoot, VisitImport, ImportDone,
       CircularImport, LeaveModule, FinishCheck, Link, Resolve, FinishLinking, FinishResolving, RunInitializer, Exit,
       AtImport, input, loading, Fail, Begin

\* A step collects and queues only what was asked for, and loses nothing it has to load.
LEMMA CollectedStep ==
  ASSUME TypeOK, Collected, Next
  PROVE  Collected'
<1> DEFINE path == Head(importQueue)
<1>q. ASSUME importQueue # << >>
      PROVE  /\ importQueue \in Seq(Paths) /\ Tail(importQueue) \in Seq(Paths) /\ path \in Paths
             /\ \A x : Holds(importQueue, x) <=> x = path \/ Holds(Tail(importQueue), x)
  BY <1>q, QueueHolds DEF TypeOK
<1>m. \A i \in DOMAIN importQueue : importQueue[i] = Entry \/ \E n \in modules : ImportsIt(n, importQueue[i])
  BY DEF Collected
<1>i. \A x : Holds(importQueue, x) => x = Entry \/ \E n \in modules : ImportsIt(n, x)
  BY <1>m DEF Holds
<1>1. CASE phase # "load"
  <2>1. /\ importDecls' = importDecls /\ modules' = modules /\ importQueue' = importQueue
        /\ phase # "failed" /\ phase' # "load"
    BY <1>1, CollectionIsOver
  <2> QED BY <1>1, <2>1 DEF Collected, ImportsIt, Holds
<1>2. CASE SkipQueued \/ OpenFails \/ ParseFails
  <2>1. /\ importDecls' = importDecls /\ modules' = modules
        /\ importQueue # << >> /\ importQueue' = Tail(importQueue) /\ phase = "load"
        /\ phase' = "load" => SkipQueued
        /\ SkipQueued => moduleStates' = moduleStates /\ path \in DOMAIN moduleStates /\ phase' = "load"
        /\ ~SkipQueued => phase' = "failed"
    BY <1>2 DEF SkipQueued, OpenFails, ParseFails, Fail, input, later, search, Known
  <2>2. \A i \in DOMAIN importQueue' : importQueue'[i] = Entry \/ \E n \in modules : ImportsIt(n, importQueue'[i])
    BY <1>q, <1>i, <2>1 DEF Holds
  <2>3. CASE ~SkipQueued
    BY <2>1, <2>2, <2>3 DEF Collected, ImportsIt
  <2>4. CASE SkipQueued
    <3>1. DOMAIN moduleStates' = modules' /\ path \in modules
      BY <2>1, <2>4 DEF Collected
    <3>2. \A x : x \in modules \/ Holds(importQueue, x) => x \in modules' \/ Holds(importQueue', x)
      BY <1>q, <2>1, <3>1
    <3> QED BY <2>1, <2>2, <2>4, <3>1, <3>2 DEF Collected, ImportsIt
  <2> QED BY <2>3, <2>4
<1>3. CASE LoadModule
  <2>1. /\ importQueue # << >> /\ phase = "load" /\ importDecls' = importDecls
        /\ path \in Files /\ path \notin DOMAIN moduleStates
    BY <1>3 DEF LoadModule, input, Known
  <2>2. DOMAIN moduleStates = modules
    BY <2>1 DEF Collected
  <2>3. /\ modules' = modules \union {path}
        /\ importQueue' = Tail(importQueue) \o DeclaredPaths(path)
        /\ SetState(path, "LOADED") /\ phase' = "load"
    BY <1>3, <2>1, <2>2 DEF LoadModule
  <2>4. DOMAIN moduleStates' = modules'
    BY <2>2, <2>3, StateIsSet
  <2>5. \A x : Holds(importQueue', x) <=> Holds(Tail(importQueue), x) \/ ImportsIt(path, x)
    <3>1. DeclaredPaths(path) \in Seq(Paths) /\ \A x : Holds(DeclaredPaths(path), x) <=> ImportsIt(path, x)
      BY <2>1, ImportsArePaths
    <3> QED BY <1>q, <2>1, <2>3, <3>1, ConcatHolds
  <2>6. path = Entry \/ \E n \in modules : ImportsIt(n, path)
    BY <1>i, <1>q, <2>1
  <2>7. \A m \in modules' : m = Entry \/ \E n \in modules' : ImportsIt(n, m)
    BY <2>3, <2>6 DEF Collected
  <2>8. \A x : Holds(importQueue', x) => x = Entry \/ \E n \in modules' : ImportsIt(n, x)
    BY <1>i, <1>q, <2>1, <2>3, <2>5
  <2>9. \A x : x \in modules \/ Holds(importQueue, x) => x \in modules' \/ Holds(importQueue', x)
    BY <1>q, <2>1, <2>3, <2>5
  <2>10. Entry \in modules' \/ Holds(importQueue', Entry)
    BY <2>1, <2>9 DEF Collected
  <2>11. \A n \in modules' : \A k \in DOMAIN importDecls[n] :
           importDecls[n][k].path \in modules' \/ Holds(importQueue', importDecls[n][k].path)
    BY <2>1, <2>3, <2>5, <2>9 DEF Collected, ImportsIt
  <2>12. \A i \in DOMAIN importQueue' : importQueue'[i] = Entry \/ \E n \in modules' : ImportsIt(n, importQueue'[i])
    BY <2>8 DEF Holds
  <2> QED BY <2>1, <2>3, <2>4, <2>7, <2>10, <2>11, <2>12 DEF Collected, ImportsIt
<1>4. CASE FinishLoading
  <2>1. /\ importDecls' = importDecls /\ modules' = modules /\ importQueue' = importQueue
        /\ phase = "load" /\ phase' = "check cycles" /\ importQueue = << >>
    BY <1>4 DEF FinishLoading, Begin, input, loading
  <2>2. \A n \in modules : \A k \in DOMAIN importDecls[n] :
          importDecls[n][k].path \in modules \/ Holds(importQueue, importDecls[n][k].path)
    BY <2>1 DEF Collected
  <2>3. Entry \in modules \/ Holds(importQueue, Entry)
    BY <2>1 DEF Collected
  <2>4. \A m \in modules : m = Entry \/ \E n \in modules : ImportsIt(n, m)
    BY DEF Collected
  <2> QED BY ZenonT(60), <1>m, <2>1, <2>2, <2>3, <2>4 DEF Collected, ImportsIt
<1> QED
  BY <1>1, <1>2, <1>3, <1>4 DEF Next, CheckRoot, VisitImport, ImportDone, CircularImport, LeaveModule, FinishCheck,
     Link, Resolve, FinishLinking, FinishResolving, RunInitializer, Exit, AtImport

\* The module an active call is about to visit was collected.
LEMMA TargetIsCollected ==
  ASSUME TypeOK, Collected, AtImport
  PROVE  /\ Target \in modules
         /\ Target = importDecls[Caller.path][Caller.next].path
         /\ Caller.next \in DOMAIN importDecls[Caller.path]
<1>1. /\ dfs # << >> /\ phase = "check cycles" /\ Caller.next <= Len(importDecls[Caller.path])
  BY DEF AtImport
<1>2. /\ Caller.path \in modules /\ Caller.path \in Files
      /\ Caller.next \in 1 .. Len(importDecls[Caller.path]) + 1
  BY <1>1, CallerIsLast
<1>3. Caller.next \in DOMAIN importDecls[Caller.path]
  <2> DEFINE l == Len(importDecls[Caller.path])
             c == Caller.next
  <2>1. /\ l \in Nat
        /\ DOMAIN importDecls[Caller.path] = 1 .. l
        /\ c \in 1 .. l + 1 /\ c <= l
    BY <1>1, <1>2, ImportsArePaths
  <2> HIDE DEF l, c
  <2>2. c \in 1 .. l
    BY <2>1
  <2> QED BY <2>1, <2>2 DEF c
<1>4. Target \in modules \/ Holds(importQueue, Target)
  <2>1. \A n \in modules : \A k \in DOMAIN importDecls[n] :
          importDecls[n][k].path \in modules \/ Holds(importQueue, importDecls[n][k].path)
    BY <1>1 DEF Collected
  <2> QED BY <1>2, <1>3, <2>1 DEF Target
<1>5. importQueue = << >>
  BY <1>1 DEF Collected
<1>6. ~Holds(importQueue, Target)
  <2> HIDE DEF Target
  <2> QED BY <1>5, EmptyHolds
<1> QED BY <1>3, <1>4, <1>6 DEF Target

\* A step never stores a path twice nor searches a module that was not stored.
LEMMA InternalErrorsStep ==
  ASSUME TypeOK, Collected, InternalErrorsUnreachable, Next
  PROVE  InternalErrorsUnreachable'
<1>1. CASE LoadModule
  <2>1. Head(importQueue) \notin modules
    BY <1>1 DEF LoadModule, Known, Collected
  <2> QED BY <1>1, <2>1 DEF LoadModule, InternalErrorsUnreachable
<1>2. CASE VisitImport
  <2>1. Target \in modules
    BY <1>2, TargetIsCollected DEF VisitImport
  <2> QED BY <1>2, <2>1 DEF VisitImport, InternalErrorsUnreachable
<1>3. CASE ~LoadModule /\ ~VisitImport
  BY <1>3 DEF Next, SkipQueued, OpenFails, ParseFails, FinishLoading, CheckRoot, ImportDone, CircularImport,
     LeaveModule, FinishCheck, Link, Resolve, FinishLinking, FinishResolving, RunInitializer, Exit,
     Fail, Begin, InternalErrorsUnreachable
<1> QED BY <1>1, <1>2, <1>3

\* A step meets only what the program needs.
LEMMA NeededStep ==
  ASSUME TypeOK, Needed, Next
  PROVE  Needed'
<1> SUFFICES ASSUME NEW ms \in SUBSET Files, Closed(ms)'
             PROVE  modules' \subseteq ms /\ \A i \in DOMAIN importQueue' : importQueue'[i] \in ms
  BY DEF Needed
<1>1. importDecls' = importDecls
  BY DEF Next, SkipQueued, OpenFails, ParseFails, LoadModule, FinishLoading, CheckRoot, VisitImport, ImportDone,
     CircularImport, LeaveModule, FinishCheck, Link, Resolve, FinishLinking, FinishResolving, RunInitializer, Exit, input
<1>2. /\ modules \subseteq ms
      /\ \A x : Holds(importQueue, x) => x \in ms
      /\ \A m \in ms : \A x : ImportsIt(m, x) => x \in ms
  <2>1. Closed(ms)
    BY <1>1 DEF Closed
  <2> QED BY <2>1 DEF Needed, Closed, Holds, ImportsIt
<1> DEFINE path == Head(importQueue)
<1>q. ASSUME importQueue # << >>
      PROVE  /\ Tail(importQueue) \in Seq(Paths) /\ path \in ms
             /\ \A x : Holds(Tail(importQueue), x) => x \in ms
  <2>1. /\ Tail(importQueue) \in Seq(Paths)
        /\ \A x : Holds(importQueue, x) <=> x = path \/ Holds(Tail(importQueue), x)
    BY <1>q, QueueHolds DEF TypeOK
  <2> QED BY <1>2, <2>1
<1>3. CASE LoadModule
  <2>1. /\ importQueue # << >> /\ path \in Files
        /\ modules' \subseteq modules \union {path}
        /\ importQueue' = Tail(importQueue) \/ importQueue' = Tail(importQueue) \o DeclaredPaths(path)
    BY <1>3 DEF LoadModule
  <2>2. \A x : Holds(DeclaredPaths(path), x) => x \in ms
    BY <1>2, <1>q, <2>1, ImportsArePaths
  <2>3. \A x : Holds(importQueue', x) => x \in ms
    BY ZenonT(60), <1>q, <2>1, <2>2, ImportsArePaths, ConcatHolds
  <2> QED BY <1>2, <1>q, <2>1, <2>3 DEF Holds
<1>4. CASE SkipQueued \/ OpenFails \/ ParseFails
  BY <1>2, <1>4, <1>q DEF SkipQueued, OpenFails, ParseFails, Holds
<1>5. CASE ~LoadModule /\ ~SkipQueued /\ ~OpenFails /\ ~ParseFails
  <2>1. importQueue' = importQueue /\ modules' = modules
    BY <1>5 DEF Next, FinishLoading, CheckRoot, VisitImport, ImportDone, CircularImport, LeaveModule, FinishCheck,
       Link, Resolve, FinishLinking, FinishResolving, RunInitializer, Exit, loading
  <2> QED BY <1>2, <2>1 DEF Holds
<1> QED BY <1>3, <1>4, <1>5

-----------------------------------------------------------------------------
(* The search.                                                             *)

\* A call puts its module at the end of the active path.
LEMMA CallExtendsPath ==
  ASSUME TypeOK, NEW m \in modules, Call(m)
  PROVE  /\ Len(dfs) \in Nat /\ DOMAIN dfs = 1 .. Len(dfs)
         /\ DOMAIN dfs' = 1 .. Len(dfs) + 1 /\ Len(dfs') = Len(dfs) + 1
         /\ \A k \in 1 .. Len(dfs) : dfs'[k] = dfs[k]
         /\ dfs'[Len(dfs) + 1].path = m /\ dfs'[Len(dfs) + 1].next = 1
         /\ DOMAIN moduleStates' = DOMAIN moduleStates \union {m}
         /\ moduleStates'[m] = "LOADING"
         /\ \A q \in DOMAIN moduleStates : q # m => moduleStates'[q] = moduleStates[q]
<1>1. /\ [path |-> m, next |-> 1] \in ActiveCalls
      /\ dfs' = Append(dfs, [path |-> m, next |-> 1])
      /\ dfs \in Seq(ActiveCalls)
      /\ SetState(m, "LOADING")
  BY DEF Call, TypeOK, ActiveCalls
<1>2. /\ Len(dfs) \in Nat /\ DOMAIN dfs = 1 .. Len(dfs)
      /\ DOMAIN dfs' = 1 .. Len(dfs) + 1 /\ Len(dfs') = Len(dfs) + 1
      /\ \A k \in 1 .. Len(dfs) : dfs'[k] = dfs[k]
      /\ dfs'[Len(dfs) + 1] = [path |-> m, next |-> 1]
  BY <1>1, AppendHolds, LenProperties
<1>3. /\ DOMAIN moduleStates' = DOMAIN moduleStates \union {m}
      /\ moduleStates'[m] = "LOADING"
      /\ \A q \in DOMAIN moduleStates : q # m => moduleStates'[q] = moduleStates[q]
  BY <1>1, StateIsSet
<1> QED BY <1>2, <1>3

\* A module that leaves moves from the active path to the declaration order, and its
\* caller to the next import.
LEMMA LeavingMovesToOrder ==
  ASSUME TypeOK, LeaveModule
  PROVE  /\ Len(dfs) \in Nat \ {0} /\ DOMAIN dfs = 1 .. Len(dfs)
         /\ Caller = dfs[Len(dfs)] /\ Caller.path \in modules
         /\ DOMAIN dfs' = 1 .. Len(dfs) - 1 /\ Len(dfs') = Len(dfs) - 1
         /\ \A k \in 1 .. Len(dfs) - 1 : dfs'[k].path = dfs[k].path
         /\ \A k \in 1 .. Len(dfs) - 1 :
              dfs'[k].next = IF k = Len(dfs) - 1 THEN dfs[k].next + 1 ELSE dfs[k].next
         /\ Len(declarationOrder) \in Nat /\ DOMAIN declarationOrder = 1 .. Len(declarationOrder)
         /\ DOMAIN declarationOrder' = 1 .. Len(declarationOrder) + 1
         /\ \A i \in 1 .. Len(declarationOrder) : declarationOrder'[i] = declarationOrder[i]
         /\ declarationOrder'[Len(declarationOrder) + 1] = Caller.path
         /\ \A x : Holds(declarationOrder', x) <=> Holds(declarationOrder, x) \/ x = Caller.path
         /\ DOMAIN moduleStates' = DOMAIN moduleStates \union {Caller.path}
         /\ moduleStates'[Caller.path] = "LOADED"
         /\ \A q \in DOMAIN moduleStates : q # Caller.path => moduleStates'[q] = moduleStates[q]
<1>1. /\ dfs # << >> /\ dfs' = Returned(Front(dfs)) /\ dfs \in Seq(ActiveCalls)
      /\ declarationOrder' = Append(declarationOrder, Caller.path)
      /\ SetState(Caller.path, "LOADED")
      /\ declarationOrder \in Seq(modules)
  BY DEF LeaveModule, TypeOK, ActiveCalls
<1>2. /\ Len(dfs) \in Nat \ {0} /\ DOMAIN dfs = 1 .. Len(dfs)
      /\ Caller = dfs[Len(dfs)] /\ Caller.path \in modules
  BY <1>1, CallerIsLast
<1>3. /\ DOMAIN dfs' = 1 .. Len(dfs) - 1 /\ Len(dfs') = Len(dfs) - 1
      /\ \A k \in 1 .. Len(dfs) - 1 : dfs'[k].path = dfs[k].path
      /\ \A k \in 1 .. Len(dfs) - 1 :
           dfs'[k].next = IF k = Len(dfs) - 1 THEN dfs[k].next + 1 ELSE dfs[k].next
  <2> DEFINE front == Front(dfs)
  <2>1. /\ front \in Seq(ActiveCalls) /\ dfs' = Returned(front)
        /\ Len(front) = Len(dfs) - 1 /\ DOMAIN front = 1 .. Len(dfs) - 1
        /\ \A k \in 1 .. Len(dfs) - 1 : front[k] = dfs[k]
    BY <1>1, FrontIsPrefix
  <2> HIDE DEF front
  <2>2. /\ DOMAIN Returned(front) = DOMAIN front /\ Len(Returned(front)) = Len(front)
        /\ \A k \in DOMAIN front : Returned(front)[k].path = front[k].path
        /\ \A k \in DOMAIN front :
             Returned(front)[k].next = IF k = Len(front) THEN front[k].next + 1 ELSE front[k].next
    BY <2>1, ReturnMovesCaller
  <2> QED BY <2>1, <2>2
<1>4. /\ Len(declarationOrder) \in Nat /\ DOMAIN declarationOrder = 1 .. Len(declarationOrder)
      /\ DOMAIN declarationOrder' = 1 .. Len(declarationOrder) + 1
      /\ \A i \in 1 .. Len(declarationOrder) : declarationOrder'[i] = declarationOrder[i]
      /\ declarationOrder'[Len(declarationOrder) + 1] = Caller.path
      /\ \A x : Holds(declarationOrder', x) <=> Holds(declarationOrder, x) \/ x = Caller.path
  BY <1>1, <1>2, AppendHolds, LenProperties
<1>5. /\ DOMAIN moduleStates' = DOMAIN moduleStates \union {Caller.path}
      /\ moduleStates'[Caller.path] = "LOADED"
      /\ \A q \in DOMAIN moduleStates : q # Caller.path => moduleStates'[q] = moduleStates[q]
  BY <1>1, StateIsSet
<1> QED BY <1>2, <1>3, <1>4, <1>5

\* Other steps leave the active path and the order alone.
LEMMA SearchRests ==
  ASSUME Next, ~LeaveModule, ~ImportDone, ~VisitImport, ~(\E m \in Files : CheckRoot(m))
  PROVE  /\ importDecls' = importDecls /\ dfs' = dfs /\ declarationOrder' = declarationOrder
         /\ phase' = "load" => phase = "load"
         /\ phase' = "check cycles" => FinishLoading
         /\ phase' \in AfterCheck => (phase \in AfterCheck /\ modules' = modules) \/ FinishCheck
BY DEF Next, SkipQueued, OpenFails, ParseFails, LoadModule, FinishLoading,
       CircularImport, FinishCheck, Link, Resolve, FinishLinking, FinishResolving, RunInitializer, Exit,
       AtImport, input, loading, search, later, Fail, Begin, AfterCheck

\* The steps of the search stay in it or fail.
LEMMA SearchSteps ==
  ASSUME TypeOK, Collected, LeaveModule \/ ImportDone \/ VisitImport \/ \E m \in Files : CheckRoot(m)
  PROVE  /\ importDecls' = importDecls /\ modules' = modules
         /\ phase = "check cycles" /\ phase' = "check cycles"
         /\ LeaveModule \/ ImportDone \/ VisitImport => unvisited' = unvisited
<1>1. CASE VisitImport
  <2>1. Target \in modules
    BY <1>1, TargetIsCollected DEF VisitImport
  <2> QED BY <1>1, <2>1 DEF VisitImport, AtImport, input, loading, LeaveModule, ImportDone, CheckRoot
<1> QED BY <1>1 DEF ImportDone, LeaveModule, CheckRoot, AtImport, input, loading

\* The states follow the search through every call, return and pass.
LEMMA MarkedStep ==
  ASSUME TypeOK, Collected, Marked, OnPath, Next
  PROVE  Marked'
<1> DEFINE order == declarationOrder
<1>s. ASSUME phase = "check cycles"
      PROVE  /\ \A k \in DOMAIN dfs : dfs[k].path \in DOMAIN moduleStates /\ moduleStates[dfs[k].path] = "LOADING"
             /\ \A k \in DOMAIN order : order[k] \in DOMAIN moduleStates /\ moduleStates[order[k]] = "LOADED"
             /\ \A p \in DOMAIN moduleStates : Holds(order, p) \/ \E k \in DOMAIN dfs : dfs[k].path = p
             /\ modules \ unvisited \subseteq DOMAIN moduleStates
  BY <1>s DEF Marked, Searching
<1>c. ASSUME NEW m \in modules, m \notin DOMAIN moduleStates, Call(m), phase = "check cycles", order' = order,
             modules' = modules, unvisited' \subseteq unvisited, unvisited \subseteq unvisited' \union {m}
      PROVE  Searching'
  <2>1. /\ Len(dfs) \in Nat /\ DOMAIN dfs = 1 .. Len(dfs)
        /\ DOMAIN dfs' = 1 .. Len(dfs) + 1
        /\ \A k \in 1 .. Len(dfs) : dfs'[k] = dfs[k]
        /\ dfs'[Len(dfs) + 1].path = m
        /\ DOMAIN moduleStates' = DOMAIN moduleStates \union {m}
        /\ moduleStates'[m] = "LOADING"
        /\ \A q \in DOMAIN moduleStates : q # m => moduleStates'[q] = moduleStates[q]
    BY <1>c, CallExtendsPath
  <2>2. \A k \in DOMAIN dfs' : dfs'[k].path \in DOMAIN moduleStates' /\ moduleStates'[dfs'[k].path] = "LOADING"
    <3> TAKE k \in DOMAIN dfs'
    <3>1. CASE k \in 1 .. Len(dfs)
      <4>1. dfs[k].path \in DOMAIN moduleStates /\ moduleStates[dfs[k].path] = "LOADING"
        BY <1>c, <1>s, <2>1, <3>1
      <4>2. dfs'[k] = dfs[k] /\ dfs[k].path # m
        BY <1>c, <2>1, <3>1, <4>1
      <4> QED BY <2>1, <4>1, <4>2
    <3>2. CASE k = Len(dfs) + 1
      BY <2>1, <3>2
    <3> QED BY <2>1, <3>1, <3>2
  <2>3. \A k \in DOMAIN order' : order'[k] \in DOMAIN moduleStates' /\ moduleStates'[order'[k]] = "LOADED"
    BY <1>c, <1>s, <2>1
  <2>4. \A p \in DOMAIN moduleStates' : Holds(order', p) \/ \E k \in DOMAIN dfs' : dfs'[k].path = p
    <3> TAKE p \in DOMAIN moduleStates'
    <3>1. CASE p = m
      <4>1. Len(dfs) + 1 \in DOMAIN dfs'
        BY <2>1
      <4> QED BY <2>1, <3>1, <4>1
    <3>2. CASE p # m
      <4>1. Holds(order, p) \/ \E k \in DOMAIN dfs : dfs[k].path = p
        BY <1>c, <1>s, <2>1, <3>2
      <4>2. ASSUME NEW k \in DOMAIN dfs, dfs[k].path = p
            PROVE  k \in DOMAIN dfs' /\ dfs'[k].path = p
        BY <2>1, <4>2
      <4> QED BY <1>c, <4>1, <4>2
    <3> QED BY <3>1, <3>2
  <2>5. modules' \ unvisited' \subseteq DOMAIN moduleStates'
    BY <1>c, <1>s, <2>1
  <2> QED BY <2>2, <2>3, <2>4, <2>5 DEF Searching
<1>1. CASE \E m \in Files : CheckRoot(m)
  <2>1. PICK m \in Files : CheckRoot(m)
    BY <1>1
  <2>2. /\ modules' = modules /\ phase = "check cycles" /\ phase' = "check cycles"
    BY <1>1, SearchSteps
  <2>3. m \in modules /\ unvisited' = unvisited \ {m} /\ order' = order
    BY <2>1 DEF CheckRoot, TypeOK
  <2>4. CASE Known(m)
    <3>1. dfs' = dfs /\ moduleStates' = moduleStates /\ m \in DOMAIN moduleStates
      BY <2>1, <2>4 DEF CheckRoot, Known
    <3>2. Searching'
      BY <1>s, <2>2, <2>3, <3>1 DEF Searching, Holds
    <3> QED BY <2>2, <3>2 DEF Marked, AfterCheck
  <2>5. CASE ~Known(m)
    <3>1. Searching'
      BY <1>c, <2>1, <2>2, <2>3, <2>5 DEF CheckRoot, Known
    <3> QED BY <2>2, <3>1 DEF Marked, AfterCheck
  <2> QED BY <2>4, <2>5
<1>2. CASE VisitImport
  <2>1. /\ modules' = modules /\ phase = "check cycles" /\ phase' = "check cycles" /\ unvisited' = unvisited
    BY <1>2, SearchSteps
  <2>2. Target \in modules /\ Call(Target) /\ Target \notin DOMAIN moduleStates /\ order' = order
    BY <1>2, TargetIsCollected DEF VisitImport, Known
  <2>3. Searching'
    <3> HIDE DEF Target
    <3> QED BY <1>c, <2>1, <2>2
  <2> QED BY <2>1, <2>3 DEF Marked, AfterCheck
<1>3. CASE ImportDone
  <2>1. /\ modules' = modules /\ phase = "check cycles" /\ phase' = "check cycles" /\ unvisited' = unvisited
    BY <1>3, SearchSteps
  <2>2. dfs' = Returned(dfs) /\ order' = order /\ moduleStates' = moduleStates /\ dfs \in Seq(ActiveCalls)
    BY <1>3 DEF ImportDone, TypeOK, ActiveCalls
  <2>3. DOMAIN dfs' = DOMAIN dfs /\ \A k \in DOMAIN dfs : dfs'[k].path = dfs[k].path
    BY <2>2, ReturnMovesCaller
  <2>4. Searching'
    BY ZenonT(60), <1>s, <2>1, <2>2, <2>3 DEF Searching
  <2> QED BY <2>1, <2>4 DEF Marked, AfterCheck
<1>4. CASE LeaveModule
  <2>1. /\ modules' = modules /\ phase = "check cycles" /\ phase' = "check cycles" /\ unvisited' = unvisited
    BY <1>4, SearchSteps
  <2> DEFINE n == Len(dfs)
             l == Len(order)
             m == Caller.path
  <2>2. /\ n \in Nat \ {0} /\ DOMAIN dfs = 1 .. n /\ Caller = dfs[n]
        /\ DOMAIN dfs' = 1 .. n - 1
        /\ \A k \in 1 .. n - 1 : dfs'[k].path = dfs[k].path
    BY <1>4, LeavingMovesToOrder
  <2>3. /\ l \in Nat /\ DOMAIN order = 1 .. l
        /\ DOMAIN order' = 1 .. l + 1
        /\ \A i \in 1 .. l : order'[i] = order[i]
        /\ order'[l + 1] = m
        /\ \A x : Holds(order', x) <=> Holds(order, x) \/ x = m
    BY ZenonT(60), <1>4, LeavingMovesToOrder
  <2>4. /\ DOMAIN moduleStates' = DOMAIN moduleStates \union {m}
        /\ moduleStates'[m] = "LOADED"
        /\ \A q \in DOMAIN moduleStates : q # m => moduleStates'[q] = moduleStates[q]
    BY <1>4, LeavingMovesToOrder
  <2>5. m = dfs[n].path /\ n \in DOMAIN dfs
    BY <2>2
  <2> HIDE DEF n, l, m
  <2>6. \A k \in DOMAIN dfs' : dfs'[k].path \in DOMAIN moduleStates' /\ moduleStates'[dfs'[k].path] = "LOADING"
    <3> TAKE k \in DOMAIN dfs'
    <3>1. k \in DOMAIN dfs /\ k # n /\ dfs'[k].path = dfs[k].path
      BY <2>2
    <3>2. dfs[k].path # m
      BY <2>5, <3>1 DEF OnPath
    <3>3. dfs[k].path \in DOMAIN moduleStates /\ moduleStates[dfs[k].path] = "LOADING"
      BY <1>s, <2>1, <3>1
    <3> QED BY <2>4, <3>1, <3>2, <3>3
  <2>7. \A k \in DOMAIN order' : order'[k] \in DOMAIN moduleStates' /\ moduleStates'[order'[k]] = "LOADED"
    <3> TAKE k \in DOMAIN order'
    <3>1. CASE k \in 1 .. l
      <4>1. order'[k] = order[k] /\ k \in DOMAIN order
        BY <2>3, <3>1
      <4>2. order[k] \in DOMAIN moduleStates /\ moduleStates[order[k]] = "LOADED"
        BY <1>s, <2>1, <4>1
      <4> QED BY <2>4, <4>1, <4>2
    <3>2. CASE k = l + 1
      BY <2>3, <2>4, <3>2
    <3> QED BY <2>3, <3>1, <3>2
  <2>8. \A p \in DOMAIN moduleStates' : Holds(order', p) \/ \E k \in DOMAIN dfs' : dfs'[k].path = p
    <3> TAKE p \in DOMAIN moduleStates'
    <3>1. CASE p = m
      BY <2>3, <3>1
    <3>2. CASE p # m
      <4>1. Holds(order, p) \/ \E k \in DOMAIN dfs : dfs[k].path = p
        BY <1>s, <2>1, <2>4, <3>2
      <4>2. ASSUME NEW k \in DOMAIN dfs, dfs[k].path = p
            PROVE  k \in DOMAIN dfs' /\ dfs'[k].path = p
        <5>1. k # n
          BY <2>5, <3>2, <4>2
        <5> QED BY <2>2, <4>2, <5>1
      <4> QED BY <2>3, <4>1, <4>2
    <3> QED BY <3>1, <3>2
  <2>9. modules' \ unvisited' \subseteq DOMAIN moduleStates'
    BY <1>s, <2>1, <2>4
  <2>10. Searching'
    BY <2>6, <2>7, <2>8, <2>9 DEF Searching
  <2> QED BY <2>1, <2>10 DEF Marked, AfterCheck
<1>5. CASE FinishLoading
  <2>1. /\ phase = "load" /\ phase' = "check cycles" /\ dfs' = dfs /\ order' = order
        /\ moduleStates' = << >> /\ unvisited' = modules /\ modules' = modules
    BY <1>5 DEF FinishLoading, Begin, loading
  <2>2. dfs = << >> /\ order = << >>
    BY <2>1 DEF Marked
  <2>3. Searching'
    <3> HIDE DEF order
    <3>1. dfs' = << >> /\ order' = << >>
      BY <2>1, <2>2
    <3>2. DOMAIN << >> = {}
      BY EmptyHolds
    <3> QED BY <2>1, <3>1, <3>2 DEF Searching, order
  <2> QED BY <2>1, <2>3 DEF Marked, AfterCheck
<1>6. CASE FinishCheck
  <2>1. /\ phase = "check cycles" /\ phase' = "link" /\ dfs = << >> /\ dfs' = dfs /\ order' = order
        /\ unvisited = {} /\ modules' = modules
    BY <1>6 DEF FinishCheck, Begin, loading, search
  <2>2. \A m \in modules : Holds(order, m)
    <3> TAKE m \in modules
    <3>1. m \in DOMAIN moduleStates
      BY <1>s, <2>1
    <3>2. DOMAIN dfs = {}
      BY <2>1, EmptyHolds
    <3> QED BY <1>s, <2>1, <3>1, <3>2
  <2> QED BY <2>1, <2>2 DEF Marked, AfterCheck, Holds
<1>7. CASE /\ ~FinishCheck /\ ~FinishLoading
           /\ ~(LeaveModule \/ ImportDone \/ VisitImport \/ \E m \in Files : CheckRoot(m))
  <2>1. /\ dfs' = dfs /\ declarationOrder' = declarationOrder
        /\ phase' = "load" => phase = "load"
        /\ phase' # "check cycles"
        /\ phase' \in AfterCheck => phase \in AfterCheck /\ modules' = modules
    BY <1>7, SearchRests
  <2> QED BY <2>1 DEF Marked, Holds
<1> QED BY <1>1, <1>2, <1>3, <1>4, <1>5, <1>6, <1>7

\* A call extends the active path by the module it is about to check; a return
\* leaves an import that is in the order.
LEMMA OnPathStep ==
  ASSUME TypeOK, Collected, Marked, OnPath, Next
  PROVE  OnPath'
<1> DEFINE order == declarationOrder
           n == Len(dfs)
<1>p. /\ \A i, j \in DOMAIN dfs : dfs[i].path = dfs[j].path => i = j
      /\ \A k \in DOMAIN dfs : \A j \in 1 .. dfs[k].next - 1 : Holds(order, importDecls[dfs[k].path][j].path)
      /\ \A k \in 1 .. n - 1 :
           /\ dfs[k].next <= Len(importDecls[dfs[k].path])
           /\ importDecls[dfs[k].path][dfs[k].next].path = dfs[k + 1].path
  BY DEF OnPath
<1>t. /\ n \in Nat /\ DOMAIN dfs = 1 .. n
      /\ \A k \in 1 .. n : dfs[k].next \in Nat
  <2>1. dfs \in Seq(ActiveCalls)
    BY DEF TypeOK, ActiveCalls
  <2>2. n \in Nat /\ DOMAIN dfs = 1 .. n
    BY <2>1, LenProperties
  <2>3. \A k \in 1 .. n : dfs[k] \in ActiveCalls
    BY <2>1, ElementOfSeq
  <2> QED BY <2>2, <2>3 DEF ActiveCalls
<1>c. ASSUME NEW m \in modules, m \notin DOMAIN moduleStates, Call(m), Searching, order' = order,
             importDecls' = importDecls,
             n # 0 => /\ dfs[n].next <= Len(importDecls[dfs[n].path])
                      /\ importDecls[dfs[n].path][dfs[n].next].path = m
      PROVE  OnPath'
  <2>1. /\ DOMAIN dfs' = 1 .. n + 1 /\ Len(dfs') = n + 1
        /\ \A k \in 1 .. n : dfs'[k] = dfs[k]
        /\ dfs'[n + 1].path = m /\ dfs'[n + 1].next = 1
    BY <1>c, CallExtendsPath
  <2>2. \A k \in 1 .. n : dfs[k].path # m
    BY <1>c, <1>t DEF Searching
  <2> HIDE DEF n, order
  <2>3. \A i, j \in DOMAIN dfs' : dfs'[i].path = dfs'[j].path => i = j
    <3> SUFFICES ASSUME NEW i \in 1 .. n + 1, NEW j \in 1 .. n + 1, dfs'[i].path = dfs'[j].path
                 PROVE  i = j
      BY <2>1
    <3>1. CASE i \in 1 .. n /\ j \in 1 .. n
      BY <1>p, <1>t, <2>1, <3>1
    <3>2. CASE i = n + 1 /\ j = n + 1
      BY <3>2
    <3>3. CASE i = n + 1 /\ j \in 1 .. n
      BY <2>1, <2>2, <3>3
    <3>4. CASE i \in 1 .. n /\ j = n + 1
      BY <2>1, <2>2, <3>4
    <3> QED BY <1>t, <3>1, <3>2, <3>3, <3>4
  <2>4. \A k \in DOMAIN dfs' : \A j \in 1 .. dfs'[k].next - 1 : Holds(order, importDecls[dfs'[k].path][j].path)
    <3> SUFFICES ASSUME NEW k \in 1 .. n + 1, NEW j \in 1 .. dfs'[k].next - 1
                 PROVE  Holds(order, importDecls[dfs'[k].path][j].path)
      BY <2>1
    <3>1. CASE k \in 1 .. n
      <4>1. dfs'[k] = dfs[k]
        BY <2>1, <3>1
      <4>2. j \in 1 .. dfs[k].next - 1
        BY <4>1
      <4> QED BY <1>p, <1>t, <3>1, <4>1, <4>2
    <3>2. CASE k = n + 1
      BY <2>1, <3>2
    <3> QED BY <1>t, <3>1, <3>2
  <2>5. \A k \in 1 .. n :
          /\ dfs'[k].next <= Len(importDecls[dfs'[k].path])
          /\ importDecls[dfs'[k].path][dfs'[k].next].path = dfs'[k + 1].path
    <3> TAKE k \in 1 .. n
    <3>1. dfs'[k] = dfs[k]
      BY <2>1
    <3>2. CASE k = n
      BY <1>c, <1>t, <2>1, <3>1, <3>2
    <3>3. CASE k # n
      <4>1. k \in 1 .. n - 1 /\ k + 1 \in 1 .. n
        BY <1>t, <3>3
      <4>2. dfs'[k + 1] = dfs[k + 1]
        BY <2>1, <4>1
      <4> QED BY <1>p, <3>1, <4>1, <4>2
    <3> QED BY <3>2, <3>3
  <2>6. Len(dfs') - 1 = n
    BY <1>t, <2>1
  <2> QED BY <1>c, <2>3, <2>4, <2>5, <2>6 DEF OnPath, order
<1>1. CASE \E m \in Files : CheckRoot(m)
  <2>1. PICK m \in Files : CheckRoot(m)
    BY <1>1
  <2>2. /\ m \in modules /\ dfs = << >> /\ order' = order /\ importDecls' = importDecls /\ phase = "check cycles"
    BY <2>1 DEF CheckRoot, TypeOK, input
  <2>3. n = 0 /\ Searching
    BY <2>2, EmptySeq DEF Marked
  <2>4. CASE Known(m)
    <3>1. dfs' = dfs
      BY <2>1, <2>4 DEF CheckRoot
    <3> QED BY ZenonT(60), <2>2, <3>1 DEF OnPath, Holds
  <2>5. CASE ~Known(m)
    <3>1. m \notin DOMAIN moduleStates /\ Call(m)
      BY <2>1, <2>5 DEF CheckRoot, Known
    <3> QED BY <1>c, <2>2, <2>3, <3>1
  <2> QED BY <2>4, <2>5
<1>2. CASE VisitImport
  <2>1. /\ Target \in modules /\ Call(Target) /\ Target \notin DOMAIN moduleStates /\ order' = order
        /\ importDecls' = importDecls /\ dfs # << >>
        /\ Target = importDecls[Caller.path][Caller.next].path
        /\ Caller.next <= Len(importDecls[Caller.path])
        /\ phase = "check cycles"
    BY <1>2, TargetIsCollected DEF VisitImport, Known, AtImport, input
  <2>2. Caller = dfs[n] /\ Searching
    BY <2>1, CallerIsLast DEF Marked
  <2> HIDE DEF Target
  <2> QED BY <1>c, <2>1, <2>2
<1>3. CASE ImportDone
  <2>1. /\ dfs' = Returned(dfs) /\ order' = order /\ importDecls' = importDecls /\ dfs \in Seq(ActiveCalls)
        /\ AtImport /\ dfs # << >> /\ phase = "check cycles"
        /\ Target \in DOMAIN moduleStates /\ moduleStates[Target] = "LOADED"
        /\ Target = importDecls[Caller.path][Caller.next].path
    BY <1>3, TargetIsCollected DEF ImportDone, TypeOK, ActiveCalls, AtImport, Known, input
  <2>2. /\ DOMAIN dfs' = DOMAIN dfs /\ Len(dfs') = n
        /\ \A k \in DOMAIN dfs : dfs'[k].path = dfs[k].path
        /\ \A k \in DOMAIN dfs : dfs'[k].next = IF k = n THEN dfs[k].next + 1 ELSE dfs[k].next
    BY <2>1, ReturnMovesCaller
  <2>3. Caller = dfs[n] /\ n \in 1 .. n
    <3>1. Caller = dfs[n] /\ n \in Nat \ {0}
      BY <2>1, CallerIsLast
    <3> QED BY <3>1
  <2>4. Holds(order, Target)
    BY <2>1 DEF Marked, Searching
  <2> HIDE DEF n, order, Target
  <2>5. \A k \in DOMAIN dfs' : \A j \in 1 .. dfs'[k].next - 1 : Holds(order, importDecls[dfs'[k].path][j].path)
    <3> SUFFICES ASSUME NEW k \in 1 .. n, NEW j \in 1 .. dfs'[k].next - 1
                 PROVE  Holds(order, importDecls[dfs[k].path][j].path)
      BY <1>t, <2>2
    <3>1. CASE j \in 1 .. dfs[k].next - 1
      BY <1>p, <1>t, <3>1
    <3>2. CASE j \notin 1 .. dfs[k].next - 1
      <4>1. dfs'[k].next = IF k = n THEN dfs[k].next + 1 ELSE dfs[k].next
        BY <1>t, <2>2
      <4>2. dfs[k].next \in Nat
        BY <1>t
      <4>3. k = n /\ j = dfs[k].next
        BY <3>2, <4>1, <4>2
      <4> QED BY <2>1, <2>3, <2>4, <4>3
    <3> QED BY <3>1, <3>2
  <2>6. \A k \in 1 .. n - 1 :
          /\ dfs'[k].next <= Len(importDecls[dfs'[k].path])
          /\ importDecls[dfs'[k].path][dfs'[k].next].path = dfs'[k + 1].path
    <3> TAKE k \in 1 .. n - 1
    <3>1. k \in DOMAIN dfs /\ k + 1 \in DOMAIN dfs /\ k # n
      BY <1>t
    <3> QED BY <1>p, <2>2, <3>1
  <2> QED BY ZenonT(60), <1>p, <2>1, <2>2, <2>5, <2>6 DEF OnPath, order
<1>4. CASE LeaveModule
  <2>1. /\ n \in Nat \ {0} /\ DOMAIN dfs = 1 .. n /\ Caller = dfs[n]
        /\ DOMAIN dfs' = 1 .. n - 1 /\ Len(dfs') = n - 1
        /\ \A k \in 1 .. n - 1 : dfs'[k].path = dfs[k].path
        /\ \A k \in 1 .. n - 1 : dfs'[k].next = IF k = n - 1 THEN dfs[k].next + 1 ELSE dfs[k].next
        /\ \A x : Holds(order', x) <=> Holds(order, x) \/ x = Caller.path
    BY <1>4, LeavingMovesToOrder
  <2>2. importDecls' = importDecls
    BY <1>4 DEF LeaveModule, input
  <2> HIDE DEF n, order
  <2>3. \A i, j \in DOMAIN dfs' : dfs'[i].path = dfs'[j].path => i = j
    <3>1. \A k \in 1 .. n - 1 : k \in DOMAIN dfs
      BY <2>1
    <3> QED BY <1>p, <2>1, <3>1
  <2>4. \A k \in DOMAIN dfs' : \A j \in 1 .. dfs'[k].next - 1 : Holds(order', importDecls[dfs'[k].path][j].path)
    <3> SUFFICES ASSUME NEW k \in 1 .. n - 1, NEW j \in 1 .. dfs'[k].next - 1
                 PROVE  Holds(order', importDecls[dfs[k].path][j].path)
      BY <2>1
    <3>1. CASE j \in 1 .. dfs[k].next - 1
      <4>1. k \in DOMAIN dfs
        BY <2>1
      <4> QED BY <1>p, <2>1, <3>1, <4>1
    <3>2. CASE j \notin 1 .. dfs[k].next - 1
      <4>1. dfs'[k].next = IF k = n - 1 THEN dfs[k].next + 1 ELSE dfs[k].next
        BY <2>1
      <4>2. dfs[k].next \in Nat
        BY <1>t, <2>1
      <4>3. k = n - 1 /\ j = dfs[k].next /\ k + 1 = n
        BY <2>1, <3>2, <4>1, <4>2
      <4>4. importDecls[dfs[k].path][j].path = dfs[n].path
        BY <1>p, <4>3
      <4> QED BY <2>1, <4>4
    <3> QED BY <3>1, <3>2
  <2>5. \A k \in 1 .. (n - 1) - 1 :
          /\ dfs'[k].next <= Len(importDecls[dfs'[k].path])
          /\ importDecls[dfs'[k].path][dfs'[k].next].path = dfs'[k + 1].path
    <3> TAKE k \in 1 .. (n - 1) - 1
    <3>1. k \in 1 .. n - 1 /\ k + 1 \in 1 .. n - 1 /\ k # n - 1
      BY <2>1
    <3>2. dfs'[k].next = dfs[k].next /\ dfs'[k].path = dfs[k].path /\ dfs'[k + 1].path = dfs[k + 1].path
      BY <2>1, <3>1
    <3> QED BY <1>p, <3>1, <3>2
  <2> QED BY SMTT(30), <2>1, <2>2, <2>3, <2>4, <2>5 DEF OnPath, order
<1>5. CASE ~(LeaveModule \/ ImportDone \/ VisitImport \/ \E m \in Files : CheckRoot(m))
  <2>1. dfs' = dfs /\ declarationOrder' = declarationOrder /\ importDecls' = importDecls
    BY <1>5, SearchRests
  <2> QED BY <2>1 DEF OnPath, Holds
<1> QED BY <1>1, <1>2, <1>3, <1>4, <1>5

\* A module leaves the search after all its imports and is not in the order yet.
LEMMA DependencyOrderStep ==
  ASSUME TypeOK, Collected, Marked, OnPath, DependencyOrder, Next
  PROVE  DependencyOrder'
<1> DEFINE order == declarationOrder
           l == Len(order)
<1>1. CASE LeaveModule
  <2> DEFINE m == Caller.path
  <2>1. /\ l \in Nat /\ DOMAIN order = 1 .. l
        /\ DOMAIN order' = 1 .. l + 1
        /\ \A i \in 1 .. l : order'[i] = order[i]
        /\ order'[l + 1] = m
    BY <1>1, LeavingMovesToOrder
  <2>2. /\ dfs # << >> /\ phase = "check cycles" /\ importDecls' = importDecls
        /\ Caller.next > Len(importDecls[m])
    BY <1>1 DEF LeaveModule, input
  <2>3. /\ Len(dfs) \in DOMAIN dfs /\ Caller = dfs[Len(dfs)]
        /\ m \in Files
        /\ Caller.next \in 1 .. Len(importDecls[m]) + 1
    <3>1. Len(dfs) \in Nat \ {0} /\ DOMAIN dfs = 1 .. Len(dfs)
      BY <2>2, CallerIsLast
    <3>2. Len(dfs) \in DOMAIN dfs
      BY <3>1
    <3> QED BY <2>2, <3>2, CallerIsLast
  <2>4. \A k \in DOMAIN importDecls[m] : Holds(order, importDecls[m][k].path)
    <3> DEFINE size == Len(importDecls[m])
               c == Caller.next
    <3>1. size \in Nat /\ DOMAIN importDecls[m] = 1 .. size /\ c \in 1 .. size + 1 /\ c > size
      BY <2>2, <2>3, ImportsArePaths
    <3>2. \A j \in 1 .. c - 1 : Holds(order, importDecls[m][j].path)
      BY <2>3 DEF OnPath
    <3> HIDE DEF size, c, order
    <3>3. c - 1 = size
      BY <3>1
    <3> QED BY <3>1, <3>2, <3>3
  <2>5. \A i \in 1 .. l : order[i] # m
    <3>1. Searching
      BY <2>2 DEF Marked
    <3>2. moduleStates[m] = "LOADING" /\ \A i \in 1 .. l : moduleStates[order[i]] = "LOADED"
      BY <2>1, <2>3, <3>1 DEF Searching
    <3> QED BY <3>2
  <2>6. /\ \A i \in 1 .. l : \A k \in DOMAIN importDecls[order[i]] :
             \E j \in 1 .. i - 1 : order[j] = importDecls[order[i]][k].path
        /\ \A i, j \in 1 .. l : order[i] = order[j] => i = j
    BY <2>1 DEF DependencyOrder, FollowsImports, NoRepeats
  <2> HIDE DEF m, order, l
  <2>7. \A i \in 1 .. l + 1 : \A k \in DOMAIN importDecls[order'[i]] :
          \E j \in 1 .. i - 1 : order'[j] = importDecls[order'[i]][k].path
    <3> SUFFICES ASSUME NEW i \in 1 .. l + 1, NEW k \in DOMAIN importDecls[order'[i]]
                 PROVE  \E j \in 1 .. i - 1 : order'[j] = importDecls[order'[i]][k].path
      OBVIOUS
    <3>1. CASE i \in 1 .. l
      <4>1. order'[i] = order[i]
        BY <2>1, <3>1
      <4>2. PICK j \in 1 .. i - 1 : order[j] = importDecls[order[i]][k].path
        BY <2>6, <3>1, <4>1
      <4>3. j \in 1 .. l
        BY <2>1, <3>1
      <4> QED BY <2>1, <4>1, <4>2, <4>3
    <3>2. CASE i = l + 1
      <4>1. Holds(order, importDecls[m][k].path)
        BY <2>1, <2>4, <3>2
      <4>2. PICK j \in 1 .. l : order[j] = importDecls[m][k].path
        BY <2>1, <4>1 DEF Holds
      <4>3. j \in 1 .. i - 1
        BY <2>1, <3>2
      <4> QED BY <2>1, <3>2, <4>2, <4>3
    <3> QED BY <2>1, <3>1, <3>2
  <2>8. \A i, j \in 1 .. l + 1 : order'[i] = order'[j] => i = j
    <3> SUFFICES ASSUME NEW i \in 1 .. l + 1, NEW j \in 1 .. l + 1, order'[i] = order'[j]
                 PROVE  i = j
      OBVIOUS
    <3>1. CASE i \in 1 .. l /\ j \in 1 .. l
      BY <2>1, <2>6, <3>1
    <3>2. CASE i = l + 1 /\ j = l + 1
      BY <3>2
    <3>3. CASE i = l + 1 /\ j \in 1 .. l
      BY <2>1, <2>5, <3>3
    <3>4. CASE i \in 1 .. l /\ j = l + 1
      BY <2>1, <2>5, <3>4
    <3> QED BY <2>1, <3>1, <3>2, <3>3, <3>4
  <2> QED BY ZenonT(60), <2>1, <2>2, <2>7, <2>8 DEF DependencyOrder, FollowsImports, NoRepeats, order
<1>2. CASE ~LeaveModule
  <2>1. declarationOrder' = declarationOrder /\ importDecls' = importDecls
    BY <1>2, SearchRests DEF ImportDone, VisitImport, CheckRoot, input
  <2> QED BY <2>1 DEF DependencyOrder, FollowsImports, NoRepeats
<1> QED BY <1>1, <1>2

\* A call goes to an import of the caller, which ranks below it.
LEMMA RankedStep ==
  ASSUME TypeOK, Collected, Needed, Marked, OnPath, Ranked, Next
  PROVE  Ranked'
<1> DEFINE n == Len(dfs)
<1>d. importDecls' = importDecls
  BY SearchRests, SearchSteps
<1> SUFFICES ASSUME NEW ms \in SUBSET Files, NEW rank \in [ms -> Nat], Closed(ms), Ranks(ms, rank)
             PROVE  \A i, j \in DOMAIN dfs' : i < j => rank[dfs'[j].path] < rank[dfs'[i].path]
  BY <1>d DEF Ranked, Closed, Ranks
<1>r. /\ \A i, j \in DOMAIN dfs : i < j => rank[dfs[j].path] < rank[dfs[i].path]
      /\ modules \subseteq ms
  BY DEF Ranked, Needed
<1>t. /\ n \in Nat /\ DOMAIN dfs = 1 .. n
      /\ \A k \in 1 .. n : dfs[k].path \in modules
  <2>1. dfs \in Seq(ActiveCalls)
    BY DEF TypeOK, ActiveCalls
  <2>2. n \in Nat /\ DOMAIN dfs = 1 .. n
    BY <2>1, LenProperties
  <2>3. \A k \in 1 .. n : dfs[k] \in ActiveCalls
    BY <2>1, ElementOfSeq
  <2> QED BY <2>2, <2>3 DEF ActiveCalls
<1>n. \A m \in modules : rank[m] \in Nat
  BY <1>r
<1>1. CASE \E m \in Files : CheckRoot(m)
  <2>1. PICK m \in Files : CheckRoot(m)
    BY <1>1
  <2>2. m \in modules /\ dfs = << >>
    BY <2>1 DEF CheckRoot, TypeOK
  <2>3. n = 0
    BY <2>2, EmptySeq
  <2>4. DOMAIN dfs' = 1 .. 1 \/ dfs' = dfs
    <3>1. Call(m) \/ dfs' = dfs
      BY <2>1 DEF CheckRoot
    <3>2. Call(m) => DOMAIN dfs' = 1 .. n + 1
      BY <2>2, CallExtendsPath
    <3> HIDE DEF n
    <3> QED BY <2>3, <3>1, <3>2
  <2>5. CASE DOMAIN dfs' = 1 .. 1
    BY <2>5
  <2>6. CASE dfs' = dfs
    BY <1>r, <2>6
  <2> QED BY <2>4, <2>5, <2>6
<1>2. CASE VisitImport
  <2> DEFINE t == Target
  <2>1. /\ t \in modules /\ Call(t) /\ dfs # << >>
        /\ t = importDecls[Caller.path][Caller.next].path
        /\ Caller.next \in DOMAIN importDecls[Caller.path]
    BY <1>2, TargetIsCollected DEF VisitImport, AtImport
  <2>2. /\ n \in 1 .. n /\ Caller = dfs[n] /\ Caller.path \in modules
    <3>1. n \in Nat \ {0} /\ Caller = dfs[n] /\ Caller.path \in modules
      BY SMTT(30), <2>1, CallerIsLast
    <3> QED BY <3>1
  <2>3. rank[t] < rank[dfs[n].path]
    <3>1. Caller.path \in ms
      BY <1>r, <2>2
    <3> QED BY <2>1, <2>2, <3>1 DEF Ranks
  <2>4. /\ DOMAIN dfs' = 1 .. n + 1
        /\ \A k \in 1 .. n : dfs'[k] = dfs[k]
        /\ dfs'[n + 1].path = t
    <3> HIDE DEF t
    <3> QED BY <2>1, CallExtendsPath
  <2> HIDE DEF n, t
  <2> SUFFICES ASSUME NEW i \in 1 .. n + 1, NEW j \in 1 .. n + 1, i < j
               PROVE  rank[dfs'[j].path] < rank[dfs'[i].path]
    BY <2>4
  <2>5. CASE j \in 1 .. n
    <3>1. i \in 1 .. n
      BY <1>t, <2>5
    <3> QED BY <1>r, <1>t, <2>4, <2>5, <3>1
  <2>6. CASE j = n + 1
    <3>1. i \in 1 .. n /\ dfs'[i] = dfs[i] /\ dfs'[j].path = t
      BY <1>t, <2>4, <2>6
    <3>2. CASE i = n
      BY <2>3, <3>1, <3>2
    <3>3. CASE i # n
      <4>1. i < n
        BY <1>t, <3>1, <3>3
      <4>2. rank[dfs[n].path] < rank[dfs[i].path]
        BY <1>r, <1>t, <2>2, <3>1, <4>1
      <4>3. rank[t] \in Nat /\ rank[dfs[n].path] \in Nat /\ rank[dfs[i].path] \in Nat
        BY <1>n, <1>t, <2>1, <2>2, <3>1
      <4>4. rank[t] < rank[dfs[i].path]
        BY <2>3, <4>2, <4>3
      <4> QED BY <3>1, <4>4
    <3> QED BY <3>2, <3>3
  <2> QED BY <1>t, <2>5, <2>6
<1>3. CASE ImportDone
  <2>1. dfs' = Returned(dfs) /\ dfs \in Seq(ActiveCalls)
    BY <1>3 DEF ImportDone, TypeOK, ActiveCalls
  <2>2. DOMAIN dfs' = DOMAIN dfs /\ \A k \in DOMAIN dfs : dfs'[k].path = dfs[k].path
    BY <2>1, ReturnMovesCaller
  <2> QED BY <1>r, <2>2
<1>4. CASE LeaveModule
  <2>1. /\ DOMAIN dfs' = 1 .. n - 1
        /\ \A k \in 1 .. n - 1 : dfs'[k].path = dfs[k].path
    BY <1>4, LeavingMovesToOrder
  <2> HIDE DEF n
  <2>2. \A k \in 1 .. n - 1 : k \in DOMAIN dfs
    BY <1>t
  <2> QED BY SMTT(30), <1>r, <2>1, <2>2
<1>5. CASE ~(LeaveModule \/ ImportDone \/ VisitImport \/ \E m \in Files : CheckRoot(m))
  <2>1. dfs' = dfs
    BY <1>5, SearchRests
  <2> QED BY <1>r, <2>1
<1> QED BY <1>1, <1>2, <1>3, <1>4, <1>5

-----------------------------------------------------------------------------
(* Linking, starting and rejecting.                                        *)

\* No module with a duplicate alias passes the linker.
LEMMA LinkedStep ==
  ASSUME TypeOK, Linked, Next
  PROVE  Linked'
<1>1. CASE \E m \in Files : Link(m)
  <2>1. PICK m \in Files : Link(m)
    BY <1>1
  <2>2. importDecls' = importDecls /\ modules' = modules
    BY <2>1 DEF Link, input, loading
  <2>3. CASE DuplicateAlias(m)
    BY <2>1, <2>3 DEF Link, Linked, Fail
  <2>4. CASE ~DuplicateAlias(m)
    <3>1. /\ phase = "link" /\ phase' = "link" /\ unvisited' = unvisited \ {m}
          /\ \A q \in modules \ unvisited : ~DuplicateAlias(q)
      BY <2>1, <2>4 DEF Link, Linked
    <3>2. \A q \in modules' \ unvisited' : ~DuplicateAlias(q)
      BY <2>2, <2>4, <3>1
    <3> QED BY <2>2, <3>1, <3>2 DEF Linked, DuplicateAlias
  <2> QED BY <2>3, <2>4
<1>2. CASE FinishCheck
  BY <1>2 DEF FinishCheck, Begin, Linked, loading
<1>3. CASE FinishLinking
  <2>1. importDecls' = importDecls /\ modules' = modules /\ phase = "link" /\ unvisited = {} /\ phase' = "resolve"
    BY <1>3 DEF FinishLinking, Begin, input, loading
  <2> QED BY <2>1 DEF Linked, DuplicateAlias
<1>4. CASE ~FinishCheck /\ ~FinishLinking /\ ~(\E m \in Files : Link(m))
  <2>1. \/ phase' \notin {"link", "resolve", "run", "done"}
        \/ phase \in {"resolve", "run"} /\ phase' \in {"resolve", "run", "done"}
           /\ importDecls' = importDecls /\ modules' = modules
    BY <1>4 DEF Next, SkipQueued, OpenFails, ParseFails, LoadModule, FinishLoading, CheckRoot, VisitImport, ImportDone,
       CircularImport, LeaveModule, Resolve, FinishResolving, RunInitializer, Exit, AtImport, input, loading, Fail, Begin
  <2> QED BY <2>1 DEF Linked, DuplicateAlias
<1> QED BY <1>1, <1>2, <1>3, <1>4

\* The entry function calls the initialisers in declaration order.
LEMMA StartedStep ==
  ASSUME TypeOK, Collected, Marked, DependencyOrder, Started, Next
  PROVE  Started'
<1> DEFINE n == Len(initialised)
           order == declarationOrder
<1>t. /\ n \in Nat /\ DOMAIN initialised = 1 .. n /\ initialised \in Seq(modules)
      /\ Len(order) \in Nat /\ DOMAIN order = 1 .. Len(order) /\ order \in Seq(modules)
  BY LenProperties DEF TypeOK
<1>1. CASE RunInitializer
  <2>1. /\ phase = "run" /\ phase' = phase /\ order' = order
        /\ n < Len(StartupCode)
        /\ initialised' = Append(initialised, StartupCode[n + 1])
    BY <1>1 DEF RunInitializer, search
  <2>2. StartupCode = order
    BY <2>1, StartupIsOrder
  <2>3. n + 1 \in 1 .. Len(order) /\ order[n + 1] \in modules
    BY <1>t, <2>1, <2>2, ElementOfSeq
  <2>4. /\ Len(initialised') = n + 1
        /\ DOMAIN initialised' = 1 .. n + 1
        /\ \A i \in 1 .. n : initialised'[i] = initialised[i]
        /\ initialised'[n + 1] = order[n + 1]
    BY SMTT(30), <1>t, <2>1, <2>2, <2>3, AppendHolds
  <2>5. \A i \in 1 .. n : initialised[i] = order[i]
    BY <1>t DEF Started
  <2> HIDE DEF n, order
  <2>6. \A i \in 1 .. n + 1 : i \in 1 .. n \/ i = n + 1
    BY <1>t
  <2>7. \A i \in DOMAIN initialised' : initialised'[i] = order'[i]
    BY <2>1, <2>4, <2>5, <2>6
  <2> QED BY <2>1, <2>3, <2>4, <2>7 DEF Started, order
<1>2. CASE Exit
  <2>1. /\ phase = "run" /\ phase' = "done" /\ order' = order /\ initialised' = initialised
        /\ n = Len(StartupCode)
    BY <1>2 DEF Exit, search, later
  <2>2. StartupCode = order
    BY <2>1, StartupIsOrder
  <2> QED BY <2>1, <2>2 DEF Started
<1>3. CASE LeaveModule
  <2>1. phase = "check cycles" /\ phase' = "check cycles" /\ initialised' = initialised
    BY ZenonT(60), <1>3 DEF LeaveModule, later
  <2>2. /\ DOMAIN order' = 1 .. Len(order) + 1
        /\ order' = Append(order, Caller.path)
    BY <1>3, LeavingMovesToOrder DEF LeaveModule
  <2>3. initialised = << >>
    BY <2>1 DEF Started
  <2>4. Len(<< >>) = 0 /\ DOMAIN << >> = {}
    BY EmptySeq, EmptyHolds
  <2>5. Len(order') \in Nat
    <3>1. dfs # << >>
      BY <1>3 DEF LeaveModule
    <3>2. Caller.path \in modules
      BY <3>1, CallerIsLast
    <3>3. Len(order') = Len(order) + 1
      BY <1>t, <2>2, <3>2, AppendHolds
    <3> QED BY <1>t, <3>3
  <2>6. Len(initialised') = 0 /\ DOMAIN initialised' = {}
    BY <2>1, <2>3, <2>4
  <2> HIDE DEF order
  <2>7. Len(initialised') <= Len(order')
    BY <2>5, <2>6
  <2> QED BY <2>1, <2>3, <2>6, <2>7 DEF Started, order
<1>4. CASE ~RunInitializer /\ ~Exit /\ ~LeaveModule
  <2>1. /\ initialised' = initialised /\ declarationOrder' = declarationOrder
        /\ phase \notin {"run", "done"}
        /\ phase' # "done"
    BY <1>4 DEF Next, SkipQueued, OpenFails, ParseFails, LoadModule, FinishLoading, CheckRoot, VisitImport, ImportDone,
       CircularImport, FinishCheck, Link, Resolve, FinishLinking, FinishResolving, AtImport, search, later, Fail, Begin
  <2> QED BY <2>1 DEF Started
<1> QED BY <1>1, <1>2, <1>3, <1>4

\* A well-formed program has ranks that are natural numbers.
LEMMA WellFormedHasRanks ==
  ASSUME WellFormed
  PROVE  \E ms \in SUBSET Files :
           /\ Closed(ms)
           /\ \A m \in ms : ~DuplicateAlias(m)
           /\ \E rank \in [ms -> Nat] : Ranks(ms, rank)
<1>1. ASSUME NEW ms, NEW c \in Nat
      PROVE  [ms -> 1 .. c] \subseteq [ms -> Nat]
  <2>1. 1 .. c \subseteq Nat
    OBVIOUS
  <2> QED BY <2>1
<1>2. \A ms \in SUBSET Files : Cardinality(ms) \in Nat
  BY ModuleLoaderAssumption, FS_Subset, FS_CardinalityType
<1>3. \A ms \in SUBSET Files : [ms -> 1 .. Cardinality(ms)] \subseteq [ms -> Nat]
  BY <1>1, <1>2
<1> QED BY <1>3, Zenon DEF WellFormed

\* Ranks rule out that the search meets a module on its path.
LEMMA RankedHasNoCycle ==
  ASSUME TypeOK, Collected, Needed, Marked, Ranked, CircularImport,
         NEW ms \in SUBSET Files, NEW rank \in [ms -> Nat], Closed(ms), Ranks(ms, rank)
  PROVE  FALSE
<1>n. modules \subseteq ms
  BY DEF Needed
<1> DEFINE t == Target
           n == Len(dfs)
<1>1. /\ AtImport /\ dfs # << >> /\ phase = "check cycles"
      /\ t \in DOMAIN moduleStates /\ moduleStates[t] = "LOADING"
      /\ t = importDecls[Caller.path][Caller.next].path
      /\ Caller.next \in DOMAIN importDecls[Caller.path]
  BY TargetIsCollected DEF CircularImport, AtImport, Known
<1>2. n \in Nat \ {0} /\ DOMAIN dfs = 1 .. n /\ Caller = dfs[n] /\ Caller.path \in modules
  BY <1>1, CallerIsLast
<1>3. PICK k \in 1 .. n : dfs[k].path = t
  <2>1. Searching
    BY <1>1 DEF Marked
  <2>2. ~Holds(declarationOrder, t)
    BY <1>1, <2>1 DEF Searching, Holds
  <2> HIDE DEF t, n
  <2> QED BY ZenonT(60), <1>1, <1>2, <2>1, <2>2 DEF Searching
<1>4. rank[t] < rank[dfs[n].path]
  <2>1. Caller.path \in ms
    BY <1>n, <1>2
  <2> QED BY <1>1, <1>2, <2>1 DEF Ranks
<1>5. \A i, j \in DOMAIN dfs : i < j => rank[dfs[j].path] < rank[dfs[i].path]
  BY DEF Ranked
<1>6. \A i \in DOMAIN dfs : rank[dfs[i].path] \in Nat
  <2> TAKE i \in DOMAIN dfs
  <2>1. dfs \in Seq(ActiveCalls)
    BY DEF TypeOK, ActiveCalls
  <2>2. dfs[i] \in ActiveCalls
    BY <1>2, <2>1, ElementOfSeq
  <2>3. dfs[i].path \in ms
    BY <1>n, <2>2 DEF ActiveCalls
  <2> QED BY <2>3
<1> HIDE DEF t, n
<1>7. n \in DOMAIN dfs /\ k \in DOMAIN dfs /\ (k = n \/ k < n)
  BY <1>2, <1>3
<1>8. CASE k = n
  <2>1. rank[t] < rank[t]
    BY <1>3, <1>4, <1>8
  <2>2. rank[t] \in Nat
    BY <1>3, <1>6, <1>7
  <2> QED BY <2>1, <2>2
<1>9. CASE k < n
  <2>1. rank[dfs[n].path] < rank[dfs[k].path]
    BY <1>5, <1>7, <1>9
  <2>2. rank[dfs[n].path] \in Nat /\ rank[t] \in Nat /\ rank[dfs[n].path] < rank[t]
    BY <1>3, <1>6, <1>7, <2>1
  <2> QED BY <1>4, <2>2
<1> QED BY <1>7, <1>8, <1>9

\* Each message but the resolver's means that the program is not well formed.
LEMMA RejectedStep ==
  ASSUME TypeOK, InternalErrorsUnreachable, Collected, Needed, Marked, OnPath, Ranked, Next
  PROVE  Rejected'
<1>d. importDecls' = importDecls
  BY SearchRests, SearchSteps
<1> SUFFICES ASSUME phase' = "failed", error' # "No imported value or type", WellFormed
             PROVE  FALSE
  BY ZenonT(60), <1>d DEF Rejected, WellFormed, Closed, Ranks, DuplicateAlias
<1>w. PICK ms \in SUBSET Files :
        /\ Closed(ms)
        /\ \A m \in ms : ~DuplicateAlias(m)
        /\ \E rank \in [ms -> Nat] : Ranks(ms, rank)
  BY WellFormedHasRanks
<1>k. PICK rank \in [ms -> Nat] : Ranks(ms, rank)
  BY <1>w
<1>n. modules \subseteq ms /\ \A i \in DOMAIN importQueue : importQueue[i] \in ms
  BY <1>w DEF Needed
<1>1. CASE OpenFails \/ ParseFails
  <2>1. /\ importQueue # << >>
        /\ Head(importQueue) \in Missing \/ Head(importQueue) \in Malformed
    BY <1>1 DEF OpenFails, ParseFails
  <2>2. 1 \in DOMAIN importQueue /\ Head(importQueue) = importQueue[1]
    BY <2>1, QueueHolds DEF TypeOK
  <2>3. Head(importQueue) \in Files
    BY <1>n, <2>2
  <2> QED BY <2>1, <2>3, ModuleLoaderAssumption
<1>2. CASE LoadModule
  <2>1. Head(importQueue) \notin modules /\ phase = "load"
    BY <1>2 DEF LoadModule, Known, Collected
  <2> QED BY <1>2, <2>1 DEF LoadModule
<1>3. CASE VisitImport
  BY <1>3, SearchSteps
<1>4. CASE CircularImport
  BY <1>4, <1>k, <1>w, RankedHasNoCycle
<1>5. CASE \E m \in Files : Link(m)
  <2>1. PICK m \in Files : Link(m)
    BY <1>5
  <2>2. m \in modules /\ phase = "link"
    BY <2>1 DEF Link, TypeOK
  <2>3. ~DuplicateAlias(m)
    BY <1>n, <1>w, <2>2
  <2> QED BY <2>1, <2>2, <2>3 DEF Link
<1>6. CASE \E m \in Files : Resolve(m)
  BY <1>6 DEF Resolve, Fail
<1>7. CASE ~(OpenFails \/ ParseFails) /\ ~LoadModule /\ ~VisitImport /\ ~CircularImport
           /\ ~(\E m \in Files : Link(m)) /\ ~(\E m \in Files : Resolve(m))
  BY <1>7 DEF Next, SkipQueued, FinishLoading, CheckRoot, ImportDone, LeaveModule, FinishCheck, FinishLinking,
     FinishResolving, RunInitializer, Exit, Begin, AtImport
<1> QED BY <1>1, <1>2, <1>3, <1>4, <1>5, <1>6, <1>7

-----------------------------------------------------------------------------
(* The invariant.                                                          *)

\* The invariant holds when main() starts.
LEMMA InitHolds == Init => IInv
<1> SUFFICES ASSUME Init PROVE IInv
  OBVIOUS
<1>e. /\ Len(<< >>) = 0 /\ DOMAIN << >> = {} /\ \A S : << >> \in Seq(S)
  BY EmptySeq, EmptyHolds
<1>q. /\ importQueue \in Seq(Paths) /\ DOMAIN importQueue = 1 .. 1 /\ importQueue[1] = Entry
  <2>1. importQueue = <<Entry>> /\ Entry \in Paths
    BY ModuleLoaderAssumption DEF Init
  <2> QED BY <2>1
<1>1. TypeOK
  <2>1. /\ importDecls \in [Files -> Texts] /\ phase = "load" /\ error = NoError
        /\ moduleStates = << >> /\ modules = {} /\ unvisited = {} /\ dfs = << >> /\ declarationOrder = << >>
        /\ imports = << >> /\ available = {} /\ initialised = << >>
    BY DEF Init
  <2>2. dfs \in Seq([path : modules, next : Nat]) /\ declarationOrder \in Seq(modules) /\ initialised \in Seq(modules)
    BY <1>e, <2>1
  <2> QED BY <1>e, <1>q, <2>1, <2>2 DEF TypeOK, NoError
<1>2. InternalErrorsUnreachable
  BY DEF Init, InternalErrorsUnreachable, NoError
<1>3. Collected
  <2>1. Holds(importQueue, Entry) /\ \A i \in DOMAIN importQueue : importQueue[i] = Entry
    BY <1>q DEF Holds
  <2>2. modules = {} /\ phase = "load" /\ DOMAIN moduleStates = {}
    BY <1>e DEF Init
  <2> QED BY <2>1, <2>2 DEF Collected
<1>4. Needed
  <2>1. modules = {}
    BY DEF Init
  <2>2. \A i \in DOMAIN importQueue : importQueue[i] = Entry
    BY <1>q
  <2> QED BY <2>1, <2>2 DEF Needed, Closed
<1>5. Marked
  BY DEF Init, Marked, AfterCheck
<1>6. OnPath
  <2>1. dfs = << >>
    BY DEF Init
  <2>2. DOMAIN dfs = {} /\ Len(dfs) = 0 /\ 1 .. Len(dfs) - 1 = {}
    BY <1>e, <2>1
  <2> QED BY <2>2 DEF OnPath
<1>7. DependencyOrder
  <2>1. declarationOrder = << >>
    BY DEF Init
  <2> QED BY <1>e, <2>1 DEF DependencyOrder, FollowsImports, NoRepeats
<1>8. Ranked
  <2>1. dfs = << >>
    BY DEF Init
  <2> QED BY <1>e, <2>1 DEF Ranked
<1>9. Linked
  BY DEF Init, Linked
<1>10. Started
  <2>1. initialised = << >> /\ declarationOrder = << >> /\ phase = "load"
    BY DEF Init
  <2> QED BY <1>e, <2>1 DEF Started
<1>11. Rejected
  BY DEF Init, Rejected
<1> QED BY <1>1, <1>2, <1>3, <1>4, <1>5, <1>6, <1>7, <1>8, <1>9, <1>10, <1>11 DEF IInv

\* Every step of main() keeps the invariant.
LEMMA StepHolds == IInv /\ Next => IInv'
<1> SUFFICES ASSUME IInv, Next PROVE IInv'
  OBVIOUS
<1>1. /\ TypeOK /\ InternalErrorsUnreachable /\ Collected /\ Needed /\ Marked /\ OnPath
      /\ DependencyOrder /\ Ranked /\ Linked /\ Started /\ Rejected
  BY DEF IInv
<1>2. TypeOK'
  BY <1>1, TypeStep
<1>3. InternalErrorsUnreachable' /\ Collected' /\ Needed'
  BY <1>1, InternalErrorsStep, CollectedStep, NeededStep
<1>4. Marked' /\ OnPath'
  BY <1>1, MarkedStep, OnPathStep
<1>5. DependencyOrder' /\ Ranked'
  BY <1>1, DependencyOrderStep, RankedStep
<1>6. Linked' /\ Started' /\ Rejected'
  BY <1>1, LinkedStep, StartedStep, RejectedStep
<1> QED BY <1>2, <1>3, <1>4, <1>5, <1>6 DEF IInv

\* The invariant is about the state alone.
LEMMA StutterHolds == IInv /\ UNCHANGED vars => IInv'
<1> SUFFICES ASSUME IInv, UNCHANGED vars PROVE IInv'
  OBVIOUS
<1>1. /\ importDecls' = importDecls /\ phase' = phase /\ error' = error /\ importQueue' = importQueue
      /\ moduleStates' = moduleStates /\ modules' = modules /\ unvisited' = unvisited /\ dfs' = dfs
      /\ declarationOrder' = declarationOrder /\ imports' = imports /\ available' = available
      /\ initialised' = initialised
  BY DEF vars
<1>2. TypeOK'
  <2>1. TypeOK
    BY DEF IInv
  <2>2. /\ (importDecls \in [Files -> Texts])'
        /\ (phase \in {"load", "check cycles", "link", "resolve", "run", "done", "failed"})'
        /\ (error # NoError <=> phase = "failed")'
        /\ (importQueue \in Seq(Paths))'
    BY <1>1, <2>1 DEF TypeOK
  <2>3. /\ (DOMAIN moduleStates \subseteq Paths)'
        /\ (\A p \in DOMAIN moduleStates : moduleStates[p] \in States)'
        /\ (modules \subseteq Files)'
        /\ (unvisited \subseteq modules)'
    BY <1>1, <2>1 DEF TypeOK
  <2>4. /\ (dfs \in Seq([path : modules, next : Nat]))'
        /\ (\A k \in DOMAIN dfs : dfs[k].next \in 1 .. Len(importDecls[dfs[k].path]) + 1)'
    BY <1>1, <2>1 DEF TypeOK
  <2>5. /\ (declarationOrder \in Seq(modules))'
        /\ (DOMAIN imports \subseteq modules)'
        /\ (available \subseteq modules)'
        /\ (initialised \in Seq(modules))'
    BY <1>1, <2>1 DEF TypeOK
  <2> QED BY <2>2, <2>3, <2>4, <2>5 DEF TypeOK
<1>3. InternalErrorsUnreachable' /\ Linked'
  <2>1. InternalErrorsUnreachable'
    BY <1>1 DEF IInv, InternalErrorsUnreachable
  <2>2. \A m : DuplicateAlias(m)' = DuplicateAlias(m)
    BY <1>1 DEF DuplicateAlias
  <2>3. Linked'
    BY <1>1, <2>2 DEF IInv, Linked
  <2> QED BY <2>1, <2>3
<1>4. Collected'
  BY <1>1 DEF IInv, Collected, Holds, ImportsIt
<1>5. Needed'
  BY <1>1 DEF IInv, Needed, Closed
<1>6. Marked'
  BY <1>1 DEF IInv, Marked, Searching, Holds
<1>7. OnPath'
  BY <1>1 DEF IInv, OnPath, Holds
<1>8. DependencyOrder'
  BY <1>1 DEF IInv, DependencyOrder, FollowsImports, NoRepeats
<1>9. Ranked'
  BY <1>1 DEF IInv, Ranked, Closed, Ranks
<1>10. Started'
  BY <1>1 DEF IInv, Started
<1>11. Rejected'
  BY ZenonT(60), <1>1 DEF IInv, Rejected, WellFormed, Closed, Ranks, DuplicateAlias
<1> QED BY <1>2, <1>3, <1>4, <1>5, <1>6, <1>7, <1>8, <1>9, <1>10, <1>11 DEF IInv

\* The invariant holds in every state main() reaches, for every program.
THEOREM InvariantHolds == Spec => []IInv
<1>1. IInv /\ [Next]_vars => IInv'
  BY StepHolds, StutterHolds
<1> QED BY <1>1, InitHolds, PTL DEF Spec

-----------------------------------------------------------------------------
(* The properties.                                                         *)

\* The state maps, the active path and the orders keep their types: checkCycles
\* never reads an import past the end of its module's list.
THEOREM TypesHold == Spec => []TypeOK
<1>1. IInv => TypeOK
  BY DEF IInv
<1> QED BY <1>1, InvariantHolds, PTL

\* Neither "Module was collected more than once" nor "Imported module was not
\* collected" is ever printed.
THEOREM NoInternalError == Spec => []InternalErrorsUnreachable
<1>1. IInv => InternalErrorsUnreachable
  BY DEF IInv
<1> QED BY <1>1, InvariantHolds, PTL

\* declarationOrder lists no module before one it imports and no module twice.
THEOREM DependenciesComeFirst == Spec => []DependencyOrder
<1>1. IInv => DependencyOrder
  BY DEF IInv
<1> QED BY <1>1, InvariantHolds, PTL

\* The native entry function runs the initialisers in dependency order, each once,
\* and leaves no module out.
THEOREM InitialisersRunInOrder == Spec => []InitialisedInOrder
<1>1. ASSUME IInv
      PROVE  InitialisedInOrder
  <2> DEFINE order == declarationOrder
             n == Len(initialised)
             l == Len(order)
  <2>1. /\ n \in Nat /\ DOMAIN initialised = 1 .. n
        /\ l \in Nat /\ DOMAIN order = 1 .. l
        /\ \A i \in 1 .. n : initialised[i] \in modules
        /\ n <= l
        /\ phase = "done" => n = l
    <3>1. TypeOK /\ Started
      BY <1>1 DEF IInv
    <3> QED BY <3>1, LenProperties, ElementOfSeq DEF TypeOK, Started
  <2>2. \A i \in 1 .. n : initialised[i] = order[i]
    BY ZenonT(60), <1>1, <2>1 DEF IInv, Started
  <2>3. /\ \A i \in 1 .. l : \A k \in DOMAIN importDecls[order[i]] :
             \E j \in 1 .. i - 1 : order[j] = importDecls[order[i]][k].path
        /\ \A i, j \in 1 .. l : order[i] = order[j] => i = j
    BY <1>1, <2>1 DEF IInv, DependencyOrder, FollowsImports, NoRepeats
  <2>4. phase = "done" => \A m \in modules : \E i \in 1 .. l : order[i] = m
    BY <1>1, <2>1 DEF IInv, Marked, AfterCheck, Holds
  <2> HIDE DEF order, n, l
  <2>5. FollowsImports(initialised)
    <3> SUFFICES ASSUME NEW i \in 1 .. n, NEW k \in DOMAIN importDecls[initialised[i]]
                 PROVE  \E j \in 1 .. i - 1 : initialised[j] = importDecls[initialised[i]][k].path
      BY <2>1 DEF FollowsImports
    <3>1. i \in 1 .. l /\ initialised[i] = order[i]
      BY <2>1, <2>2
    <3>2. PICK j \in 1 .. i - 1 : order[j] = importDecls[order[i]][k].path
      BY <2>3, <3>1
    <3>3. j \in 1 .. n
      BY <2>1, <3>2
    <3> QED BY <2>2, <3>1, <3>2, <3>3
  <2>6. NoRepeats(initialised)
    <3>1. \A i \in 1 .. n : i \in 1 .. l
      BY <2>1
    <3> QED BY <2>1, <2>2, <2>3, <3>1 DEF NoRepeats
  <2>7. ASSUME phase = "done"
        PROVE  {initialised[i] : i \in DOMAIN initialised} = modules
    <3>1. \A m \in modules : \E i \in 1 .. n : initialised[i] = m
      BY <2>1, <2>2, <2>4, <2>7
    <3> QED BY <2>1, <3>1
  <2> QED BY <2>5, <2>6, <2>7 DEF InitialisedInOrder
<1> QED BY <1>1, InvariantHolds, PTL

\* A program is started only if it is well formed, and the loader and the linker
\* reject no well-formed one.
THEOREM VerdictHolds == Spec => []VerdictIsRight
<1>1. ASSUME IInv, phase \in {"run", "done"}
      PROVE  WellFormed
  <2> DEFINE order == declarationOrder
             l == Len(order)
             place == [m \in modules |-> CHOOSE i \in 1 .. l : order[i] = m]
  <2>1. /\ l \in Nat /\ DOMAIN order = 1 .. l
        /\ \A i \in 1 .. l : order[i] \in modules
    <3>1. order \in Seq(modules)
      BY <1>1 DEF IInv, TypeOK
    <3> QED BY <3>1, LenProperties, ElementOfSeq
  <2>2. /\ \A i \in 1 .. l : \A k \in DOMAIN importDecls[order[i]] :
             \E j \in 1 .. i - 1 : order[j] = importDecls[order[i]][k].path
        /\ \A i, j \in 1 .. l : order[i] = order[j] => i = j
    BY <1>1, <2>1 DEF IInv, DependencyOrder, FollowsImports, NoRepeats
  <2>3. \A m \in modules : \E i \in 1 .. l : order[i] = m
    BY <1>1, <2>1 DEF IInv, Marked, AfterCheck, Holds
  <2>4. Closed(modules)
    <3>1. Collected
      BY <1>1 DEF IInv
    <3>2. importQueue = << >> /\ phase # "failed"
      BY <1>1, <3>1 DEF Collected
    <3>3. \A x : ~Holds(importQueue, x)
      BY <3>2, EmptyHolds
    <3> QED BY <3>1, <3>2, <3>3 DEF Collected, Closed
  <2>5. \A m \in modules : ~DuplicateAlias(m)
    BY <1>1 DEF IInv, Linked
  <2> HIDE DEF order, l
  <2>6. \A m \in modules : place[m] \in 1 .. l /\ order[place[m]] = m
    BY <2>3
  <2> HIDE DEF place
  <2>7. Ranks(modules, place)
    <3> SUFFICES ASSUME NEW m \in modules, NEW k \in DOMAIN importDecls[m]
                 PROVE  place[importDecls[m][k].path] < place[m]
      BY DEF Ranks
    <3>1. place[m] \in 1 .. l /\ order[place[m]] = m
      BY <2>6
    <3>2. PICK j \in 1 .. place[m] - 1 : order[j] = importDecls[m][k].path
      BY <2>2, <3>1
    <3>3. j \in 1 .. l /\ j < place[m]
      BY <2>1, <3>1, <3>2
    <3>4. importDecls[m][k].path \in modules
      BY <2>4 DEF Closed
    <3>5. place[importDecls[m][k].path] = j
      BY <2>2, <2>6, <3>2, <3>3, <3>4
    <3> QED BY <3>3, <3>5
  <2>8. Cardinality(modules) = l
    <3> DEFINE f == [i \in 1 .. l |-> order[i]]
    <3>1. f \in [1 .. l -> modules] /\ \A m \in modules : \E i \in 1 .. l : f[i] = m
      BY <2>1, <2>3
    <3>2. \A i, j \in 1 .. l : f[i] = f[j] => i = j
      BY <2>2
    <3> HIDE DEF f
    <3>3. f \in Bijection(1 .. l, modules)
      BY <3>1, <3>2 DEF Bijection, Injection, Surjection, IsInjective
    <3>4. ExistsBijection(1 .. l, modules)
      BY <3>3 DEF ExistsBijection
    <3>5. IsFiniteSet(1 .. l) /\ Cardinality(1 .. l) = l
      <4>1. 1 \in Int /\ l \in Int /\ IF 1 > l THEN l = 0 ELSE l - 1 + 1 = l
        BY <2>1
      <4> QED BY <4>1, FS_Interval
    <3> QED BY <3>4, <3>5, FS_Bijection
  <2>9. place \in [modules -> 1 .. Cardinality(modules)]
    <3>1. place \in [modules -> 1 .. l]
      BY <2>6 DEF place
    <3> QED BY <2>8, <3>1
  <2>10. modules \in SUBSET Files
    BY <1>1 DEF IInv, TypeOK
  <2> QED BY <2>4, <2>5, <2>7, <2>9, <2>10 DEF WellFormed
<1>2. IInv => VerdictIsRight
  BY <1>1 DEF IInv, Rejected, VerdictIsRight
<1> QED BY <1>2, InvariantHolds, PTL
=============================================================================
