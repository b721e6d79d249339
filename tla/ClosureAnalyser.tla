--------------------------- MODULE ClosureAnalyser ---------------------------
(***************************************************************************)
(* The sixth pass (Semantics/ClosureAnalyser.cpp): every function gets     *)
(* slots for its locals and for the variables it captures, every use of a  *)
(* variable one of them.                                                   *)
(***************************************************************************)
EXTENDS ReferenceChecker

INVALID_SLOT == -1
NewContext(parent, scope) ==
  [parent |-> parent, scope |-> scope, locals |-> << >>, upvalues |-> << >>, funcDecls |-> << >>]
\* The slot of a symbol among locals or upvalues.
SlotOf(slots, symbol) ==
  LET at == {k \in DOMAIN slots : slots[k].symbol = symbol}
  IN IF at = {} THEN INVALID_SLOT ELSE (CHOOSE k \in at : TRUE) - 1

AllocateLocal(k, symbol, c) ==
  IF SlotOf(c.contexts[k].locals, symbol) # INVALID_SLOT THEN c
  ELSE [c EXCEPT !.symbols[symbol].slot = Len(c.contexts[k].locals),
                 !.contexts[k].locals = Append(@, [symbol |-> symbol, captured |-> FALSE])]

\* Whether the function whose scope that is, or one inside it, defines the symbol.
RECURSIVE ScopeInside(_, _, _)
ScopeInside(c, scope, function) ==
  scope # 0 /\ (scope = function \/ ScopeInside(c, c.scopes[scope].parent, function))
IsInsideFunction(symbol, k, c) == ScopeInside(c, c.symbols[symbol].scope, c.contexts[k].scope)

AddUpvaluePerIndex(k, isLocal, slot, symbol, c) ==
  LET known == {u \in DOMAIN c.contexts[k].upvalues : c.contexts[k].upvalues[u].index = slot}
  IN IF known # {} THEN [slot |-> (CHOOSE u \in known : TRUE) - 1, c |-> c]
     ELSE [slot |-> Len(c.contexts[k].upvalues),
           c |-> [c EXCEPT !.contexts[k].upvalues =
                    Append(@, [symbol |-> symbol, isLocal |-> isLocal, index |-> slot, capturedByChildren |-> FALSE])]]
AddUpvalue(k, isLocal, slot, symbol, c) ==
  [slot |-> Len(c.contexts[k].upvalues),
   c |-> [c EXCEPT !.contexts[k].upvalues =
            Append(@, [symbol |-> symbol, isLocal |-> isLocal, index |-> slot, capturedByChildren |-> FALSE])]]
\* The slot of the symbol among the variables context k captures: from a local of the
\* parent, or from a variable the parent captures itself.
RECURSIVE ResolveUpvalue(_, _, _)
ResolveUpvalue(k, symbol, c) ==
  LET parent == c.contexts[k].parent
      known == SlotOf(c.contexts[k].upvalues, symbol)
      allocated == AllocateLocal(parent, symbol, c)
      slot == SlotOf(allocated.contexts[parent].locals, symbol)
      outer == ResolveUpvalue(parent, symbol, c)
  IN CASE parent = 0 -> [slot |-> INVALID_SLOT, c |-> c]
       [] parent # 0 /\ known # INVALID_SLOT -> [slot |-> known, c |-> c]
       [] parent # 0 /\ known = INVALID_SLOT /\ IsInsideFunction(symbol, parent, c) ->
            AddUpvalue(k, TRUE, slot, symbol, [allocated EXCEPT !.contexts[parent].locals[slot + 1].captured = TRUE])
       [] OTHER ->
            IF outer.slot = INVALID_SLOT THEN outer
            ELSE AddUpvalue(k, FALSE, outer.slot, symbol,
                            [outer.c EXCEPT !.contexts[parent].upvalues[outer.slot + 1].capturedByChildren = TRUE])

ResolveVariable(n, symbol, c) ==
  LET local == AllocateLocal(c.ctx, symbol, c)
      upvalue == ResolveUpvalue(c.ctx, symbol, c)
  IN IF c.resolution[n.id] # Unresolved THEN c
     ELSE IF IsInsideFunction(symbol, c.ctx, c)
     THEN [local EXCEPT !.resolution[n.id] = <<"local", SlotOf(local.contexts[c.ctx].locals, symbol)>>]
     ELSE [Demand(upvalue.slot # INVALID_SLOT, upvalue.c, "undefined variable") EXCEPT
             !.resolution[n.id] = <<"upvalue", upvalue.slot>>]

RECURSIVE Analysed(_, _)
AnalysedEach(ns, c) == Each(LAMBDA n, d : Analysed(n, d), ns, c)
AnalysedFunction(n, c) ==
  LET k == Len(c.contexts) + 1
      entered == [c EXCEPT !.contexts = Append(@, NewContext(c.ctx, c.scopeOf[n.id])), !.ctx = k, !.contextOf[n.id] = k]
      params == Each(LAMBDA p, d : AllocateLocal(k, d.symbolOf[p.id], d), Params(n), entered)
  IN [AnalysedEach(<<Body(n)>>, params) EXCEPT !.ctx = c.ctx]
AnalysedLet(n, c) ==
  LET visited == AnalysedEach(Children(n), c)
      listed == IF n.kind # "declare" THEN visited
                ELSE [visited EXCEPT !.contexts[c.ctx].funcDecls = Append(@, <<c.symbolOf[n.id], n.kids[2]>>)]
  IN AllocateLocal(c.ctx, c.symbolOf[n.id], listed)

Analysed(n, c) ==
  CASE Failed(c) -> c
    [] IsVariable(n) \/ n.kind = "this" -> ResolveVariable(n, c.symbolOf[n.id], c)
    [] n.kind = "function" -> AnalysedFunction(n, c)
    [] n.kind \in {"let", "var", "declare"} -> AnalysedLet(n, c)
    [] n.kind = "call" -> AnalysedEach(<<n.kids[1]>> \o LoweredArguments(n, c), c)
    [] n.kind = "class" -> AnalysedEach(Children(n) \o <<n.kids[5]>>, c)
    [] OTHER -> AnalysedEach(Children(n), c)

Analyse(program, c) ==
  [AnalysedEach(Statements(program), [c EXCEPT !.contexts = <<NewContext(0, GlobalScope)>>, !.ctx = 1])
     EXCEPT !.contextOf[program.id] = 1]
=============================================================================
