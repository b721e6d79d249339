-------------------------- MODULE SymbolScopeBuilder --------------------------
(***************************************************************************)
(* The first pass (Semantics/SymbolScopeBuilder.cpp): a scope for every    *)
(* function, block and aggregate, a symbol for every name declared there.  *)
(***************************************************************************)
EXTENDS Ast

EnterScope(n, c, Visit(_)) ==
  LET entered == [c EXCEPT !.scopes = Append(@, NewScope(c.at)), !.at = Len(c.scopes) + 1,
                           !.scopeOf[n.id] = Len(c.scopes) + 1]
  IN [Visit(entered) EXCEPT !.at = c.at]

\* The new symbol is the last one; only the current scope is looked at.
DeclareVar(n, name, mutable, c) ==
  IF name \in DOMAIN c.scopes[c.at].values THEN Fail(c, "redeclaration")
  ELSE LET symbol == Len(c.symbols) + 1
       IN [c EXCEPT !.symbols = Append(@, NewSymbol(name, mutable, c.at)),
                    !.scopes[c.at].values = (name :> symbol) @@ @,
                    !.symbolOf[n.id] = symbol]
DeclareType(n, name, c) ==
  IF name \in DOMAIN c.scopes[c.at].types THEN Fail(c, "redeclaration")
  ELSE LET symbol == Len(c.typeSymbols) + 1
       IN [c EXCEPT !.typeSymbols = Append(@, [name |-> name, type |-> NoType]),
                    !.scopes[c.at].types = (name :> symbol) @@ @,
                    !.symbolOf[n.id] = symbol]

RECURSIVE Scoped(_, _)
ScopedEach(ns, c) == Each(LAMBDA n, d : IF Failed(d) THEN d ELSE Scoped(n, d), ns, c)

ScopedParameters(params, c) == Each(LAMBDA p, d : DeclareVar(p, Name(p), p.kind = "parameter var", d), params, c)
ScopedMember(member, function, name, c) ==
  LET declared == DeclareVar(member, name, FALSE, c) IN ScopedEach(<<function>>, declared)
ScopedClass(n, c) ==
  EnterScope(n, DeclareType(n.kids[1], Name(n), c), LAMBDA c0 :
    LET fields == Each(LAMBDA f, d : DeclareVar(f, Name(f), f.kind = "var", d), Fields(n), c0)
        methods == Each(LAMBDA m, d : ScopedMember(m, m.kids[2], Name(m), d), Methods(n), fields)
        constructors == Each(LAMBDA k, d : ScopedMember(k, k.kids[1], "implicit_init" \o ToString(k.id), d),
                             Constructors(n), methods)
    IN ScopedEach(<<n.kids[5]>>, constructors))

Scoped(n, c) ==
  CASE n.kind = "function" ->
         EnterScope(n, c, LAMBDA c0 : ScopedEach(<<Body(n)>>, ScopedParameters(Params(n), c0)))
    [] n.kind = "block" -> EnterScope(n, c, LAMBDA c0 : ScopedEach(Children(n), c0))
    [] n.kind \in {"let", "var"} -> ScopedEach(Initialiser(n), DeclareVar(n, Name(n), n.kind = "var", c))
    [] n.kind = "declare" ->
         LET declared == DeclareVar(n, Name(n), FALSE, c)
         IN IF Failed(declared) THEN declared
            ELSE Scoped(n.kids[2], [declared EXCEPT !.symbols[Len(declared.symbols)].available = TRUE])
    [] n.kind = "class" -> ScopedClass(n, c)
    [] OTHER -> ScopedEach(Children(n), c)

SymbolScopes(program, c) == ScopedEach(Statements(program), c)
=============================================================================
