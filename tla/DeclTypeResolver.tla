--------------------------- MODULE DeclTypeResolver ---------------------------
(***************************************************************************)
(* The second pass (Semantics/DeclTypeResolver.cpp): the types of          *)
(* aggregates, of parameters and of functions.  A function type is         *)
(* interned by its parameter and result types; what else is known of the   *)
(* parameters hangs on the interned type (Semantics/TypeHelpers.hpp).      *)
(***************************************************************************)
EXTENDS SymbolScopeBuilder

RECURSIVE Innermost(_, _, _, _)
\* The innermost scope around `scope' that declares the name, or none.
Innermost(c, scope, table, name) ==
  IF scope = 0 \/ name \in DOMAIN c.scopes[scope][table] THEN scope
  ELSE Innermost(c, c.scopes[scope].parent, table, name)
LookupTypeSymbol(c, name) ==
  LET scope == Innermost(c, c.at, "types", name) IN IF scope = 0 THEN 0 ELSE c.scopes[scope].types[name]

\* The type a signature stands for: NoType where the compiler throws, on an unknown name
\* and on an aggregate whose declaration the second pass has not come to.
RECURSIVE TypeOfSig(_, _)
TypeOfSig(c, type) ==
  CASE type.kind \in Primitives -> <<type.kind>>
    [] type.kind \in {"unsized", "sized"} ->
         LET element == TypeOfSig(c, type.kids[1])
         IN IF element = NoType THEN NoType
            ELSE ArrayType(element, IF type.kind = "sized" THEN IntValue[type.kids[2].kind] ELSE Unsized)
    [] type.kind = "function type" ->
         LET params == [k \in DOMAIN type.kids[1].kids |-> TypeOfSig(c, type.kids[1].kids[k])]
             result == TypeOfSig(c, type.kids[2])
         IN IF NoType \in {result} \union {params[k] : k \in DOMAIN params} THEN NoType
            ELSE FunctionType(params, result)
    [] type.kind = "scoped" ->
         LET symbol == LookupTypeSymbol(c, type.kids[1].kids[1].kind)
         IN IF symbol = 0 THEN NoType ELSE c.typeSymbols[symbol].type
    [] OTHER -> NoType

RECURSIVE Typed(_, _)
TypedEach(ns, c) == Each(LAMBDA n, d : IF Failed(d) THEN d ELSE Typed(n, d), ns, c)

\* The implicit parameter has its type already.
TypedParameter(p, c) ==
  LET symbol == c.symbolOf[p.id]
      type == CASE c.symbols[symbol].type # NoType -> c.symbols[symbol].type
                [] c.symbols[symbol].type = NoType /\ p.kids[2].kind # "nothing" -> TypeOfSig(c, p.kids[2])
                [] OTHER -> NoType
      annotated == Demand(type # NoType, [c EXCEPT !.symbols[symbol].type = type], "parameter type")
  IN IF Failed(annotated) THEN annotated
     ELSE [TypedEach(Present(<<p.kids[3]>>), annotated) EXCEPT !.symbols[symbol].available = TRUE]
ParamInfo(p, type) ==
  [hasDefault |-> p.kids[3].kind # "nothing", implicitThis |-> p.kind = "parameter this", type |-> type]
TypedFunction(n, c) ==
  LET params == Each(LAMBDA p, d : IF Failed(d) THEN d ELSE TypedParameter(p, d), Params(n), c)
      body == In(c.at, params, LAMBDA d : TypedEach(<<Body(n)>>, d))
      types == [k \in DOMAIN Params(n) |-> body.symbols[body.symbolOf[Params(n)[k].id]].type]
      result == IF n.kids[2].kind = "nothing" THEN ANY_TYPE ELSE TypeOfSig(body, n.kids[2])
      type == FunctionType(types, result)
  IN IF Failed(body) THEN body
     ELSE [Demand(result # NoType, body, "result type") EXCEPT
             !.typeOf[n.id] = type,
             !.info = (type :> [k \in DOMAIN Params(n) |-> ParamInfo(Params(n)[k], types[k])]) @@ @]

\* A member function, `this' being its first parameter; the field initialiser has no name.
TypedMember(function, c) ==
  LET this == c.symbolOf[Params(function)[1].id]
  IN IF Failed(c) THEN c
     ELSE Typed(function, [c EXCEPT !.this = this, !.symbols[this].type = InstanceType(c.aggregate)])
TypedNamedMember(member, function, c) ==
  LET visited == TypedMember(function, c)
  IN IF Failed(visited) THEN visited
     ELSE [visited EXCEPT !.symbols[c.symbolOf[member.id]].type = visited.typeOf[function.id]]
Members(c, ns) == [k \in DOMAIN ns |-> c.symbolOf[ns[k].id]]
NamedMembers(c, ns) ==
  [name \in {Name(ns[k]) : k \in DOMAIN ns} |-> c.symbolOf[(CHOOSE m \in ToSet(ns) : Name(m) = name).id]]
\* A member is in the aggregate's type only once it has been visited: a constructor sees
\* the fields and the methods, a method the methods above it.
TypedClass(n, c) ==
  LET aggregate == Len(c.aggregates) + 1
      named == [c EXCEPT !.typeSymbols[c.symbolOf[n.kids[1].id]].type = InstanceType(aggregate),
                         !.aggregates = Append(@, [fields |-> NamedMembers(c, Fields(n)), size |-> Len(Fields(n)),
                                                   methods |-> NamedMembers(c, Methods(n)),
                                                   constructors |-> Members(c, Constructors(n)), fieldInit |-> 0]),
                         !.aggregate = aggregate, !.at = c.scopeOf[n.id]]
      methods == Each(LAMBDA m, d : TypedNamedMember(m, m.kids[2], d), Methods(n), named)
      constructors == Each(LAMBDA k, d : TypedNamedMember(k, k.kids[1], d), Constructors(n), methods)
      fieldInit == TypedMember(n.kids[5], constructors)
  IN [fieldInit EXCEPT !.this = c.this, !.aggregate = c.aggregate, !.at = c.at]

Typed(n, c) ==
  CASE n.kind = "function" -> TypedFunction(n, c)
    [] n.kind = "this" ->
         [Demand(c.this # 0, c, "this outside a method") EXCEPT !.symbolOf[n.id] = c.this]
    [] n.kind = "block" -> In(c.scopeOf[n.id], c, LAMBDA d : TypedEach(Children(n), d))
    [] n.kind = "declare" ->
         LET function == Typed(n.kids[2], c)
         IN [function EXCEPT !.symbols[c.symbolOf[n.id]].type = function.typeOf[n.kids[2].id]]
    [] n.kind = "class" -> TypedClass(n, c)
    [] OTHER -> TypedEach(Children(n), c)

DeclaredTypes(program, c) == TypedEach(Statements(program), c)
=============================================================================
