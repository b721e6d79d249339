------------------------------- MODULE Resolver -------------------------------
(***************************************************************************)
(* The third pass (Semantics/Resolver.cpp): names to symbols, the types of *)
(* expressions and variables, the checks of assignments and calls.         *)
(***************************************************************************)
EXTENDS DeclTypeResolver

\* The innermost declaration counts even where it cannot be used yet.
LookupVarSymbolAnywhere(c, name) ==
  LET scope == Innermost(c, c.at, "values", name)
  IN IF scope = 0 THEN 0 ELSE c.scopes[scope].values[name]
LookupVarSymbol(c, name) ==
  LET symbol == LookupVarSymbolAnywhere(c, name)
  IN IF symbol # 0 /\ c.symbols[symbol].available THEN symbol ELSE 0

Calculations == {"+", "-", "*", "/", "%"}
BitOps == {"<<", ">>", "&", "|", "^"}
Comparisons == {"<", "<=", ">", ">="}
Equalities == {"==", "!="}
\* The type of a binary expression, NoType where it is refused.
TestBinary(op, left, right) ==
  CASE op \in Calculations \union Comparisons /\ (left # INT_TYPE \/ right # INT_TYPE) -> NoType
    [] op \in Equalities /\ left # right -> NoType
    [] op \in Calculations \union BitOps -> INT_TYPE
    [] op \in Comparisons \union Equalities \union {"&&", "||"} -> BOOL_TYPE
    [] OTHER -> NoType

\* A fixed length fits an unsized array or the same length.
RECURSIVE IsAssignable(_, _)
IsAssignable(from, to) ==
  \/ to = ANY_TYPE
  \/ from = to
  \/ /\ Kind(from) = "array" /\ Kind(to) = "array"
     /\ IsAssignable(from[2], to[2])
     /\ to[3] \in {Unsized, from[3]}

RECURSIVE Resolved(_, _)
ResolvedEach(ns, c) == Each(LAMBDA n, d : Resolved(n, d), ns, c)
SetType(n, type, c, what) ==
  IF Failed(c) THEN c ELSE [Demand(type # NoType, c, what) EXCEPT !.typeOf[n.id] = type]
Expecting(type, n, c) == [Resolved(n, [c EXCEPT !.expected = type]) EXCEPT !.expected = c.expected]

(***************************************************************************)
(* Expressions                                                             *)
(***************************************************************************)
LiteralType(token) ==
  CASE token \in {"true", "false"} -> BOOL_TYPE [] token = "null" -> NULL_TYPE [] OTHER -> INT_TYPE
ResolvedVariable(n, c) ==
  LET symbol == LookupVarSymbol(c, n.kind)
      found == Demand(symbol # 0, c, "undefined variable")
  IN IF Failed(found) THEN found
     ELSE LET named == [found EXCEPT !.symbolOf[n.id] = symbol, !.typeOf[n.id] = c.symbols[symbol].type]
          IN Demand(~(c.assigning /\ c.symbols[symbol].type = UNINITIALISED), named, "uninitialised variable")
ResolvedArray(n, c) ==
  LET elements == n.kids[1].kids
      visited == ResolvedEach(elements, c)
      first == TypeAt(visited, elements[1])
      type ==
        CASE elements = << >> /\ c.expected = NoType -> ArrayType(ANY_TYPE, 0)
          [] elements = << >> /\ Kind(c.expected) = "array" ->
               IF c.expected[3] \in {Unsized, 0} THEN c.expected ELSE NoType
          [] elements # << >> ->
               IF \A k \in DOMAIN elements : TypeAt(visited, elements[k]) \in {first, ANY_TYPE}
               THEN ArrayType(first, Len(elements)) ELSE NoType
          [] OTHER -> NoType
  IN SetType(n, type, visited, "array literal")
\* Increments need a place, the other operators an int.
ResolvedUnary(n, c) ==
  LET visited == Resolved(n.kids[2], c)
  IN SetType(n, IF TypeAt(visited, n.kids[2]) = INT_TYPE THEN INT_TYPE ELSE NoType, visited, "unary operand")
ResolvedAssignment(n, c) ==
  LET left == [Resolved(n.kids[1], [c EXCEPT !.assigning = TRUE]) EXCEPT !.assigning = FALSE]
      right == Expecting(TypeAt(left, n.kids[1]), n.kids[3], left)
      typed == SetType(n, TypeAt(left, n.kids[1]), right, "assignment")
  IN Demand(Failed(typed) \/ IsAssignable(TypeAt(typed, n.kids[3]), TypeAt(typed, n.kids[1])), typed, "type mismatch")
ResolvedIndex(n, c) ==
  LET object == Resolved(n.kids[1], c)
      type == TypeAt(object, n.kids[1])
      index == Resolved(n.kids[2], Demand(Kind(type) \in {"array", "any"}, object, "only arrays are indexed"))
      whole == Demand(TypeAt(index, n.kids[2]) \in {INT_TYPE, ANY_TYPE}, index, "index type")
  IN SetType(n, IF type = ANY_TYPE THEN ANY_TYPE ELSE type[2], whole, "index")

\* The first argument belongs to the parameter after `this'.  A call of a value of type
\* any reads a function type where there is none.
ResolvedCall(n, c) ==
  LET callee == Resolved(n.kids[1], c)
      type == TypeAt(callee, n.kids[1])
      callable == Demand(type # ANY_TYPE, Demand(Kind(type) \in {"function", "any"}, callee, "uncallable"), "undefined behaviour")
      info == IF type \in DOMAIN c.info THEN c.info[type]
              ELSE [k \in DOMAIN type[2] |-> [hasDefault |-> FALSE, implicitThis |-> FALSE, type |-> type[2][k]]]
      required == SelectSeq(info, LAMBDA p : ~p.hasDefault /\ ~p.implicitThis)
      this == Len(SelectSeq(info, LAMBDA p : p.implicitThis))
      counted == Demand(Len(Arguments(n)) \in Len(required)..Len(info), callable, "number of arguments")
      Checked(k, d) ==
        LET visited == Resolved(Arguments(n)[k], d)
        IN IF Failed(visited) THEN visited
           ELSE IF this + k > Len(info) THEN Fail(visited, "undefined behaviour")
           ELSE Demand(IsAssignable(TypeAt(visited, Arguments(n)[k]), info[this + k].type), visited, "argument type")
  IN CASE Failed(callable) -> callable
       [] ~Failed(callable) /\ Failed(counted) -> counted
       [] OTHER -> Each(Checked, [k \in DOMAIN Arguments(n) |-> k], SetType(n, type[3], counted, "call"))

\* A field of an instance, or a method of it.
ResolvedGet(n, c) ==
  LET object == Resolved(n.kids[1], c)
      type == TypeAt(object, n.kids[1])
      aggregate == c.aggregates[type[2]]
      name == Member(n)
  IN CASE Failed(object) -> object
       [] ~Failed(object) /\ Kind(type) # "instance" -> Fail(object, "only instances have members")
       [] ~Failed(object) /\ Kind(type) = "instance" ->
            CASE name \in DOMAIN aggregate.fields ->
                   SetType(n, c.symbols[aggregate.fields[name]].type, object, "field without a type")
              [] name \in DOMAIN aggregate.methods \ DOMAIN aggregate.fields ->
                   [SetType(n, c.symbols[aggregate.methods[name]].type, object, "method")
                      EXCEPT !.methodOf[n.id] = aggregate.methods[name]]
              [] OTHER -> Fail(object, "property not found")

ResolvedNew(n, c) ==
  LET type == TypeOfSig(c, n.kids[1])
      named == Demand(Kind(type) = "instance", c, "not an aggregate")
  IN ResolvedEach(Arguments(n), SetType(n, type, named, "new"))

(***************************************************************************)
(* Functions, statements and declarations                                  *)
(***************************************************************************)
ResolvedFunction(n, c) ==
  LET Default(p, d) ==
        LET visited == Resolved(p.kids[3], d)
        IN Demand(TypeAt(visited, p.kids[3]) = visited.symbols[visited.symbolOf[p.id]].type, visited, "default type")
  IN In(c.scopeOf[n.id], c, LAMBDA d :
       Resolved(Body(n), Each(Default, SelectSeq(Params(n), LAMBDA p : p.kids[3].kind # "nothing"), d)))
ResolvedThis(n, c) ==
  IF c.this = 0 THEN Fail(c, "this outside a member")
  ELSE [c EXCEPT !.symbolOf[n.id] = c.this, !.typeOf[n.id] = c.symbols[c.this].type]
ResolvedLoop(n, c) ==
  [ResolvedEach(Children(n), [c EXCEPT !.loopDepth = @ + 1]) EXCEPT !.loopDepth = c.loopDepth]

\* The type of a variable from its annotation and its initialiser, NoType for none.
HandleAnnotatedUnchecked(annotated, inferred) ==
  CASE annotated = NoType /\ inferred = NoType -> UNINITIALISED
    [] annotated = NoType /\ inferred # NoType -> inferred
    [] OTHER -> annotated
HandleAnnotatedAndInferred(annotated, inferred) ==
  CASE annotated = NoType /\ inferred = NoType -> UNINITIALISED
    [] annotated = NoType /\ inferred # NoType -> inferred
    [] annotated # NoType /\ inferred # NoType /\ ~IsAssignable(inferred, annotated) -> NoType
    [] annotated # NoType /\ inferred # NoType /\ Kind(annotated) = "function" -> inferred
    [] OTHER -> annotated
Annotation(n, c) == IF n.kids[2].kind = "nothing" THEN NoType ELSE TypeOfSig(c, n.kids[2])
Annotated(n, c) ==
  Demand(n.kids[2].kind = "nothing" \/ Annotation(n, c) \notin {NoType, VOID_TYPE}, c, "annotation")
ResolvedLet(n, c) ==
  LET annotated == Annotation(n, c)
      expected == IF annotated = NoType THEN c.expected ELSE annotated
      visited == IF Initialiser(n) = << >> THEN Annotated(n, c) ELSE Expecting(expected, n.kids[3], Annotated(n, c))
      inferred == IF Initialiser(n) = << >> THEN NoType ELSE TypeAt(visited, n.kids[3])
      type == HandleAnnotatedAndInferred(annotated, inferred)
      symbol == c.symbolOf[n.id]
  IN IF Failed(visited) THEN visited
     ELSE [Demand(type # NoType, visited, "type mismatch") EXCEPT
             !.symbols[symbol].available = TRUE, !.symbols[symbol].type = type]

ResolvedField(k, n, c) ==
  LET field == c.symbolOf[Fields(n)[k].id]
  IN [Demand(Annotation(Fields(n)[k], c) # NoType \/ Fields(n)[k].kids[2].kind = "nothing", c, "annotation") EXCEPT
        !.symbols[field].type = HandleAnnotatedAndInferred(Annotation(Fields(n)[k], c), NoType),
        !.symbols[field].fieldOffset = k - 1]
ResolvedMember(function, c) ==
  Resolved(function, [c EXCEPT !.this = c.symbolOf[Params(function)[1].id]])
ResolvedClass(n, c) ==
  LET aggregate == c.typeSymbols[c.symbolOf[n.kids[1].id]].type[2]
      members == [k \in DOMAIN Methods(n) |-> Methods(n)[k].kids[2]]
                 \o [k \in DOMAIN Constructors(n) |-> Constructors(n)[k].kids[1]] \o <<n.kids[5]>>
  IN [In(c.scopeOf[n.id], [c EXCEPT !.aggregate = aggregate], LAMBDA d :
        Each(ResolvedMember, members,
             Each(LAMBDA k, e : ResolvedField(k, n, e), [k \in DOMAIN Fields(n) |-> k], d)))
      EXCEPT !.this = c.this, !.aggregate = c.aggregate]

Resolved(n, c) ==
  CASE Failed(c) -> c
    [] n.kind \in Constants -> [c EXCEPT !.typeOf[n.id] = LiteralType(n.kind)]
    [] IsVariable(n) -> ResolvedVariable(n, c)
    [] n.kind = "array" -> ResolvedArray(n, c)
    [] n.kind = "binary" ->
         LET visited == ResolvedEach(Children(n), c)
         IN SetType(n, TestBinary(n.kids[2].kind, TypeAt(visited, n.kids[1]), TypeAt(visited, n.kids[3])), visited, "operands")
    [] n.kind = "unary" -> ResolvedUnary(n, c)
    [] n.kind \in {"assign", "initialise"} -> ResolvedAssignment(n, c)
    [] n.kind = "index" -> ResolvedIndex(n, c)
    [] n.kind = "call" -> ResolvedCall(n, c)
    [] n.kind = "get" -> ResolvedGet(n, c)
    [] n.kind = "new" -> ResolvedNew(n, c)
    [] n.kind = "function" -> ResolvedFunction(n, c)
    [] n.kind = "this" -> ResolvedThis(n, c)
    [] n.kind = "block" -> In(c.scopeOf[n.id], c, LAMBDA d : ResolvedEach(Children(n), d))
    [] n.kind = "while" -> ResolvedLoop(n, c)
    [] n.kind \in {"break", "continue"} -> Demand(c.loopDepth > 0, c, "outside a loop")
    [] n.kind \in {"let", "var"} -> ResolvedLet(n, c)
    [] n.kind = "class" -> ResolvedClass(n, c)
    [] OTHER -> ResolvedEach(Children(n), c)

Resolve(program, c) == ResolvedEach(Statements(program), c)
=============================================================================
