--------------------------------- MODULE Ast ---------------------------------
(***************************************************************************)
(* The tree the passes of the compiler walk (Core/Ast.hpp), made of the    *)
(* parser's, and what the passes share.  Passes write on shared nodes, so  *)
(* a node is numbered and every annotation is a table in the context c     *)
(* that the passes hand on.  A pass that throws leaves `error' in c.       *)
(***************************************************************************)
EXTENDS Syntax

ImplicitThis == Node("parameter this", <<Leaf("$implicit_this_param"), Nothing, Nothing>>)
WithThis(function) == [function EXCEPT !.kids[1].kids = <<ImplicitThis>> \o @]

\* The function that runs the field initialisers, as assignments that may set a `let'.
FieldInit(initialisers) ==
  LET Assign(i) == Node("initialise", <<Node("get", <<Leaf("this"), i.kids[1]>>), Leaf("="), i.kids[2]>>)
  IN WithThis(Node("function",
       <<List(<< >>), Nothing,
         Node("block", <<List([k \in DOMAIN initialisers |-> Node("expression", <<Assign(initialisers[k])>>)])>>)>>))

RECURSIVE Built(_), Sized(_), SizeOf(_)
\* Aggregates with their implicit parameters and their field initialiser.
Built(n) ==
  LET kids == [k \in DOMAIN n.kids |-> Built(n.kids[k])]
  IN CASE n.kind = "class" ->
            Node("class", <<kids[1], kids[2],
              List([k \in DOMAIN kids[3].kids |-> Node("method", <<kids[3].kids[k].kids[1], WithThis(kids[3].kids[k].kids[2])>>)]),
              List([k \in DOMAIN kids[4].kids |-> Node("init", <<WithThis(kids[4].kids[k].kids[1])>>)]),
              FieldInit(kids[6].kids)>>)
       [] OTHER -> Node(n.kind, kids)
Sized(ns) == IF ns = << >> THEN 0 ELSE SizeOf(Head(ns)) + Sized(Tail(ns))
SizeOf(n) == 1 + Sized(n.kids)
RECURSIVE Numbered(_, _)
Numbered(n, id) ==
  [kind |-> n.kind, id |-> id,
   kids |-> [k \in DOMAIN n.kids |-> Numbered(n.kids[k], id + 1 + Sized(SubSeq(n.kids, 1, k - 1)))]]

\* A file is a function whose body is the block of its statements.
Program(statements) ==
  Numbered(Built(Node("function", <<List(<< >>), Nothing, Node("block", <<List(statements)>>)>>)), 1)

Name(n) == n.kids[1].kind
Member(get) == get.kids[2].kind
Present(ns) == SelectSeq(ns, LAMBDA n : n.kind # "nothing")
Params(function) == function.kids[1].kids
Body(function) == function.kids[3]
Statements(program) == Body(program).kids[1].kids
Arguments(call) == call.kids[2].kids
Initialiser(let) == Present(<<let.kids[3]>>)
Fields(class) == class.kids[2].kids
Methods(class) == class.kids[3].kids
Constructors(class) == class.kids[4].kids

IntValue == [l \in {"0", "1", "2", "3"} |-> CASE l = "0" -> 0 [] l = "1" -> 1 [] l = "2" -> 2 [] l = "3" -> 3]
Constants == DOMAIN IntValue \union {"true", "false", "null"}
Composite ==
  {"array", "binary", "unary", "assign", "initialise", "index", "call", "get", "function", "new", "print", "if",
   "while", "block", "break", "continue", "let", "var", "declare", "return", "class", "expression", "this", "nothing"}
IsVariable(n) == n.kind \notin Constants \union Composite

\* What a pass visits that has no rule of its own for a node.
Children(n) ==
  CASE n.kind \in {"binary", "assign", "initialise"} -> <<n.kids[1], n.kids[3]>>
    [] n.kind = "unary" -> <<n.kids[2]>>
    [] n.kind = "call" -> <<n.kids[1]>> \o Arguments(n)
    [] n.kind = "get" -> <<n.kids[1]>>
    [] n.kind = "new" -> Arguments(n)
    [] n.kind \in {"array", "block"} -> n.kids[1].kids
    [] n.kind \in {"index", "print", "while", "return", "expression", "if"} -> Present(n.kids)
    [] n.kind \in {"let", "var"} -> Initialiser(n)
    [] n.kind = "declare" -> <<n.kids[2]>>
    [] n.kind = "function" -> Present([k \in DOMAIN Params(n) |-> Params(n)[k].kids[3]]) \o <<Body(n)>>
    [] n.kind = "class" -> [k \in DOMAIN Methods(n) |-> Methods(n)[k].kids[2]]
                           \o [k \in DOMAIN Constructors(n) |-> Constructors(n)[k].kids[1]]
    [] OTHER -> << >>

(***************************************************************************)
(* Types.  Interned types are equal exactly when they are the same object. *)
(***************************************************************************)
NoType == <<"none">>
INT_TYPE == <<"int">>
BOOL_TYPE == <<"bool">>
NULL_TYPE == <<"null">>
VOID_TYPE == <<"void">>
ANY_TYPE == <<"any">>
UNINITIALISED == <<"uninitialised">>
Primitives == {"int", "bool", "null", "void", "any"}
Unsized == -1
ArrayType(element, length) == <<"array", element, length>>
FunctionType(params, result) == <<"function", params, result>>
InstanceType(aggregate) == <<"instance", aggregate>>
Kind(type) == type[1]

(***************************************************************************)
(* The context of the passes                                               *)
(***************************************************************************)
GlobalScope == 1
Unresolved == <<"unresolved", 0>>
NewScope(parent) == [parent |-> parent, values |-> << >>, types |-> << >>]
NewSymbol(name, mutable, scope) ==
  [name |-> name, mutable |-> mutable, scope |-> scope, available |-> FALSE, type |-> NoType,
   fieldOffset |-> -1, slot |-> -1, funcProtoIdx |-> -1]
StartOf(program) ==
  LET PerNode(v) == [id \in 1..SizeOf(program) |-> v]
  IN [error |-> "", at |-> GlobalScope, this |-> 0, aggregate |-> 0,
      scopes |-> <<NewScope(0)>>, symbols |-> << >>, typeSymbols |-> << >>, aggregates |-> << >>,
      info |-> << >>, scopeOf |-> PerNode(0), symbolOf |-> PerNode(0), typeOf |-> PerNode(NoType),
      expected |-> NoType, assigning |-> FALSE, loopDepth |-> 0, methodOf |-> PerNode(0),
      availability |-> << >>, lowered |-> {}, contexts |-> << >>, ctx |-> 0,
      contextOf |-> PerNode(0), resolution |-> PerNode(Unresolved),
      chunks |-> << >>, protos |-> << >>, protoOf |-> PerNode(-1), loops |-> << >>, method |-> FALSE, constructor |-> FALSE]

Fail(c, what) == IF c.error = "" THEN [c EXCEPT !.error = what] ELSE c
Demand(condition, c, what) == IF condition THEN c ELSE Fail(c, what)
Failed(c) == c.error # ""
Each(Pass(_, _), ns, c) ==
  LET done[k \in 0..Len(ns)] == IF k = 0 THEN c ELSE Pass(ns[k], done[k - 1]) IN done[Len(ns)]
\* Visit something with other values of the visitor's own fields and restore them.
In(scope, c, Visit(_)) == [Visit([c EXCEPT !.at = scope]) EXCEPT !.at = c.at]
TypeAt(c, n) == c.typeOf[n.id]
=============================================================================
