------------------------------- MODULE Meaning -------------------------------
(***************************************************************************)
(* What a program means, for the compiler and the machine to be compared   *)
(* with: an interpreter of the parser's trees by names, with nothing of    *)
(* the passes in it.  Every block makes new variables; a function keeps    *)
(* the variables around it; a record is copied into a variable, a value    *)
(* that owns something is moved out of the variable a declaration takes it *)
(* from; reading a variable before it has a value or after it was moved,   *)
(* and assigning to a `let' again, stop the program.  An assignment gives  *)
(* a `var' its value, one that was moved or never had any included, and    *)
(* moves nothing out of the variable it takes the value from, nor do       *)
(* arguments: there the checker is followed, not the plan for it.          *)
(***************************************************************************)
EXTENDS Ast, Integers

CONSTANT Fuel   \* how many iterations of loops and calls a program gets

Void == <<"garbage", 0>>
Truth(b) == <<"bool", IF b THEN 1 ELSE 0>>
True(v) == v[1] \in {"function", "array"} \/ (v[1] \in {"int", "bool"} /\ v[2] # 0)
Owning == {"array", "record", "function"}

NothingYet == [cells |-> << >>, objects |-> << >>, output |-> << >>, fate |-> "next", value |-> Void, burnt |-> 0]
Going(s) == s.fate = "next"
Stop(why, s) == IF Going(s) THEN [s EXCEPT !.fate = why] ELSE s
Yield(value, s) == IF Going(s) THEN [s EXCEPT !.value = value] ELSE s
Burn(s) == IF s.burnt >= Fuel THEN Stop("tired", s) ELSE [s EXCEPT !.burnt = @ + 1]
Make(object, s) ==
  IF Going(s) THEN [s EXCEPT !.objects = Append(@, object), !.value = <<object.kind, Len(s.objects) + 1>>] ELSE s
Object(v, s) == s.objects[v[2]]
\* The value is to be of that kind; a program with types never stops here.
Require(kind, v, s) == IF Going(s) /\ v[1] # kind THEN Stop("ill-typed", s) ELSE s

(***************************************************************************)
(* Variables                                                               *)
(***************************************************************************)
\* Fresh before its declaration, blank after one without a value, then set or moved.
NewCell(fixed) == [fixed |-> fixed, state |-> "fresh", value |-> Void]
\* Names stand for the new cells, one each, in the order given.
Names(names, fixed, env, s) ==
  [env |-> [x \in ToSet(names) |-> Len(s.cells) + CHOOSE k \in DOMAIN names : names[k] = x] @@ env,
   s |-> [s EXCEPT !.cells = @ \o [k \in DOMAIN names |-> NewCell(fixed[k])]]]
Read(name, env, s) ==
  IF name \notin DOMAIN env THEN Stop("unbound", s)
  ELSE LET cell == s.cells[env[name]]
       IN CASE cell.state \in {"fresh", "blank"} -> Stop("uninitialised", s)
            [] cell.state = "moved" -> Stop("moved", s)
            [] cell.state = "set" -> Yield(cell.value, s)
Fill(cell, value, s) == IF Going(s) THEN [s EXCEPT !.cells[cell].state = "set", !.cells[cell].value = value] ELSE s
\* The value, copied if it is a record, becomes the variable's and the expression's.
Give(cell, s) ==
  LET copied == IF Going(s) /\ s.value[1] = "record" THEN Make(Object(s.value, s), s) ELSE s
  IN Fill(cell, copied.value, copied)
Assign(name, env, s) ==
  CASE ~Going(s) -> s
    [] Going(s) /\ name \notin DOMAIN env -> Stop("unbound", s)
    [] OTHER ->
         LET cell == s.cells[env[name]]
         IN CASE cell.state = "fresh" -> Stop("uninitialised", s)
              [] cell.fixed /\ cell.state \in {"set", "moved"} -> Stop("immutable", s)
              [] OTHER -> Yield(s.value, Give(env[name], s))

(***************************************************************************)
(* Operators                                                               *)
(***************************************************************************)
\* Division rounds towards zero: the remainder has the sign of the dividend.
Remainder(x, y) ==
  LET size == IF y < 0 THEN -y ELSE y IN IF x < 0 THEN -((-x) % size) ELSE x % size
Quotient(x, y) == LET whole == x - Remainder(x, y) IN IF y < 0 THEN -(whole \div (-y)) ELSE whole \div y
BitsOf(x) == {k \in 0..5 : (x \div 2^k) % 2 = 1}
RECURSIVE FromBits(_)
FromBits(bits) == IF bits = {} THEN 0 ELSE LET k == CHOOSE k \in bits : TRUE IN 2^k + FromBits(bits \ {k})
Operate(op, a, b, s) ==
  LET x == a[2]
      y == b[2]
      Whole(i) == Yield(<<"int", i>>, s)
      Test(t) == Yield(Truth(t), s)
  IN CASE op \notin {"==", "!=", "&&", "||"} /\ Void \in {a, b} -> Stop("error", s)   \* a field never set
       [] op = "+" -> Whole(x + y)
       [] op = "-" -> Whole(x - y)
       [] op = "*" -> Whole(x * y)
       [] op = "/" -> IF y = 0 THEN Stop("undefined", s) ELSE Whole(Quotient(x, y))
       [] op = "%" -> IF y = 0 THEN Stop("error", s) ELSE Whole(Remainder(x, y))
       [] op = "<<" -> Whole(FromBits({k + y : k \in BitsOf(x)}))
       [] op = ">>" -> Whole(FromBits({k - y : k \in {l \in BitsOf(x) : l >= y}}))
       [] op = "&" -> Whole(FromBits(BitsOf(x) \intersect BitsOf(y)))
       [] op = "|" -> Whole(FromBits(BitsOf(x) \union BitsOf(y)))
       [] op = "^" -> Whole(FromBits((BitsOf(x) \union BitsOf(y)) \ (BitsOf(x) \intersect BitsOf(y))))
       [] op = "<" -> Test(x < y)
       [] op = "<=" -> Test(x <= y)
       [] op = ">" -> Test(x > y)
       [] op = ">=" -> Test(x >= y)
       [] op = "==" -> Test(a = b)
       [] op = "!=" -> Test(a # b)
       [] op \in {"&&", "||"} -> Test(True(b))
Simple == ("+=" :> "+") @@ ("&&=" :> "&&") @@ ("<<=" :> "<<")

(***************************************************************************)
(* Expressions                                                             *)
(***************************************************************************)
RECURSIVE Eval(_, _, _), EvalAll(_, _, _), Apply(_, _, _), ExecAll(_, _, _), ExecBlock(_, _, _)
\* All of them, the value being the sequence of their values.
EvalAll(ns, env, s) ==
  LET done[k \in 0..Len(ns)] ==
        IF k = 0 THEN Yield(<< >>, s)
        ELSE LET one == Eval(ns[k], env, done[k - 1]) IN Yield(Append(done[k - 1].value, one.value), one)
  IN done[Len(ns)]

Closure(function, env) == [kind |-> "function", node |-> function, env |-> env]
ClassOf(v, s) == Object(Object(v, s).class, s)
\* The place an assignment goes to: a cell, or a part of an object.
Place(n, env, s) ==
  CASE n.kind = "index" ->
         LET evaluated == EvalAll(n.kids, env, s)
             both == Require("array", evaluated.value[1], evaluated)
         IN IF Going(both) /\ both.value[2][2] + 1 \notin DOMAIN Object(both.value[1], both).parts THEN Stop("error", both)
            ELSE IF Going(both) THEN Yield(<<both.value[1], both.value[2][2] + 1>>, both) ELSE both
    [] n.kind = "get" ->
         LET evaluated == Eval(n.kids[1], env, s)
             object == Require("record", evaluated.value, evaluated)
             fixed == {f \in ToSet(Fields(ClassOf(object.value, object).node)) : f.kind = "let" /\ Name(f) = Member(n)}
         IN IF Going(object) /\ fixed # {} THEN Stop("immutable", object)
            ELSE Yield(<<object.value, Member(n)>>, object)
    [] OTHER -> s
Put(place, value, s) ==
  IF Going(s) THEN [s EXCEPT !.objects[place[1][2]].parts[place[2]] = value, !.value = value] ELSE s

EvalAssign(n, env, s) ==
  LET target == n.kids[1]
      op == n.kids[2].kind
      value == IF op = "=" THEN Eval(n.kids[3], env, s)
               ELSE Eval(Node("binary", <<target, Leaf(Simple[op]), n.kids[3]>>), env, s)
      placed == Place(target, env, value)
  IN IF IsVariable(target) THEN Assign(target.kind, env, value) ELSE Put(placed.value, value.value, placed)

EvalBinary(n, env, s) ==
  LET left == Eval(n.kids[1], env, s)
      op == n.kids[2].kind
      right == Eval(n.kids[3], env, left)
      decided == Going(left) /\ ((op = "&&" /\ ~True(left.value)) \/ (op = "||" /\ True(left.value)))
  IN IF decided THEN Yield(Truth(op = "||"), left)
     ELSE IF Going(right) THEN Operate(op, left.value, right.value, right) ELSE right
EvalUnary(n, env, s) ==
  LET operand == Eval(n.kids[2], env, s)
      x == operand.value[2]
  IN CASE n.kids[1].kind = "-" -> Yield(<<"int", -x>>, operand)
       [] n.kids[1].kind = "~" -> Yield(<<"int", -1 - x>>, operand)
       [] n.kids[1].kind = "!" -> Yield(Truth(~True(operand.value)), operand)

\* A method, its `this' bound.
Bound(method, this, s) ==
  LET class == ClassOf(this, s)
      named == Names(<<"this">>, <<TRUE>>, class.env, s)
  IN Make(Closure(method, named.env), Fill(named.env["this"], this, named.s))
EvalGet(n, env, s) ==
  LET evaluated == Eval(n.kids[1], env, s)
      object == Require("record", evaluated.value, evaluated)
      methods == {m \in ToSet(Methods(ClassOf(object.value, object).node)) : Name(m) = Member(n)}
  IN IF ~Going(object) THEN object
     ELSE IF methods = {}
     THEN IF Member(n) \in DOMAIN Object(object.value, object).parts
          THEN Yield(Object(object.value, object).parts[Member(n)], object) ELSE Stop("ill-typed", object)
     ELSE Bound((CHOOSE m \in methods : TRUE).kids[2], object.value, object)
EvalIndex(n, env, s) ==
  LET place == Place(n, env, s)
  IN IF Going(place) THEN Yield(Object(place.value[1], place).parts[place.value[2]], place) ELSE place

\* The fields get their initial values in order, then the first constructor that fits runs.
EvalNew(n, env, s) ==
  LET class == s.cells[env[n.kids[1].kids[1].kids[1].kind]].value
      node == Object(class, s).node
      made == Make([kind |-> "record", class |-> class, parts |-> [f \in {Name(x) : x \in ToSet(Fields(node))} |-> Void]], s)
      this == made.value
      named == Names(<<"this">>, <<TRUE>>, Object(class, s).env, made)
      bound == Fill(named.env["this"], this, named.s)
      initialisers == node.kids[6].kids
      initialised[k \in 0..Len(initialisers)] ==
        IF k = 0 THEN bound
        ELSE LET value == Eval(initialisers[k].kids[2], named.env, initialised[k - 1])
             IN Put(<<this, Name(initialisers[k])>>, value.value, value)
      arguments == EvalAll(Arguments(n), env, initialised[Len(initialisers)])
      fitting == SelectSeq(Constructors(node), LAMBDA c : Len(Params(c.kids[1])) = Len(Arguments(n)))
  IN IF fitting = << >> THEN Stop("ill-typed", arguments)
     ELSE Yield(this, Apply(Closure(fitting[1].kids[1], named.env), arguments.value, arguments))

\* The function called with the arguments.
Apply(closure, arguments, s) ==
  LET params == Params(closure.node)
      named == Names([k \in DOMAIN params |-> Name(params[k])], [k \in DOMAIN params |-> params[k].kind # "parameter var"],
                     closure.env, Burn(s))
      given[k \in 0..Len(params)] ==
        IF k = 0 THEN named.s ELSE Fill(named.env[Name(params[k])], arguments[k], given[k - 1])
      ran == ExecBlock(Body(closure.node).kids[1].kids, named.env, given[Len(params)])
  IN CASE ~Going(s) -> s
       [] Going(s) /\ ran.fate = "return" -> [ran EXCEPT !.fate = "next"]
       [] OTHER -> Yield(Void, ran)
EvalCall(n, env, s) ==
  LET function == Eval(n.kids[1], env, s)
      arguments == EvalAll(Arguments(n), env, Require("function", function.value, function))
  IN IF Going(arguments) THEN Apply(Object(function.value, arguments), arguments.value, arguments) ELSE arguments

(***************************************************************************)
(* Statements                                                              *)
(***************************************************************************)
RECURSIVE Text(_, _)
Text(v, s) ==
  CASE v[1] = "array" -> <<"array", [k \in DOMAIN Object(v, s).parts |-> Text(Object(v, s).parts[k], s)]>>
    [] v[1] = "record" ->
         LET fields == Fields(ClassOf(v, s).node)
         IN <<"record", [k \in DOMAIN fields |-> Text(Object(v, s).parts[Name(fields[k])], s)]>>
    [] v[1] = "function" -> <<"function", 0>>
    [] OTHER -> v

RECURSIVE Loop(_, _, _)
Loop(n, env, s) ==
  LET condition == Eval(n.kids[1], env, Burn(s))
      body == Eval(n.kids[2], env, condition)
  IN CASE ~Going(condition) \/ ~True(condition.value) -> condition
       [] body.fate \in {"next", "continue"} -> Loop(n, env, [body EXCEPT !.fate = "next"])
       [] OTHER -> IF body.fate = "break" THEN [body EXCEPT !.fate = "next"] ELSE body
\* A variable that owns its value loses it to the declaration.
Declare(n, env, s) ==
  LET value == Eval(n.kids[3], env, s)
      given == Give(env[Name(n)], value)
  IN IF Initialiser(n) = << >> THEN [s EXCEPT !.cells[env[Name(n)]].state = "blank"]
     ELSE IF Going(given) /\ IsVariable(n.kids[3]) /\ value.value[1] \in Owning
     THEN [given EXCEPT !.cells[env[n.kids[3].kind]].state = "moved"]
     ELSE given

ExecAll(ns, env, s) ==
  LET done[k \in 0..Len(ns)] == IF k = 0 THEN s ELSE Eval(ns[k], env, done[k - 1]) IN done[Len(ns)]
\* The variables of the block are new; its functions and classes are there from its start.
ExecBlock(ns, env, s) ==
  LET declarations == SelectSeq(ns, LAMBDA n : n.kind \in {"let", "var", "declare", "class"})
      named == Names([k \in DOMAIN declarations |-> Name(declarations[k])],
                     [k \in DOMAIN declarations |-> declarations[k].kind # "var"], env, s)
      Define(n, t) ==
        CASE n.kind = "declare" -> LET f == Make(Closure(n.kids[2], named.env), t) IN Fill(named.env[Name(n)], f.value, f)
          [] n.kind = "class" ->
               LET c == Make([kind |-> "class", node |-> n, env |-> named.env], t) IN Fill(named.env[Name(n)], c.value, c)
          [] OTHER -> t
  IN IF Going(s) THEN ExecAll(ns, named.env, Each(Define, declarations, named.s)) ELSE s

(***************************************************************************)
(* One node after the other                                                *)
(***************************************************************************)
Eval(n, env, s) ==
  CASE ~Going(s) -> s
    [] n.kind = "null" -> Yield(<<"null", 0>>, s)
    [] n.kind \in {"true", "false"} -> Yield(Truth(n.kind = "true"), s)
    [] n.kind \in DOMAIN IntValue -> Yield(<<"int", IntValue[n.kind]>>, s)
    [] IsVariable(n) \/ n.kind = "this" -> Read(n.kind, env, s)
    [] n.kind = "array" ->
         LET elements == EvalAll(n.kids[1].kids, env, s) IN Make([kind |-> "array", parts |-> elements.value], elements)
    [] n.kind = "binary" -> EvalBinary(n, env, s)
    [] n.kind = "unary" -> EvalUnary(n, env, s)
    [] n.kind = "assign" -> EvalAssign(n, env, s)
    [] n.kind = "index" -> EvalIndex(n, env, s)
    [] n.kind = "get" -> EvalGet(n, env, s)
    [] n.kind = "call" -> EvalCall(n, env, s)
    [] n.kind = "new" -> EvalNew(n, env, s)
    [] n.kind = "function" -> Make(Closure(n, env), s)
    [] n.kind = "expression" -> Eval(n.kids[1], env, s)
    [] n.kind = "print" ->
         LET value == Eval(n.kids[1], env, s)
         IN IF Going(value) THEN [value EXCEPT !.output = Append(@, Text(value.value, value))] ELSE value
    [] n.kind = "if" ->
         LET condition == Eval(n.kids[1], env, s)
         IN IF Going(condition) THEN Eval(n.kids[IF True(condition.value) THEN 2 ELSE 3], env, condition) ELSE condition
    [] n.kind = "while" -> Loop(n, env, s)
    [] n.kind = "block" -> ExecBlock(n.kids[1].kids, env, s)
    [] n.kind \in {"break", "continue"} -> Stop(n.kind, s)
    [] n.kind \in {"let", "var"} -> Declare(n, env, s)
    [] n.kind = "return" -> Stop("return", IF n.kids = << >> THEN Yield(Void, s) ELSE Eval(n.kids[1], env, s))
    [] OTHER -> s

\* What a program prints and how it ends.
Means(statements) ==
  LET ended == ExecBlock(statements, << >>, NothingYet)
  IN [output |-> ended.output, end |-> IF Going(ended) THEN "halted" ELSE ended.fate]
=============================================================================
