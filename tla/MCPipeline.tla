------------------------------ MODULE MCPipeline ------------------------------
(***************************************************************************)
(* Dialects of the language for TLC: every program that takes one of the   *)
(* statements offered at each place.                                       *)
(***************************************************************************)
EXTENDS Pipeline

CONSTANT Dialects   \* the dialects of a run, by name

L(token) == Leaf(token)
None == Nothing
Let(x, e) == Node("let", <<L(x), None, e>>)
Var(x, e) == Node("var", <<L(x), None, e>>)
VarOf(x, type, e) == Node("var", <<L(x), type, e>>)
LetOf(x, type, e) == Node("let", <<L(x), type, e>>)
Bin(l, op, r) == Node("binary", <<l, L(op), r>>)
Un(op, e) == Node("unary", <<L(op), e>>)
Do(e) == Node("expression", <<e>>)
SetTo(place, op, e) == Do(Node("assign", <<place, L(op), e>>))
Set(x, e) == SetTo(L(x), "=", e)
Say(e) == Node("print", <<e>>)
In_(ss) == Node("block", <<List(ss)>>)
If(e, then, else) == Node("if", <<e, In_(then), In_(else)>>)
When(e, then) == Node("if", <<e, In_(then), None>>)
While(e, ss) == Node("while", <<e, In_(ss)>>)
Break == L("break")
Continue == L("continue")
Ret(e) == Node("return", <<e>>)
Param(x, type) == Node("parameter let", <<L(x), type, None>>)
Fn(params, result, ss) == Node("function", <<List(params), result, In_(ss)>>)
Fun(f, params, result, ss) == Node("declare", <<L(f), Fn(params, result, ss)>>)
Call_(f, args) == Node("call", <<f, List(args)>>)
At(a, i) == Node("index", <<a, i>>)
Arr(es) == Node("array", <<List(es)>>)
Get(e, x) == Node("get", <<e, L(x)>>)
TInt == L("int")
TBool == L("bool")
TVoid == L("void")
TFun(ps, r) == Node("function type", <<List(ps), r>>)
TArr(t) == Node("unsized", <<t>>)
TClass(c) == Node("scoped", <<List(<<L(c)>>)>>)
New(c, args) == Node("new", <<TClass(c), List(args)>>)
Class(c, members) == Aggregate("class", L(c), members)
Method(f, params, result, ss) == Node("method", <<L(f), Fn(params, result, ss)>>)
Ctor(params, ss) == Node("init", <<Fn(params, TVoid, ss)>>)
This == L("this")

RECURSIVE OneOfEach(_)
OneOfEach(places) ==
  IF places = << >> THEN {<< >>} ELSE {<<first>> \o rest : first \in Head(places), rest \in OneOfEach(Tail(places))}

Va == L("a")
Vb == L("b")
Plus(e, i) == Bin(e, "+", L(i))
F0(f) == Call_(L(f), << >>)
Lambda(ss) == Fn(<< >>, TInt, ss)

\* Blocks that shadow, and names before, after and outside their scope.
Scopes ==
  LET Inner == {Say(Va), Let("a", L("2")), Set("a", L("2")), Var("b", Va), Let("a", Plus(Va, "1"))}
  IN <<{Let("a", L("1")), Var("a", L("1"))}, {In_(p) : p \in OneOfEach(<<Inner, Inner>>)}, {Say(Va), Say(Vb), Let("a", L("3"))}>>

\* Functions that read, assign, shadow and recur on what is around them.
Closures ==
  LET Of(ss) == Fun("f", << >>, TInt, ss)
      Bump(x) == Set(x, Plus(L(x), "1"))
  IN <<{Let("a", L("1")), Var("a", L("1"))},
       {Of(<<Ret(Va)>>), Of(<<Bump("a"), Ret(Va)>>), Let("f", Lambda(<<Bump("a"), Ret(Va)>>)),
        Of(<<Let("b", Va), Fun("g", << >>, TInt, <<Ret(Bin(Va, "+", Vb))>>), Ret(F0("g"))>>),
        Of(<<Var("b", L("0")), Let("g", Lambda(<<Bump("b"), Ret(Vb)>>)), Do(F0("g")), Ret(F0("g"))>>),
        Of(<<Var("b", Va), Fun("g", << >>, TVoid, <<Bump("b")>>), Do(F0("g")), Ret(Vb)>>),
        Of(<<Var("a", L("3")), Fun("g", << >>, TVoid, <<Bump("a")>>), Do(F0("g")), Ret(Va)>>)},
       {Say(F0("f")), In_(<<Let("g", L("f")), Say(F0("g"))>>), In_(<<Set("a", L("3")), Say(F0("f"))>>),
        Say(Bin(F0("f"), "+", F0("f")))},
       {Say(Va), Say(F0("f"))}>>

\* Functions that call themselves and each other.
Recursion ==
  LET Steps(f, g) == Fun(f, <<Param("x", TInt)>>, TInt,
                         <<If(Bin(L("x"), "<", L("1")), <<Ret(L("1"))>>, <<Ret(Plus(Call_(L(g), <<Bin(L("x"), "-", Va)>>), "2"))>>)>>)
      Down(f) == Fun(f, << >>, TVoid, <<When(Bin(Va, "<", L("3")), <<Set("a", Plus(Va, "1")), Say(Va), Do(F0(f)), Say(Va)>>)>>)
  IN <<{Var("a", L("1")), Var("a", L("2"))}, {Steps("f", "g"), Steps("f", "f")}, {Steps("g", "f"), Steps("g", "g")}, {Down("h")},
       {Say(Call_(L("f"), <<L("0")>>)), Say(Call_(L("g"), <<L("3")>>)), Do(F0("h"))}, {Do(F0("h")), Say(Va)}>>

\* Closures that outlive the call that made their variables.
Makers ==
  LET Maker(ss) == Fun("f", <<Param("x", TInt)>>, TFun(<< >>, TInt), ss)
      Count == Lambda(<<Set("b", Plus(Vb, "1")), Ret(Vb)>>)
  IN <<{Var("k", Lambda(<<Ret(L("0"))>>))},
       {Maker(<<Ret(Lambda(<<Ret(L("x"))>>))>>), Maker(<<Var("b", L("x")), Ret(Count)>>),
        Maker(<<Var("b", L("x")), Set("k", Lambda(<<Ret(Vb)>>)), Ret(Count)>>),
        Maker(<<Var("b", L("x")), Let("g", Count), Let("h", Lambda(<<Ret(Vb)>>)), Do(F0("g")), Ret(L("h"))>>),
        Maker(<<Ret(Lambda(<<Ret(Call_(Lambda(<<Ret(L("x"))>>), << >>))>>))>>),
        Maker(<<Fun("g", << >>, TInt, <<Ret(L("x"))>>), Ret(L("g"))>>)},
       {Let("g", Call_(L("f"), <<L("1")>>))},
       {Let("h", Call_(L("f"), <<L("2")>>)), Say(F0("g"))},
       {Say(Bin(F0("g"), "+", F0("g")))}, {Say(F0("g")), Say(F0("k"))}>>

\* Loops, left and continued from inside.
Control ==
  LET Loop_(test, first, second) == While(test, <<first, Set("a", Plus(Va, "1")), second>>)
      Is(e, i) == Bin(e, "==", L(i))
      Tests == {Bin(Va, "<", L("3")), Bin(Va, "!=", L("2"))}
      Firsts == {When(Is(Va, "1"), <<Break>>), If(Is(Va, "1"), <<Say(Va)>>, <<Say(Vb)>>), Set("b", Bin(Vb, "+", Va)), Say(Va)}
      Seconds == {When(Is(Va, "1"), <<Continue>>), Say(Vb), When(Is(Va, "2"), <<In_(<<Break>>)>>), In_(<<Let("b", Va), Say(Vb)>>),
                  While(Bin(Vb, "<", L("2")), <<Set("b", Plus(Vb, "1")), When(Is(Vb, "1"), <<Continue>>), Break>>)}
  IN <<{Var("a", L("0"))}, {Var("b", L("0"))},
       {Loop_(t, x, y) : t \in Tests, x \in Firsts, y \in Seconds}, {Say(Bin(Va, "-", Vb)), Break}>>

\* Fields with and without a value or an assignment, methods, constructors; a method that
\* captures a variable of the function the class is declared in.
Classes ==
  LET Field(kind, x, e) == Node(kind, <<L(x), TInt, e>>)
      X == Get(This, "x")
      C(members) == Class("C", members)
      Reads == Method("get", << >>, TInt, <<Ret(X)>>)
      Writes == Method("put", <<Param("v", TInt)>>, TVoid, <<SetTo(X, "=", L("v"))>>)
      Outer == Method("get", << >>, TInt, <<Set("a", Plus(Va, "1")), Ret(Bin(X, "+", Va))>>)
      Local == Method("get", << >>, TInt, <<Fun("g", << >>, TInt, <<Ret(X)>>), Ret(Plus(F0("g"), "1"))>>)
      Plain == Ctor(<< >>, << >>)
      Given == Ctor(<<Param("v", TInt)>>, <<SetTo(X, "=", L("v"))>>)
      c == L("c")
      New0 == New("C", << >>)
      New1 == New("C", <<L("2")>>)
  IN <<{Var("a", L("1"))},
       {C(<<Field("var", "x", Va), Field("let", "y", L("3")), m, Writes, Plain, Given>>) : m \in {Reads, Outer, Local}}
         \union {C(<<Field("var", "y", None), Field("var", "x", L("1")), Reads, Writes, Given>>)},
       {Var("c", New0), Var("c", New1)},
       {Do(Call_(Get(c, "put"), <<L("3")>>)), SetTo(Get(c, "x"), "=", L("3")), SetTo(Get(c, "x"), "+=", Va), SetTo(Get(c, "y"), "=", L("1")),
        In_(<<Var("d", c), SetTo(Get(L("d"), "x"), "=", L("0")), Say(L("d"))>>), Set("c", New0), Say(Get(c, "z"))},
       {Say(Call_(Get(c, "get"), << >>)), Say(Bin(Get(c, "x"), "+", Get(c, "y"))), Say(c)}>>

\* Instances handed to functions, which see the caller's, and moved inside them.
Instances ==
  LET Place_ == Get(L("p"), "x")
      Uses(ss) == Fun("f", <<Param("p", TClass("C"))>>, TInt, ss)
      C == Class("C", <<Node("var", <<L("x"), TInt, L("1")>>), Method("get", << >>, TInt, <<Ret(Get(This, "x"))>>), Ctor(<< >>, << >>)>>)
      x == Get(L("c"), "x")
  IN <<{C}, {Uses(<<SetTo(Place_, "=", L("3")), Ret(Place_)>>), Uses(<<Var("d", L("p")), SetTo(Get(L("d"), "x"), "=", L("0")), Ret(Get(L("d"), "x"))>>),
             Uses(<<Let("g", Lambda(<<SetTo(Place_, "+=", L("2")), Ret(Place_)>>)), Ret(F0("g"))>>), Uses(<<Var("d", L("p")), Ret(Place_)>>)},
       {Var("c", New("C", << >>))}, {Say(Call_(L("f"), <<L("c")>>)), SetTo(x, "=", L("2")), In_(<<Let("d", L("c"))>>)},
       {Say(Call_(Get(L("c"), "get"), << >>)), Say(x), Say(Call_(L("f"), <<L("c")>>)), In_(<<Var("e", L("c")), Say(L("e"))>>)}>>

\* Functions declared in blocks, loops and branches of functions, and returns from there.
Hoisting ==
  LET x == L("x")
      Inside(ss) == Fun("f", <<Param("x", TInt)>>, TInt, ss)
      Local(f, ss) == Fun(f, << >>, TInt, ss)
      Add == Set("a", Bin(Va, "+", x))
  IN <<{Var("a", L("1"))},
       {Inside(<<In_(<<Local("g", <<Ret(Plus(x, "1"))>>), Ret(F0("g"))>>)>>),
        Inside(<<While(L("true"), <<When(Bin(Va, ">", x), <<Ret(Va)>>), Set("a", Plus(Va, "1"))>>)>>),
        Inside(<<Local("g", <<Local("h", <<Add, Ret(Va)>>), Ret(F0("h"))>>), Ret(Bin(F0("g"), "-", F0("g")))>>),
        Inside(<<If(Bin(x, "<", L("2")), <<Local("g", <<Ret(x)>>), Ret(F0("g"))>>, <<Local("g", <<Add, Ret(L("2"))>>), Ret(F0("g"))>>)>>)},
       {Say(Call_(L("f"), <<L("1")>>)), Say(Call_(L("f"), <<L("3")>>)),
        While(Bin(Va, "<", L("3")), <<Set("a", Plus(Va, "1")), Local("h", <<Ret(Call_(L("f"), <<Va>>))>>), Say(F0("h"))>>)},
       {Say(Va), In_(<<Local("h", <<Ret(Va)>>), Say(F0("h"))>>)}>>

\* Arrays are shared, indexed within their length and handed to functions.
Arrays ==
  LET Whole(x, e) == VarOf(x, TArr(TInt), e)
      P == L("p")
  IN <<{Fun("f", <<Param("p", TArr(TInt))>>, TInt, <<SetTo(At(P, L("0")), "=", L("3")), Ret(At(P, L("1")))>>)},
       {Whole("a", Arr(<<L("1"), L("2")>>)), Var("a", Arr(<<L("1"), L("2")>>)), Whole("a", Arr(<< >>)), Whole("a", Arr(<<L("1")>>))},
       {SetTo(At(Va, L("0")), "=", L("3")), SetTo(At(Va, L("1")), "+=", At(Va, L("0"))), Say(Call_(L("f"), <<Va>>)),
        Set("a", Arr(<<L("3"), L("1"), L("2")>>)), In_(<<Var("b", Va), SetTo(At(Vb, L("0")), "=", L("0")), Say(Vb)>>),
        In_(<<Var("b", Arr(<<L("0")>>)), Set("b", Va), SetTo(At(Vb, L("1")), "=", L("0"))>>)},
       {Say(Va), Say(At(Va, L("2"))), Say(At(Va, Bin(L("0"), "-", L("1")))), Say(At(Arr(<<Arr(<<L("1")>>), Va>>), L("1")))}>>

\* Every operator on small numbers.
Numbers ==
  LET Minus(i) == Un("-", L(i))
      All == {L("0"), L("1"), L("3"), Minus("3")}
      Naturals_ == {L("0"), L("1"), L("2"), L("3")}
  IN <<{Say(Bin(x, op, y)) : x \in All, op \in {"+", "-", "*", "/", "%", "<", "<=", ">", ">=", "==", "!="}, y \in All}
       \union {Say(Bin(x, op, y)) : x \in Naturals_, op \in {"<<", ">>", "&", "|", "^"}, y \in Naturals_}
       \union {Say(Bin(x, op, y)) : x \in {L("true"), L("false"), L("0"), L("3"), L("null")}, op \in {"&&", "||", "==", "!="},
                                     y \in {L("true"), L("false"), L("1"), L("null")}}
       \union {Say(Un(op, x)) : op \in {"-", "~", "!"}, x \in All \union {L("true")}}>>

\* Variables that own something, used and moved in every order, and assigned to while they
\* still have it.
UsesOfA == {Let("b", Va), Var("d", Va), Let("a", Vb), Say(Va), Say(Vb), SetTo(At(Va, L("0")), "=", L("2")), Set("b", Arr(<<L("3")>>)),
         In_(<<Let("b", Va), Say(Vb)>>)}
Moves == <<{Let("a", Arr(<<L("1")>>)), Var("a", Arr(<<L("1")>>)), Let("a", L("1"))}, UsesOfA \union {Set("a", Arr(<<L("3")>>))}, UsesOfA, UsesOfA>>

\* Variables given a value by an assignment, after a move or with none in their declaration.
Deferred ==
  <<{VarOf("a", TArr(TInt), e) : e \in {None, Arr(<<L("1")>>)}}, {Let("b", Va), Say(L("1"))}, {Set("a", Arr(<<L("3")>>))}, {Say(Va)}>>

\* Values of every type where a type is expected.
Types ==
  LET Values == {L("1"), L("true"), L("null"), Arr(<<L("1")>>), Arr(<<L("true")>>), Arr(<< >>), Lambda(<<Ret(L("1"))>>), Arr(<<L("1"), L("null")>>)}
      Kinds_ == {TInt, TBool, L("null"), L("any"), TArr(TInt), TArr(TArr(TInt)), TFun(<< >>, TInt), Node("sized", <<TInt, L("1")>>), TVoid}
  IN <<{Fun("f", <<Param("x", t)>>, TVoid, <<Say(L("x"))>>) : t \in Kinds_} \union {VarOf("a", t, v) : t \in Kinds_, v \in Values},
       {Do(Call_(L("f"), <<v>>)) : v \in Values} \union {Say(Va)}>>

\* Functions whose parameters are told apart, called with values.
Parameters ==
  LET F(op) == Fun("f", <<Param("x", TInt), Param("y", TInt)>>, TInt, <<Ret(Bin(L("x"), op, L("y")))>>)
      Args == {L("1"), L("3"), Va}
  IN <<{F("-"), F("/")}, {Let("a", L("2"))}, {Say(Call_(L("f"), <<x, y>>)) : x \in Args, y \in Args}>>

Dialect == [Scopes |-> Scopes, Closures |-> Closures, Makers |-> Makers, Recursion |-> Recursion, Control |-> Control,
            Classes |-> Classes, Instances |-> Instances, Hoisting |-> Hoisting, Arrays |-> Arrays, Numbers |-> Numbers, Moves |-> Moves, Types |-> Types,
            Parameters |-> Parameters, Deferred |-> Deferred]
MCPrograms == UNION {OneOfEach(Dialect[d]) : d \in Dialects}
=============================================================================
