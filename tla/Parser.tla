------------------------------- MODULE Parser -------------------------------
(***************************************************************************)
(* The recursive-descent and Pratt parser (Core/newParser.cpp).  Every     *)
(* parse function maps the tokens s and the position `current' to a tree   *)
(* and the position after it, or to an exception.  Parts(s, i, <<...>>)    *)
(* reads one part after the other, a token by consume() or a construct,    *)
(* and keeps the trees of the constructs.                                  *)
(***************************************************************************)
EXTENDS Syntax

EndOfFile == "end of file"

Ok(tree, i) == [status |-> "ok", tree |-> tree, at |-> i]
ParseError(i) == [status |-> "error", tree |-> Nothing, at |-> i]
StackOverflow(i) == [status |-> "overflow", tree |-> Nothing, at |-> i]
Then(r, K(_, _)) == IF r.status = "ok" THEN K(r.tree, r.at) ELSE r
Made(r, F(_)) == IF r.status = "ok" THEN Ok(F(r.tree.kids), r.at) ELSE r
As(kind, r) == Made(r, LAMBDA kids : Node(kind, kids))

AtEnd(s, i) == i > Len(s)
Peek(s, i) == IF AtEnd(s, i) THEN EndOfFile ELSE s[i]
Consume(s, i, tokens) == IF Peek(s, i) \in tokens THEN Ok(Leaf(s[i]), i + 1) ELSE ParseError(i)

BP_ASSIGNMENT == 10
BP_UNARY == 120
BP_POSTFIX == 130
InfixPower ==
  [op \in BinaryOps |->
     LET level == CHOOSE k \in DOMAIN BinaryLevels : op \in BinaryLevels[k]
     IN <<20, 25, 30, 40, 50, 60, 70, 80, 90, 100, 110>>[level]]
BindingPower(token) ==
  CASE token \in AssignOps -> BP_ASSIGNMENT
    [] token \in BinaryOps -> InfixPower[token]
    [] token \in {"(", "[", ".", "!!"} \union StepOps -> BP_POSTFIX
    [] OTHER -> 0
RightAssociative(token) == token \in AssignOps
OperandPowerAsStrong(token) == BindingPower(token)
OperandPower(token) == BindingPower(token) + (IF RightAssociative(token) THEN 0 ELSE 1)

Constructs ==
  {"ID", "STRING", "INT", "EXPRESSION", "TYPE", "FIELD", "PAIR", "PARAMETERS", "ANNOTATION", "INITIALISER", "FUNCTION", "BLOCK", "STATEMENT", "STATEMENTS",
   "ARGUMENTS", "ELEMENTS", "PAIRS", "TYPES", "FIELDS", "VARIANTS",
   "FOR INIT", "FOR CONDITION", "FOR STEP", "MEMBERS", "IMPORTS", "TOP LEVEL"}

RECURSIVE Parts(_, _, _), Listed(_, _, _, _), Operators(_, _, _, _), TypeSuffixes(_, _, _, _),
          Statements(_, _), Members(_, _), Parameters(_, _, _), Part(_, _, _),
          Imports(_, _), TopLevel(_, _),
          Prefix(_, _), Type(_, _, _), Statement(_, _)

Parts(s, i, parts) ==
  IF parts = << >> THEN Ok(List(<< >>), i)
  ELSE Then(Part(s, i, Head(parts)), LAMBDA tree, j :
         Then(Parts(s, j, Tail(parts)), LAMBDA rest, k :
           Ok(List((IF Head(parts) \in Constructs THEN <<tree>> ELSE << >>) \o rest.kids), k)))

\* construct (separator construct)*
Listed(s, i, construct, separator) ==
  Then(Part(s, i, construct), LAMBDA tree, j :
    IF Peek(s, j) # separator THEN Ok(List(<<tree>>), j)
    ELSE Made(Listed(s, j + 1, construct, separator), LAMBDA rest : List(<<tree>> \o rest)))
\* The same or nothing, in front of a closing token.
OptionalAtLeastOne(s, i, construct, closing) == Listed(s, i, construct, ",")
Optional(s, i, construct, closing) ==
  IF Peek(s, i) = closing THEN Ok(List(<< >>), i) ELSE Listed(s, i, construct, ",")

(***************************************************************************)
(* Expressions                                                             *)
(***************************************************************************)
Expression(s, i, minBP) == Then(Prefix(s, i), LAMBDA left, j : Operators(s, left, j, minBP))

\* The loop of parse_expression: operators at least as strong as minBP.
Operators(s, left, i, minBP) ==
  LET op == Peek(s, i)
      applied ==
        CASE op = "(" -> Parts(s, i + 1, <<"ARGUMENTS", ")">>)
          [] op = "[" -> Parts(s, i + 1, <<"EXPRESSION", "]">>)
          [] op = "." -> Parts(s, i + 1, <<"ID">>)
          [] op \in {"!!"} \union StepOps -> Ok(List(<<Leaf(op)>>), i + 1)
          [] op \in BinaryOps \union AssignOps ->
               Then(Expression(s, i + 1, OperandPower(op)), LAMBDA right, j : Ok(List(<<Leaf(op), right>>), j))
      kind == CASE op = "(" -> "call" [] op = "[" -> "index" [] op = "." -> "get" [] op \in AssignOps -> "assign"
                [] op \in BinaryOps -> "binary" [] OTHER -> "postfix"
  IN IF BindingPower(op) < minBP THEN Ok(left, i)
     ELSE Then(applied, LAMBDA tree, j : Operators(s, Node(kind, <<left>> \o tree.kids), j, minBP))

\* new T[size], new T(arguments): T has no array suffix and no question mark.
NewExpr(s, i) ==
  Then(Type(s, i, FALSE), LAMBDA type, j :
    IF Peek(s, j) = "["
    THEN Made(Parts(s, j, <<"[", "EXPRESSION", "]">>), LAMBDA kids :
           Node(IF kids[1].kind \in Ints THEN "new fixed" ELSE "new array", <<type>> \o kids))
    ELSE LET aggregate == IF type.kind = "shared" THEN type.kids[1] ELSE type
         IN IF aggregate.kind \notin BuiltInTypes \union {"scoped"} THEN ParseError(j)
            ELSE Made(Parts(s, j, <<"(", "ARGUMENTS", ")">>), LAMBDA kids : Node("new", <<type>> \o kids)))

\* advance() hands out the last token again at the end of the file.  Where
\* that token opens an operand, parse_prefix calls itself on it for ever.
Prefix(s, i) ==
  LET token == IF AtEnd(s, i) THEN s[i - 1] ELSE s[i]
      next == IF AtEnd(s, i) THEN i ELSE i + 1
  IN CASE token \in Literals \union {"this"} -> Ok(Leaf(token), next)
       [] token \in Identifiers ->
            IF Peek(s, next) # "::" THEN Ok(Leaf(token), next)
            ELSE Made(Listed(s, next + 1, "ID", "::"), LAMBDA names : Node("scope access", <<List(<<Leaf(token)>> \o names)>>))
       [] token \in {"(", "["} \union PrefixOps \union StepOps /\ AtEnd(s, i) -> StackOverflow(i)
       [] token = "(" /\ ~AtEnd(s, i) -> Made(Parts(s, next, <<"EXPRESSION", ")">>), LAMBDA kids : kids[1])
       [] token = "[" /\ ~AtEnd(s, i) -> As("array", Parts(s, next, <<"ELEMENTS", "]">>))
       [] token = "{" -> As("record literal", Parts(s, next, <<"PAIRS", "}">>))
       [] token = "fun" -> Part(s, next, "FUNCTION")
       [] token = "new" -> NewExpr(s, next)
       [] token \in PrefixOps \union StepOps /\ ~AtEnd(s, i) ->
            Then(Expression(s, next, BP_UNARY), LAMBDA operand, j : Ok(Unary(token, operand), j))
       [] OTHER -> ParseError(i)

(***************************************************************************)
(* Types                                                                   *)
(***************************************************************************)
BaseType(s, i) ==
  LET token == Peek(s, i)
  IN CASE token = "(" -> As("function type", Parts(s, i + 1, <<"TYPES", ")", "->", "TYPE">>))
       [] token = "{" -> As("record type", Parts(s, i + 1, <<"FIELDS", "}">>))
       [] token \in Identifiers -> Then(Listed(s, i, "ID", "::"), LAMBDA names, j : Ok(Node("scoped", <<names>>), j))
       [] token \in BuiltInTypes -> Ok(Leaf(token), i + 1)
       [] OTHER -> ParseError(i)

TypeSuffixes(s, type, i, arraySuffix) ==
  CASE Peek(s, i) = "*" -> TypeSuffixes(s, Node("pointer", <<type>>), i + 1, arraySuffix)
    [] Peek(s, i) = "[" /\ arraySuffix ->
         IF Peek(s, i + 1) = "]" THEN TypeSuffixes(s, Node("unsized", <<type>>), i + 2, arraySuffix)
         ELSE Then(Parts(s, i + 1, <<"INT", "]">>), LAMBDA size, j :
                TypeSuffixes(s, Node("sized", <<type>> \o size.kids), j, arraySuffix))
    [] OTHER -> Ok(type, i)

Type(s, i, arraySuffix) ==
  LET shared == Peek(s, i) = "shared"
      base == BaseType(s, IF shared THEN i + 1 ELSE i)
      suffixed == Then(base, LAMBDA type, j : TypeSuffixes(s, type, j, arraySuffix))
  IN Then(suffixed, LAMBDA type, j :
       LET whole == IF shared THEN Node("shared", <<type>>) ELSE type
       IN IF arraySuffix /\ Peek(s, j) = "?" THEN Ok(Node("nullable", <<whole>>), j + 1) ELSE Ok(whole, j))

(***************************************************************************)
(* Functions                                                               *)
(***************************************************************************)
\* The parameters from i on, after one with a default value if defaultSeen.
Parameters(s, i, defaultSeen) ==
  LET mutable == Peek(s, i) = "var"
      j == IF mutable THEN i + 1 ELSE i
      variable == IF mutable THEN "var" ELSE "let"
      More(parameter, l, seen) ==
        IF Peek(s, l) # "," THEN Ok(List(<<parameter>>), l)
        ELSE Made(Parameters(s, l + 1, seen), LAMBDA rest : List(<<parameter>> \o rest))
  IN IF Peek(s, j) = "..."
     THEN Then(Parts(s, j + 1, <<"ID", "ANNOTATION">>), LAMBDA parts, k :
            IF Peek(s, k) = ")" THEN Ok(List(<<Node("variadic " \o variable, parts.kids)>>), k) ELSE ParseError(k))
     ELSE Then(Parts(s, j, <<"ID", "ANNOTATION", "INITIALISER">>), LAMBDA parts, k :
            IF parts.kids[3] = Nothing /\ defaultSeen THEN ParseError(k)
            ELSE More(Node("parameter " \o variable, parts.kids), k, parts.kids[3] # Nothing))

FunctionExpr(s, i) == As("function", Parts(s, i, <<"(", "PARAMETERS", ")", "ANNOTATION", "BLOCK">>))
FunctionDecl(s, i) == As("declare", Parts(s, i, <<"ID", "FUNCTION">>))

(***************************************************************************)
(* Statements                                                              *)
(***************************************************************************)
Block(s, i) == As("block", Parts(s, i, <<"{", "STATEMENTS", "}">>))
Statements(s, i) ==
  IF Peek(s, i) \in {"}", EndOfFile} THEN Ok(List(<< >>), i)
  ELSE Then(Statement(s, i), LAMBDA tree, j :
         Made(Statements(s, j), LAMBDA rest : List(<<tree>> \o rest)))

If(s, i) ==
  Then(Parts(s, i, <<"(", "EXPRESSION", ")", "BLOCK">>), LAMBDA parts, j :
    IF Peek(s, j) # "else" THEN Ok(Node("if", parts.kids \o <<Nothing>>), j)
    ELSE Made(Parts(s, j + 1, <<"STATEMENT">>), LAMBDA other : Node("if", parts.kids \o other)))

Let(kind, s, i) == As(kind, Parts(s, i, <<"ID", "ANNOTATION", "INITIALISER", ";">>))

For(s, i) ==
  Made(Parts(s, i, <<"(", "FOR INIT", "FOR CONDITION", "FOR STEP", ")", "BLOCK">>),
       LAMBDA kids : ForLoop(kids[1], kids[2], kids[3], kids[4]))

Enum(s, i) == As("enum", Parts(s, i, <<"ID", "{", "VARIANTS", "}", ";">>))

\* Members until the closing brace; the end of the file is no member.
Members(s, i) ==
  LET token == Peek(s, i)
      member ==
        CASE token = "init" -> As("init", Parts(s, i + 1, <<"FUNCTION">>))
          [] token \in {"let", "var"} -> Let(token, s, i + 1)
          [] token = "fun" -> As("method", FunctionDecl(s, i + 1))
          [] token = "enum" -> Enum(s, i + 1)
          [] OTHER -> ParseError(i)
  IN IF token = "}" THEN Ok(List(<< >>), i)
     ELSE Then(member, LAMBDA tree, j : Made(Members(s, j), LAMBDA rest : List(<<tree>> \o rest)))

AggregateDecl(kind, s, i) ==
  Made(Parts(s, i, <<"ID", "{", "MEMBERS", "}", ";">>), LAMBDA kids : Aggregate(kind, kids[1], kids[2].kids))

Statement(s, i) ==
  LET token == Peek(s, i)
  IN CASE token = "{" -> Block(s, i)
       [] token = "print" -> As("print", Parts(s, i + 1, <<"(", "EXPRESSION", ")", ";">>))
       [] token = "if" -> If(s, i + 1)
       [] token = "while" -> As("while", Parts(s, i + 1, <<"(", "EXPRESSION", ")", "BLOCK">>))
       [] token = "for" -> For(s, i + 1)
       [] token \in {"break", "continue"} -> As(token, Parts(s, i + 1, <<";">>))
       [] token \in {"let", "var"} -> Let(token, s, i + 1)
       [] token = "fun" -> FunctionDecl(s, i + 1)
       [] token = "return" ->
            As("return", Parts(s, i + 1, IF Peek(s, i + 1) = ";" THEN <<";">> ELSE <<"EXPRESSION", ";">>))
       [] token \in {"class", "record"} -> AggregateDecl(token, s, i + 1)
       [] token = "typealias" -> As("typealias", Parts(s, i + 1, <<"ID", "=", "TYPE", ";">>))
       [] token = "enum" -> Enum(s, i + 1)
       [] OTHER -> As("expression", Parts(s, i, <<"EXPRESSION", ";">>))

Imports(s, i) ==
  IF Peek(s, i) # "import" THEN Ok(List(<< >>), i)
  ELSE Then(Parts(s, i + 1, <<"STRING", "as", "ID", ";">>), LAMBDA parts, j :
         Made(Imports(s, j), LAMBDA rest : List(<<Node("import", parts.kids)>> \o rest)))

\* statement* up to the end of the file: a closing brace there is a statement's error.
TopLevel(s, i) ==
  IF AtEnd(s, i) THEN Ok(List(<< >>), i)
  ELSE Then(Part(s, i, "STATEMENT"), LAMBDA tree, j : Made(TopLevel(s, j), LAMBDA rest : List(<<tree>> \o rest)))

\* One part of a construct.
Part(s, i, part) ==
  CASE part = "ID" -> Consume(s, i, Identifiers)
    [] part = "STRING" -> Consume(s, i, Strings)
    [] part = "INT" -> Consume(s, i, Ints)
    [] part = "EXPRESSION" -> Expression(s, i, BP_ASSIGNMENT)
    [] part = "TYPE" -> Type(s, i, TRUE)
    [] part = "FIELD" -> As("field", Parts(s, i, <<"ID", ":", "TYPE">>))
    [] part = "PAIR" -> As("pair", Parts(s, i, <<"ID", ":", "EXPRESSION">>))
    [] part = "PARAMETERS" -> IF Peek(s, i) = ")" THEN Ok(List(<< >>), i) ELSE Parameters(s, i, FALSE)
    [] part = "ANNOTATION" -> IF Peek(s, i) = ":" THEN Type(s, i + 1, TRUE) ELSE Ok(Nothing, i)
    [] part = "INITIALISER" -> IF Peek(s, i) = "=" THEN Part(s, i + 1, "EXPRESSION") ELSE Ok(Nothing, i)
    [] part = "FUNCTION" -> FunctionExpr(s, i)
    [] part = "BLOCK" -> Block(s, i)
    [] part = "STATEMENT" -> Statement(s, i)
    [] part = "STATEMENTS" -> Statements(s, i)
    [] part = "ARGUMENTS" -> Optional(s, i, "EXPRESSION", ")")
    [] part = "ELEMENTS" -> Optional(s, i, "EXPRESSION", "]")
    [] part = "PAIRS" -> Optional(s, i, "PAIR", "}")
    [] part = "TYPES" -> Optional(s, i, "TYPE", ")")
    [] part = "FIELDS" -> Optional(s, i, "FIELD", "}")
    [] part = "VARIANTS" -> Optional(s, i, "ID", "}")
    [] part = "FOR INIT" ->
         CASE Peek(s, i) = ";" -> Ok(Nothing, i + 1)
           [] Peek(s, i) \in {"let", "var"} -> Let(s[i], s, i + 1)
           [] OTHER -> As("expression", Parts(s, i, <<"EXPRESSION", ";">>))
    [] part = "FOR CONDITION" ->
         IF Peek(s, i) = ";" THEN Ok(Nothing, i + 1)
         ELSE Made(Parts(s, i, <<"EXPRESSION", ";">>), LAMBDA kids : kids[1])
    [] part = "FOR STEP" -> IF Peek(s, i) = ")" THEN Ok(Nothing, i) ELSE Part(s, i, "EXPRESSION")
    [] part = "MEMBERS" -> Members(s, i)
    [] part = "IMPORTS" -> Imports(s, i)
    [] part = "TOP LEVEL" -> TopLevel(s, i)
    [] OTHER -> Consume(s, i, {part})

(***************************************************************************)
(* The whole file                                                          *)
(***************************************************************************)
Parse(s) == As("module", Parts(s, 1, <<"IMPORTS", "TOP LEVEL">>))
=============================================================================
