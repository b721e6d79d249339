------------------------------- MODULE Syntax -------------------------------
(***************************************************************************)
(* Tokens (Core/tokens.hpp) and syntax trees (Core/Ast.hpp).  A token is   *)
(* its type; identifiers and literals keep as many lexemes as the          *)
(* properties tell apart.  A tree is a node with its children: leaves are  *)
(* tokens, `Nothing' is an absent child.                                   *)
(***************************************************************************)
EXTENDS Naturals, Sequences, SequencesExt, TLC

Identifiers == {"a", "b"}
Ints == {"1"}
Strings == {"\"s\""}
Literals == Ints \union Strings \union {"true", "null"}
BuiltInTypes == {"int", "any"}

AssignOps == {"=", "+=", "&&=", "<<="}

\* The binary operators of the language, loosest first.
BinaryLevels ==
  <<{"||"}, {"??"}, {"&&"}, {"|"}, {"^"}, {"&"}, {"==", "!="}, {"<", "<=", ">", ">="},
    {"<<", ">>"}, {"+", "-"}, {"*", "/", "%"}>>
BinaryOps == UNION ToSet(BinaryLevels)
PrefixOps == {"+", "-", "!", "~", "&", "*"}
StepOps == {"++", "--"}

Node(kind, kids) == [kind |-> kind, kids |-> kids]
Leaf(token) == Node(token, << >>)
Nothing == Leaf("nothing")
List(kids) == Node("list", kids)
Unary(op, operand) == Node("unary", <<Leaf(op), operand>>)

(***************************************************************************)
(* What a for statement and a class or record become.                      *)
(***************************************************************************)
\* A for is a while whose body ends with the step, in a block with the initialiser.
ForLoop(initialiser, condition, step, body) ==
  LET stepped == IF step = Nothing THEN body
                 ELSE Node("block", <<List(<<body, Node("expression", <<step>>)>>)>>)
      loop == Node("while", <<IF condition = Nothing THEN Leaf("true") ELSE condition, stepped>>)
  IN IF initialiser = Nothing THEN loop ELSE Node("block", <<List(<<initialiser, loop>>)>>)

\* The members by kind, the initialisers of fields moved out of them into one assignment
\* to `this' each.
Aggregate(kind, name, members) ==
  LET Of(kinds) == SelectSeq(members, LAMBDA m : m.kind \in kinds)
      fields == Of({"let", "var"})
      initialised == SelectSeq(fields, LAMBDA f : f.kids[3] # Nothing)
  IN Node(kind,
          <<name, List([k \in DOMAIN fields |-> [fields[k] EXCEPT !.kids[3] = Nothing]]), List(Of({"method"})), List(Of({"init"})), List(Of({"enum"})),
            List([k \in DOMAIN initialised |->
                    Node("initialise", <<initialised[k].kids[1], initialised[k].kids[3]>>)])>>)
=============================================================================
