------------------------------ MODULE Grammar ------------------------------
(***************************************************************************)
(* The language the parser is to accept: the sheet of grammar.md as a      *)
(* table of rules, and its sentences over an alphabet, by length, each     *)
(* with the tree of its derivation.  This module knows nothing of the      *)
(* parser: no binding powers, no look-ahead, no longest match.             *)
(***************************************************************************)
EXTENDS Syntax

\* A rule: the kind of tree made and the parts it is made from.  The trees of
\* the parts that are nonterminals are kept, in order; "" passes its only one on.
Rule(kind, parts) == [kind |-> kind, parts |-> parts]
Tokens(tokens) == {Rule(t, <<t>>) : t \in tokens}
OneOf(nonterminals) == {Rule("", <<n>>) : n \in nonterminals}
ListOf(items, item, separator) == {Rule("list", <<item>>), Rule("append", <<items>> \o separator \o <<item>>)}

Level(k) == IF k > Len(BinaryLevels) THEN "prefix" ELSE "level" \o ToString(k)
Operator(k) == "op" \o ToString(k)

TypeRules ==
  << <<"names", ListOf("names", "ID", <<"::">>)>>,
     <<"builtIn", Tokens(BuiltInTypes)>>,
     <<"typeAtom", OneOf({"builtIn"}) \union
        {Rule("scoped", <<"names">>), Rule("function type", <<"(", "types?", ")", "->", "type">>),
         Rule("record type", <<"{", "fields?", "}">>)}>>,
     <<"elementType", OneOf({"typeAtom"}) \union {Rule("pointer", <<"elementType", "*">>)}>>,
     <<"suffixed", OneOf({"typeAtom"}) \union
        {Rule("pointer", <<"suffixed", "*">>), Rule("unsized", <<"suffixed", "[", "]">>),
         Rule("sized", <<"suffixed", "[", "INT", "]">>)}>>,
     <<"qualified", OneOf({"suffixed"}) \union {Rule("shared", <<"shared", "suffixed">>)}>>,
     <<"type", OneOf({"qualified"}) \union {Rule("nullable", <<"qualified", "?">>)}>>,
     <<"types", ListOf("types", "type", <<",">>)>>, <<"types?", OneOf({"types"})>>,
     <<"field", {Rule("field", <<"ID", ":", "type">>)}>>,
     <<"fields", ListOf("fields", "field", <<",">>)>>, <<"fields?", OneOf({"fields"})>>,
     <<"annotation?", {Rule("", <<":", "type">>)}>> >>

ExpressionRules ==
  << <<"literal", Tokens(Literals \union {"this"})>>,
     <<"aggregateName", OneOf({"builtIn"}) \union {Rule("scoped", <<"names">>)}>>,
     <<"aggregateType", OneOf({"aggregateName"}) \union {Rule("shared", <<"shared", "aggregateName">>)}>>,
     <<"newExpr", {Rule("new", <<"new", "aggregateType", "(", "arguments?", ")">>),
                   Rule("new array", <<"new", "elementType", "[", "expression", "]">>)}>>,
     <<"functionRest", {Rule("function", <<"(", "parameters?", ")", "annotation?", "block">>)}>>,
     <<"primary", OneOf({"literal", "ID", "newExpr"}) \union
        {Rule("", <<"(", "expression", ")">>), Rule("array", <<"[", "arguments?", "]">>),
         Rule("record literal", <<"{", "pairs?", "}">>), Rule("", <<"fun", "functionRest">>),
         Rule("scope access", <<"ID", "::", "names">>)}>>,
     <<"postfix", OneOf({"primary"}) \union
        {Rule("call", <<"postfix", "(", "arguments?", ")">>), Rule("index", <<"postfix", "[", "expression", "]">>),
         Rule("get", <<"postfix", ".", "ID">>), Rule("postfix", <<"postfix", "unwrap">>)}>>,
     <<"prefix", OneOf({"postfix"}) \union {Rule("unary", <<"prefixOp", "prefix">>)}>> >>
  \o [i \in DOMAIN BinaryLevels |->
        LET k == Len(BinaryLevels) + 1 - i
        IN <<Level(k), OneOf({Level(k + 1)}) \union {Rule("binary", <<Level(k), Operator(k), Level(k + 1)>>)}>>]
  \o << <<"expression", OneOf({Level(1)}) \union {Rule("assign", <<Level(1), "assignmentOp", "expression">>)}>>,
        <<"expression?", OneOf({"expression"})>>,
        <<"initialiser?", {Rule("", <<"=", "expression">>)}>>,
        <<"arguments", ListOf("arguments", "expression", <<",">>)>>, <<"arguments?", OneOf({"arguments"})>>,
        <<"pair", {Rule("pair", <<"ID", ":", "expression">>)}>>,
        <<"pairs", ListOf("pairs", "pair", <<",">>)>>, <<"pairs?", OneOf({"pairs"})>> >>

\* A parameter without a default cannot follow one with a default; a variadic one is last.
ParameterRules ==
  << <<"default", {Rule("", <<"=", "expression">>)}>>,
     <<"plain", {Rule("parameter let", <<"ID", "annotation?", "none?">>),
                 Rule("parameter var", <<"var", "ID", "annotation?", "none?">>)}>>,
     <<"defaulted", {Rule("parameter let", <<"ID", "annotation?", "default">>),
                     Rule("parameter var", <<"var", "ID", "annotation?", "default">>)}>>,
     <<"variadic", {Rule("variadic let", <<"...", "ID", "annotation?">>),
                    Rule("variadic var", <<"var", "...", "ID", "annotation?">>)}>>,
     <<"plains", ListOf("plains", "plain", <<",">>)>>,
     <<"defaults", ListOf("defaults", "defaulted", <<",">>) \union {Rule("append", <<"plains", ",", "defaulted">>)}>>,
     <<"parameters", OneOf({"plains", "defaults"}) \union
        {Rule("list", <<"variadic">>), Rule("append", <<"plains", ",", "variadic">>),
         Rule("append", <<"defaults", ",", "variadic">>)}>>,
     <<"parameters?", OneOf({"parameters"})>> >>

StatementRules ==
  << <<"block", {Rule("block", <<"{", "statements?", "}">>)}>>,
     <<"binding", {Rule(k, <<k, "ID", "annotation?", "initialiser?", ";">>) : k \in {"let", "var"}}>>,
     <<"expressionStatement", {Rule("statement", <<"expression", ";">>)}>>,
     <<"forInit", OneOf({"binding"}) \union {Rule("expression", <<"expression", ";">>), Rule("nothing", <<";">>)}>>,
     <<"enumDecl", {Rule("enum", <<"enum", "ID", "{", "variants?", "}", ";">>)}>>,
     <<"variants", ListOf("variants", "ID", <<",">>)>>, <<"variants?", OneOf({"variants"})>>,
     <<"member", OneOf({"binding", "enumDecl"}) \union
        {Rule("method", <<"fun", "ID", "functionRest">>), Rule("init", <<"init", "functionRest">>)}>>,
     <<"members", ListOf("members", "member", << >>)>>, <<"members?", OneOf({"members"})>>,
     <<"else?", {Rule("", <<"else", "statement">>)}>>,
     <<"statement", OneOf({"block", "binding", "enumDecl", "expressionStatement"}) \union
        {Rule("print", <<"print", "(", "expression", ")", ";">>),
         Rule("if", <<"if", "(", "expression", ")", "block", "else?">>),
         Rule("while", <<"while", "(", "expression", ")", "block">>),
         Rule("for", <<"for", "(", "forInit", "expression?", ";", "expression?", ")", "block">>),
         Rule("break", <<"break", ";">>), Rule("continue", <<"continue", ";">>),
         Rule("return", <<"return", ";">>), Rule("return", <<"return", "expression", ";">>),
         Rule("declare", <<"fun", "ID", "functionRest">>),
         Rule("typealias", <<"typealias", "ID", "=", "type", ";">>),
         Rule("class", <<"class", "ID", "{", "members?", "}", ";">>),
         Rule("record", <<"record", "ID", "{", "members?", "}", ";">>)}>>,
     <<"statements", ListOf("statements", "statement", << >>)>>, <<"statements?", OneOf({"statements"})>>,
     <<"importDecl", {Rule("import", <<"import", "STRING", "as", "ID", ";">>)}>>,
     <<"imports", ListOf("imports", "importDecl", << >>)>>, <<"imports?", OneOf({"imports"})>>,
     <<"module", {Rule("module", <<"imports?", "statements?">>)}>> >>

\* A nonterminal comes after those its one-part rules name: the phrases of one
\* length are found in this order.
Rules ==
  << <<"ID", Tokens(Identifiers)>>, <<"INT", Tokens(Ints)>>, <<"STRING", Tokens(Strings)>>,
     <<"assignmentOp", Tokens(AssignOps)>>, <<"prefixOp", Tokens(PrefixOps)>>, <<"unwrap", Tokens({"!!"})>> >>
  \o [k \in DOMAIN BinaryLevels |-> <<Operator(k), Tokens(BinaryLevels[k])>>]
  \o TypeRules \o ExpressionRules \o ParameterRules \o StatementRules
Nonterminals == {Rules[r][1] : r \in DOMAIN Rules}
Empty ==
  [n \in {"annotation?", "initialiser?", "none?", "expression?", "else?"} |-> Nothing] @@
  [n \in {"types?", "fields?", "arguments?", "pairs?", "parameters?", "variants?", "members?",
          "statements?", "imports?"} |-> List(<< >>)] @@
  "module" :> Node("module", <<List(<< >>), List(<< >>)>>)

\* The tree of a rule.
Build(kind, kids) ==
  CASE kind = "" -> kids[1]
    [] kind = "append" -> List(Append(kids[1].kids, kids[2]))
    [] kind = "scope access" -> Node(kind, <<List(<<kids[1]>> \o kids[2].kids)>>)
    [] kind = "statement" -> Node("expression", kids)
    [] kind = "new array" /\ kids[2].kind \in Ints -> Node("new fixed", kids)
    [] kind = "for" -> ForLoop(kids[1], kids[2], kids[3], kids[4])
    [] kind \in {"class", "record"} -> Aggregate(kind, kids[1], kids[2].kids)
    [] OTHER -> Node(kind, kids)

Phrase(tokens, tree) == [tokens |-> tokens, tree |-> tree]
\* The phrases of one part, and of a sequence of parts, that have n tokens.
Of(alphabet, table, part, n) ==
  CASE part \in DOMAIN table[n] -> table[n][part]
    [] part \notin Nonterminals \union DOMAIN Empty /\ n = 1 /\ part \in alphabet -> {Phrase(<<part>>, << >>)}
    [] OTHER -> {}
RECURSIVE Spell(_, _, _, _)
Spell(alphabet, table, parts, n) ==
  IF parts = << >> THEN IF n = 0 THEN {Phrase(<< >>, << >>)} ELSE {}
  ELSE LET kept == Head(parts) \in Nonterminals \union DOMAIN Empty
       IN UNION {{Phrase(p.tokens \o q.tokens, (IF kept THEN <<p.tree>> ELSE << >>) \o q.tree) :
                    p \in Of(alphabet, table, Head(parts), m),
                    q \in Spell(alphabet, table, Tail(parts), n - m)} : m \in 0..n}
\* "A record literal beginning with `{` at the start of a statement is parsed as a block."
Derived(alphabet, table, rule, n) ==
  {Phrase(p.tokens, Build(rule.kind, p.tree)) :
     p \in {p \in Spell(alphabet, table, rule.parts, n) :
              rule.kind = "statement" => Head(p.tokens) # "{"}}

\* The phrases of n tokens of the first k nonterminals, and those of every
\* nonterminal that have at most n tokens.
RECURSIVE Row(_, _, _, _), Phrases(_, _)
Row(alphabet, shorter, n, k) ==
  IF k = 0 THEN << >>
  ELSE LET row == Row(alphabet, shorter, n, k - 1)
       IN row @@ (Rules[k][1] :> UNION {Derived(alphabet, shorter @@ (n :> row), r, n) : r \in Rules[k][2]})
Phrases(alphabet, n) ==
  IF n = 0 THEN 0 :> [e \in DOMAIN Empty |-> {Phrase(<< >>, Empty[e])}]
  ELSE CHOOSE table \in {t @@ (n :> Row(alphabet, t, n, Len(Rules))) : t \in {Phrases(alphabet, n - 1)}} : TRUE
Sentences(alphabet, nonterminal, n) ==
  LET table == Phrases(alphabet, n)
  IN UNION {Of(alphabet, table, nonterminal, m) : m \in 0..n}
=============================================================================
