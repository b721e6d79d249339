----------------------------- MODULE SourceText -----------------------------
(***************************************************************************)
(* The text of a file whose tokens are set as closely as they can be, and  *)
(* what the lexer and the parser make of it.                               *)
(***************************************************************************)
EXTENDS Lexer, Parser

(***************************************************************************)
(* Text: tokens without a blank unless two would grow together.            *)
(***************************************************************************)
SymbolSpelling == FoldSet(LAMBDA symbol, f : f @@ (Joined(symbol) :> symbol), << >>, SymbolTable)
SymbolPrefixes ==
  {SubSeq(symbol, 1, n) : <<symbol, n>> \in {e \in SymbolTable \X (1..MAX_SYMBOL_LENGTH) : e[2] <= Len(e[1])}}
Spelling(t) ==
  CASE t \in Strings -> <<Quote, "s", Quote>>
    [] t \in DOMAIN SymbolSpelling -> SymbolSpelling[t]
    [] OTHER -> <<t>>
GrowTogether(t, u) ==
  LET last == Last(Spelling(t))
      first == Head(Spelling(u))
  IN \/ last \in WordChars /\ first \in WordChars \union Digits
     \/ last \in Digits /\ first \in Digits \union {"."}
     \/ last = "." /\ first \in Digits
     \/ last = "/" /\ first = "/"
     \/ Append(Spelling(t), first) \in SymbolPrefixes
RECURSIVE Text(_)
Text(tokens) ==
  IF tokens = << >> THEN << >>
  ELSE Spelling(Head(tokens))
       \o (IF Len(tokens) > 1 /\ GrowTogether(tokens[1], tokens[2]) THEN <<Blank>> ELSE << >>)
       \o Text(Tail(tokens))

\* The outcome of the parser alone, and of the lexer and the parser.
ParsedTokens == [tokens \in Seq(STRING) |-> Parse(tokens)]
CompiledFile ==
  [tokens \in Seq(STRING) |->
     LET lexed == Tokenise(Text(tokens), 1) IN [tokens |-> lexed, parse |-> Parse(lexed)]]
=============================================================================
