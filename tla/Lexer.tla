------------------------------- MODULE Lexer -------------------------------
(***************************************************************************)
(* The lexer (Core/lexer.cpp): characters to tokens.  The letters of a     *)
(* word are one character, as are the digits of a number on one side of    *)
(* the point: what matters is where a token ends.                          *)
(***************************************************************************)
EXTENDS Syntax

Keywords ==
  {"print", "if", "else", "while", "for", "continue", "break", "true", "null", "let", "var", "fun",
   "return", "this", "class", "new", "shared", "typealias", "record", "init", "enum", "import", "as"}
  \union BuiltInTypes
WordChars == Identifiers \union Keywords \union {"s"}
Digits == Ints
Blank == " "
Newline == "newline"
Quote == "\""

\* The symbols as the characters they are made of.
SymbolTable ==
  {<<c>> : c \in {"+", "-", "*", "/", "%", "&", "|", "~", "^", "?", "=", ">", "<", "(", ")", "{", "}", ";",
                  "!", "[", "]", ",", ".", ":"}}
  \union {<<c, c>> : c \in {"+", "-", "&", "|", "<", ">", "?", "=", "!", ":"}}
  \union {<<c, "=">> : c \in {"+", "-", "*", "/", "%", "&", "|", "^", ">", "<", "!"}}
  \union {<<c, c, "=">> : c \in {"&", "|", "<", ">"}}
  \union {<<".", ".", ".">>, <<"-", ">">>}
MaxSymbolLengthTwo == 2
MAX_SYMBOL_LENGTH == 3

At(text, i) == IF i <= Len(text) THEN text[i] ELSE "end of file"
RECURSIVE Joined(_)
Joined(chars) == IF chars = << >> THEN "" ELSE Head(chars) \o Joined(Tail(chars))
Token(text, i, j) == [type |-> Joined(SubSeq(text, i, j - 1)), next |-> j]

\* The first position from i on that holds none of `chars'.
RECURSIVE PastRun(_, _, _)
PastRun(text, i, chars) == IF At(text, i) \in chars THEN PastRun(text, i + 1, chars) ELSE i
\* The first position from i on that holds c, or the end.
RECURSIVE UpTo(_, _, _)
UpTo(text, i, c) == IF i > Len(text) \/ At(text, i) = c THEN i ELSE UpTo(text, i + 1, c)

ReadNumber(text, i) ==
  LET j == PastRun(text, i, Digits)
  IN Token(text, i, IF At(text, j) = "." THEN PastRun(text, j + 1, Digits) ELSE j)
ReadWord(text, i) == Token(text, i, PastRun(text, i, WordChars \union Digits))
ReadString(text, i) ==
  LET closing == UpTo(text, i + 1, Quote)
  IN IF closing > Len(text) THEN [type |-> "unknown", next |-> closing] ELSE Token(text, i, closing + 1)
\* The longest symbol that starts at i; any other character is a token of its own.
ReadSymbol(text, i) ==
  LET lengths == {n \in 1..MAX_SYMBOL_LENGTH : i + n - 1 <= Len(text) /\ SubSeq(text, i, i + n - 1) \in SymbolTable}
  IN IF lengths = {} THEN [type |-> "unknown", next |-> i + 1]
     ELSE Token(text, i, i + Max(lengths))

RECURSIVE Tokenise(_, _)
Tokenise(text, i) ==
  LET c == At(text, i)
      After(token) == <<token.type>> \o Tokenise(text, token.next)
  IN CASE i > Len(text) -> << >>
       [] c \in {Blank, Newline} -> Tokenise(text, i + 1)
       [] c = "/" /\ At(text, i + 1) = "/" -> Tokenise(text, UpTo(text, i + 2, Newline) + 1)
       [] c = Quote -> After(ReadString(text, i))
       [] c \in Digits \/ (c = "." /\ At(text, i + 1) \in Digits) -> After(ReadNumber(text, i))
       [] c \in WordChars -> After(ReadWord(text, i))
       [] OTHER -> After(ReadSymbol(text, i))
=============================================================================
