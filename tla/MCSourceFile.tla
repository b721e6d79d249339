---------------------------- MODULE MCSourceFile ----------------------------
(***************************************************************************)
(* Slices of the language, each with the tokens one kind of construct is   *)
(* made of.  No sentence of theirs has the statement `fun () {};', which   *)
(* the sheet derives and the parser refuses.                               *)
(***************************************************************************)
EXTENDS SourceFile, SourceText

Slice(start, alphabet, typing, max) ==
  [start |-> start, alphabet |-> alphabet, typing |-> typing, max |-> max,
   before |-> CASE start = "expression" -> <<"print", "(">> [] start = "type" -> <<"typealias", "a", "=">>
                [] start = "members?" -> <<"class", "a", "{">> [] OTHER -> << >>,
   after |-> CASE start = "expression" -> <<")", ";">> [] start = "type" -> <<";">>
               [] start = "members?" -> <<"}", ";">> [] OTHER -> << >>]

MCSlices ==
  {Slice("expression", {"a", "=", "+", "*", "-", "(", ")"}, 5, 5),
   Slice("expression", {"a", "<", "<<", "<<=", "<=", "=="}, 5, 5),
   Slice("expression", {"a", "&", "&&", "&&=", "=", "??", "|", "||"}, 5, 5),
   Slice("expression", {"a", "!", "!!", "!=", ".", "1", "[", "]"}, 5, 5),
   Slice("expression", {"a", "b", "{", "}", ":", ",", "(", ")"}, 6, 6),
   Slice("expression", {"new", "int", "a", "::", "*", "[", "]", "1", "("}, 5, 5),
   Slice("expression", {"new", "a", "int", "shared", "(", ")", ","}, 6, 6),
   Slice("expression", {"fun", "(", ")", "{", "}", "a", "=", ","}, 8, 8),
   Slice("expression", {"fun", "(", ")", "{", "}", "a", ";", "return"}, 4, 9),
   Slice("expression", {"fun", "(", ")", "{", "}", "a"}, 6, 11),
   Slice("expression", {"fun", "(", ")", "{", "}", "a", ",", "...", "var"}, 8, 8),
   Slice("type", {"int", "*", "[", "]", "1", "?", "shared", "a", "::"}, 5, 5),
   Slice("type", {"int", "*", "(", ")", ",", "->", "?"}, 6, 6),
   Slice("type", {"int", "{", "}", "a", ":", ",", "?"}, 7, 7),
   Slice("module", {"if", "else", "(", ")", "{", "}", "a"}, 8, 8),
   Slice("module", {"for", "(", ")", "{", "}", "a", ";"}, 7, 10),
   Slice("module", {"let", "a", ":", "int", "=", "1", ";", "return", "?"}, 7, 7),
   Slice("module", {"fun", "(", ")", "{", "}", "a"}, 6, 11),
   Slice("module", {"while", "(", ")", "{", "}", "a", ";", "break", "continue"}, 6, 8),
   Slice("module", {"print", "var", "a", "=", "(", ")", ";"}, 7, 7),
   Slice("module", {"class", "record", "a", "var", ";", "{", "}"}, 6, 8),
   Slice("members?", {"let", "a", "=", ";", "enum", "{", "}"}, 8, 8),
   Slice("members?", {"fun", "init", "a", "(", ")", "{", "}"}, 8, 8),
   Slice("module", {"import", "\"s\"", "as", "a", ";", "enum", "{", "}"}, 7, 7)}

\* A file that ends in the middle of an expression.
Unfinished == {Slice("module", {"a", "=", "(", "-", ";"}, 4, 4)}
=============================================================================
