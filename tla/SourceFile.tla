----------------------------- MODULE SourceFile -----------------------------
(***************************************************************************)
(* A source file as it is written and saved, and what the lexer and the    *)
(* parser make of each saved version.                                      *)
(*                                                                         *)
(* An author types token after token as long as the parser has not refused *)
(* one, or writes a whole sentence of the grammar.  A slice of the         *)
(* language bounds this: the tokens used, a context around them, what they *)
(* are to be a sentence of, how many are typed and how long a sentence is. *)
(***************************************************************************)
EXTENDS Grammar, FiniteSets

CONSTANTS
  Slices,    \* the parts of the language files are written in
  Parsed,    \* what the parser makes of tokens
  Compiled   \* the tokens the lexer makes of a file and what the parser makes of them
ASSUME SourceFileAssumption ==
  \A s \in Slices : /\ s.start \in {"module", "expression", "type", "members?"}
                    /\ s.max \in Nat /\ s.typing \in 0..s.max
                    /\ s.before \in Seq(STRING) /\ s.after \in Seq(STRING) /\ s.alphabet \subseteq STRING

VARIABLES
  slice,   \* the part of the language the file is in
  typed,   \* the tokens typed
  saved    \* the tokens the lexer makes of the file and what the parser makes of them
vars == <<slice, typed, saved>>

(***************************************************************************)
(* The file                                                                *)
(***************************************************************************)
File(s, tokens) == s.before \o tokens \o s.after

\* The tree of the file around a phrase.
Around(start, tree) ==
  LET Holding(statement) == Node("module", <<List(<< >>), List(<<statement>>)>>)
  IN CASE start = "module" -> tree
       [] start = "expression" -> Holding(Node("print", <<tree>>))
       [] start = "type" -> Holding(Node("typealias", <<Leaf("a"), tree>>))
       [] start = "members?" -> Holding(Aggregate("class", Leaf("a"), tree.kids))
\* The sentences of a slice, each with the tree of its file.
RECURSIVE LanguageOf(_), WrittenIn(_)
LanguageOf(slices) ==
  IF slices = {} THEN << >>
  ELSE LET one == CHOOSE any \in slices : TRUE
       IN one :> {Phrase(p.tokens, Around(one.start, p.tree)) : p \in Sentences(one.alphabet, one.start, one.max)}
          @@ LanguageOf(slices \ {one})
Language == LanguageOf(Slices)
WrittenIn(slices) ==
  IF slices = {} THEN << >>
  ELSE LET one == CHOOSE any \in slices : TRUE
       IN one :> {p.tokens : p \in Language[one]} @@ WrittenIn(slices \ {one})
Written == WrittenIn(Slices)

Save(tokens) ==
  /\ typed' = tokens
  /\ saved' = Compiled[File(slice, tokens)]
  /\ UNCHANGED slice

Init ==
  /\ slice \in Slices
  /\ typed = << >>
  /\ saved = Compiled[File(slice, << >>)]

\* The parser has refused none of these tokens: it wants more or is content.
Continues(tokens) ==
  LET r == Parsed[tokens] IN r.status = "error" => r.at > Len(tokens)
Inside(tokens) ==
  LET Count(t) == Cardinality({i \in DOMAIN tokens : tokens[i] = t}) IN Count("}") < Count("{")
\* The author leaves the braces of the context alone.
TypeToken(t) ==
  /\ Len(typed) < slice.typing
  /\ t = "}" => slice.before = << >> \/ Inside(typed)
  /\ Continues(slice.before \o typed)
  /\ Save(Append(typed, t))
WriteSentence(sentence) ==
  /\ typed = << >>
  /\ Save(sentence)
Next ==
  \/ \E t \in slice.alphabet : TypeToken(t)
  \/ \E sentence \in Written[slice] : WriteSentence(sentence)
Spec == Init /\ [][Next]_vars

(***************************************************************************)
(* Properties                                                              *)
(***************************************************************************)
Accepted == saved.parse.status = "ok"

\* The lexer finds the tokens as they were typed, however closely they are set: symbols of
\* up to three characters, strings, integers and words end where they should.
LexesAsTyped == saved.tokens = File(slice, typed)

\* What the parser accepts is a sentence and its tree is the derivation of it: binding powers,
\* associativity, the loop of postfix operators and the suffixes of types group as the sheet
\* does, and no stray token is let through. Which operators share a level, and what a for or
\* a class becomes, is said once for both sides (Syntax): there only the parts are compared.
TreesAreDerivations ==
  Accepted => Phrase(typed, saved.parse.tree) \in Language[slice]

\* The parser accepts every sentence: no look-ahead decides too early between a block and a
\* record, a function declared inside another and one that is a value, a suffix of a type and
\* what follows it. One disagreement lies outside every slice: the sheet derives `fun () {};'
\* as a statement, and the parser, which takes fun there for a declaration, refuses it.
SentencesAreAccepted == typed \in Written[slice] => Accepted

\* Every parse returns a tree or throws, whatever the file and wherever it ends.
EveryParseEnds == saved.parse.status # "overflow"
=============================================================================
