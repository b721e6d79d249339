--------------------------- MODULE ReferenceChecker ---------------------------
(***************************************************************************)
(* The fourth pass (Semantics/ReferenceChecker.cpp): values that own       *)
(* something are moved by a declaration and may not be used afterwards,    *)
(* `let' bindings and fields are not assigned to.  The fifth               *)
(* (Semantics/MethodLower.cpp) makes the receiver of a method call its     *)
(* last argument.                                                          *)
(***************************************************************************)
EXTENDS Resolver

Unique(type) == Kind(type) \in {"array", "instance", "function", "any"}
\* A symbol the pass has not met, such as a hoisted function, is available.
RequireAvailable(symbol, c) ==
  Demand(symbol \notin DOMAIN c.availability \/ c.availability[symbol] = "available", c, "value not available")
SetAvailability(symbol, availability, c) == [c EXCEPT !.availability = (symbol :> availability) @@ @]

RECURSIVE Checked(_, _)
CheckedEach(ns, c) == Each(LAMBDA n, d : Checked(n, d), ns, c)

\* The value of the expression, moved out of a variable that owns it.
ConsumeAnyVariable(n, c) ==
  LET visited == Checked(n, c)
  IN IF ~Failed(visited) /\ IsVariable(n) THEN SetAvailability(c.symbolOf[n.id], "moved", visited) ELSE visited
ConsumeValue(n, c) ==
  LET visited == Checked(n, c)
  IN IF ~Failed(visited) /\ IsVariable(n) /\ Unique(TypeAt(c, n))
     THEN SetAvailability(c.symbolOf[n.id], "moved", visited) ELSE visited
RequireMutableLValue(n, c) ==
  LET type == TypeAt(c, n.kids[1])
      name == Member(n)
  IN IF IsVariable(n) THEN Demand(c.symbols[c.symbolOf[n.id]].mutable, c, "immutable binding")
     ELSE IF n.kind = "get" /\ c.methodOf[n.id] = 0 /\ name \in DOMAIN c.aggregates[type[2]].fields
     THEN Demand(c.symbols[c.aggregates[type[2]].fields[name]].mutable, c, "immutable field")
     ELSE c

CheckedFunction(n, c) ==
  LET Entered(p, d) == CheckedEach(Present(<<p.kids[3]>>), SetAvailability(d.symbolOf[p.id], "available", d))
  IN [CheckedEach(<<Body(n)>>, Each(Entered, Params(n), c)) EXCEPT !.availability = c.availability]
CheckedLet(n, c) ==
  LET symbol == c.symbolOf[n.id]
      declared == SetAvailability(symbol, "uninitialised",
                    Demand(n.kind = "var" \/ Initialiser(n) # << >>, c, "let without an initialiser"))
  IN IF Initialiser(n) = << >> THEN declared
     ELSE SetAvailability(symbol, "available", ConsumeValue(n.kids[3], declared))

Checked(n, c) ==
  CASE Failed(c) -> c
    [] IsVariable(n) -> RequireAvailable(c.symbolOf[n.id], c)
    [] n.kind = "assign" -> RequireMutableLValue(n.kids[1], CheckedEach(Children(n), c))
    [] n.kind = "function" -> CheckedFunction(n, c)
    [] n.kind = "declare" -> CheckedEach(<<n.kids[2]>>, SetAvailability(c.symbolOf[n.id], "available", c))
    [] n.kind \in {"let", "var"} -> CheckedLet(n, c)
    [] OTHER -> CheckedEach(Children(n), c)
Check(program, c) == CheckedEach(Statements(program), c)

(***************************************************************************)
(* Method calls                                                            *)
(***************************************************************************)
IsMethodCall(n, c) == n.kind = "call" /\ n.kids[1].kind = "get" /\ c.methodOf[n.kids[1].id] # 0
RECURSIVE Lowered(_, _)
LoweredEach(ns, c) == Each(LAMBDA n, d : Lowered(n, d), ns, c)
Lowered(n, c) ==
  LET visited == LoweredEach(Children(n), c)
  IN IF IsMethodCall(n, c) THEN [visited EXCEPT !.lowered = @ \union {n.id}] ELSE visited
Lower(program, c) == IF Failed(c) THEN c ELSE LoweredEach(Statements(program), c)

LoweredArguments(n, c) == Arguments(n) \o (IF n.id \in c.lowered THEN <<n.kids[1].kids[1]>> ELSE << >>)
=============================================================================
