---------------------------- MODULE MCNativeRun ----------------------------
(***************************************************************************)
(* Five kinds of program: loops and branches with every way out of them,   *)
(* short circuits and short circuits in short circuits, loops that copy    *)
(* variables into each other, and assignments inside conditions.  Two more *)
(* use the value of an increment and of an assignment.                     *)
(***************************************************************************)
EXTENDS NativeRun

Expressions(let, assign, condition, other) ==
  [k \in Kinds |-> CASE k = "let" -> let [] k = "assign" -> assign
                     [] k \in {"if", "while"} -> condition [] k \in {"expression", "return"} -> other
                     [] OTHER -> {}]
Loops ==
  [params |-> <<"x">>, locals |-> {"y"}, statements |-> Kinds \ {"expression", "dead"},
   tokens |-> 4, depth |-> 2, ops |-> {},
   forms |-> Expressions({"constant"}, {"operation"}, {"variable"}, {"variable"})]
ShortCircuits ==
  [params |-> <<"x">>, locals |-> {}, tokens |-> 3, depth |-> 2, ops |-> {"&&"},
   statements |-> {"assign", "if", "while"},
   forms |-> Expressions({}, {"short"}, {"short"}, {})]
NestedShortCircuits ==
  [params |-> <<"x">>, locals |-> {}, tokens |-> 2, depth |-> 1, ops |-> ShortCircuitOps,
   statements |-> {"assign", "while", "return"},
   forms |-> Expressions({}, {"short"}, {"nested"}, {"variable"})]
Swaps ==
  [params |-> <<"x", "y">>, locals |-> {"z"}, statements |-> {"let", "assign", "while"},
   tokens |-> 4, depth |-> 1, ops |-> {},
   forms |-> Expressions({"variable"}, {"variable"}, {"variable"}, {})]
\* Assignments inside conditions, increments as statements, statements after a break.
NestedAssignments ==
  [params |-> <<"x", "y">>, locals |-> {}, statements |-> {"expression", "while", "break", "dead"},
   tokens |-> 3, depth |-> 2, ops |-> {}, forms |-> Expressions({}, {}, {"assignment"}, {"increment"})]
Increments ==
  [params |-> <<"x", "y">>, locals |-> {}, statements |-> {"assign", "return"},
   tokens |-> 2, depth |-> 0, ops |-> {}, forms |-> Expressions({}, {"increment"}, {}, {"variable"})]
MCDialects == {Loops, ShortCircuits, NestedShortCircuits, Swaps, NestedAssignments}
OnlyIncrements == {Increments}
=============================================================================
