--------------------------- MODULE ParallelAssign ---------------------------
(***************************************************************************)
(* What the phi instructions of SSA form promise, block by block: when     *)
(* control leaves block b every phi of a successor receives, at the same   *)
(* instant, the value its operand for b had on entry to that exit.         *)
(* MIRBuilder replaces this by a list of MOVE instructions (PhiCopies).    *)
(***************************************************************************)
EXTENDS Naturals, Sequences

CONSTANTS Blocks,     \* the predecessor blocks
          Ids         \* the SSA values of the function

VARIABLES assign,     \* assign[b]: the copies [d, s] to be made on leaving b
          val,        \* val[b][v]: whose value v holds at the exit of b
          left        \* the blocks whose exit has not been compiled yet

vars == <<assign, val, left>>

\* The value v must hold after a parallel assignment of the copies c.
Target(c, v) ==
  IF \E i \in DOMAIN c : c[i].d = v
    THEN c[CHOOSE i \in DOMAIN c : c[i].d = v].s
    ELSE v

Init ==
  /\ left = Blocks
  /\ val = [b \in Blocks |-> [v \in Ids |-> v]]

\* All the copies of one block at once.
Assign(b) ==
  /\ b \in left
  /\ left' = left \ {b}
  /\ val' = [val EXCEPT ![b] = [v \in Ids |-> Target(assign[b], v)]]
  /\ UNCHANGED assign

Next == \E b \in Blocks : Assign(b)

Spec == Init /\ [][Next]_vars
=============================================================================
