---------------------------- MODULE MCPhiCopies ----------------------------
(***************************************************************************)
(* Two predecessor blocks with at most MaxCopies copies between them: one  *)
(* block alone with all of them, or both with cycles of their own.         *)
(***************************************************************************)
EXTENDS PhiCopies

CONSTANTS b1, b2

Shared ==
  \E n \in 0..MaxCopies : \E all \in [1..n -> [d : Ids, s : Ids]], k \in 0..n :
    original = [b \in {b1, b2} |-> IF b = b1 THEN SubSeq(all, 1, k) ELSE SubSeq(all, k + 1, n)]
SharedInit == Shared /\ Init
SharedSpec == SharedInit /\ [][Next]_vars /\ WF_vars(Next)
=============================================================================
