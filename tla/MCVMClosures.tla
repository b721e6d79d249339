---------------------------- MODULE MCVMClosures ----------------------------
(***************************************************************************)
(* A program with every kind of capture, and a frame with two captured     *)
(* variables:                                                              *)
(*   fun outer(y) { fun inner() { var v; var w;                            *)
(*                    fun innermost() { ...y...v...w... } } }              *)
(* inner captures outer's parameter; innermost captures y, by way of       *)
(* inner's own upvalue, and v and w.  When inner returns the list of open  *)
(* upvalues is y, v, w: y stays, v is removed, w comes into its place and  *)
(* is to be met there.                                                     *)
(***************************************************************************)
EXTENDS VMClosures

CONSTANTS main, outer, inner, innermost

MCProtos == {main, outer, inner, innermost}
MCParentOf == [p \in MCProtos |-> CASE p = inner -> outer [] p = innermost -> inner [] OTHER -> main]

Local(i) == [isLocal |-> TRUE, index |-> i]
Outer(i) == [isLocal |-> FALSE, index |-> i]

MCFrameSize == [p \in MCProtos |-> CASE p = outer -> 1 [] p = inner -> 2 [] OTHER -> 0]
MCParams == [p \in MCProtos |-> IF p = outer THEN 1 ELSE 0]
MCCaptures ==
  [p \in MCProtos |-> CASE p = inner -> <<Local(0)>>
                        [] p = innermost -> <<Outer(0), Local(0), Local(1)>> [] OTHER -> << >>]
=============================================================================
