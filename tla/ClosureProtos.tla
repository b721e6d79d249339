--------------------------- MODULE ClosureProtos ---------------------------
(***************************************************************************)
(* The compiled functions the virtual machine runs, with what closure      *)
(* analysis recorded in each: its frame size, its parameters and the       *)
(* variables it captures; and the values that live on the stack.           *)
(***************************************************************************)
EXTENDS Integers, FiniteSets, Sequences, SequencesExt

CONSTANTS
  Protos,      \* compiled functions
  Main,        \* the top-level one
  ParentOf,    \* ParentOf[p]: the function p is declared in
  FrameSize,   \* FrameSize[p]: number of local variables, parameters first
  Params,      \* Params[p]: number of parameters
  Captures,    \* Captures[p]: sequence of [isLocal, index] (UpvalueInfo)
  Consts,      \* literal values
  Natives,     \* native functions
  MaxCalls, MaxClosures, MaxTemps   \* bounds

ASSUME ProtosAssumption ==
  /\ Main \in Protos
  /\ ParentOf \in [Protos -> Protos]
  /\ FrameSize \in [Protos -> Nat]
  /\ Params \in [Protos -> Nat]
  /\ \A p \in Protos : Params[p] <= FrameSize[p]
  /\ Captures \in [Protos -> Seq([isLocal : BOOLEAN, index : Nat])]
  /\ Captures[Main] = << >>
  /\ \A p \in Protos : \A k \in DOMAIN Captures[p] :
       Captures[p][k].index < IF Captures[p][k].isLocal
                              THEN FrameSize[ParentOf[p]] ELSE Len(Captures[ParentOf[p]])

ASSUME BoundsAssumption ==
  /\ MaxCalls \in Nat
  /\ MaxClosures \in Nat
  /\ MaxTemps \in Nat

Garbage == <<"garbage", 0>>
Native(n) == <<"native", n>>
Const(c) == <<"const", c>>
Fn(f) == <<"fn", f>>
IsFn(v) == v[1] = "fn"
IsNative(v) == v[1] = "native"
Literals == {Const(c) : c \in Consts} \union {Native(n) : n \in Natives}

\* The cells of a new activation, beside the others.
WithNew(new, old) ==
  [c \in DOMAIN new \union DOMAIN old |-> IF c \in DOMAIN new THEN new[c] ELSE old[c]]
=============================================================================
