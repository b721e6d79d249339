---------------------------- MODULE ClosureCells ----------------------------
(***************************************************************************)
(* What closures promise a KMY program: every activation of a function has *)
(* one cell per local variable, a closure holds the cells of the variables *)
(* it captures, and reading or writing a variable, from the activation or  *)
(* from any closure, during the activation or after it has returned, reads *)
(* or writes that one cell.  VMClosures shows that the virtual machine's   *)
(* stack slots and upvalues keep this promise.                             *)
(***************************************************************************)
EXTENDS ClosureProtos

VARIABLES
  frames,      \* activations, the running one last: [proto, act, fn, temps]
  acts,        \* number of activations so far
  mem,         \* cell -> value; a cell is <<activation, slot>>
  fns          \* closures made so far: [proto, cells]

vars == <<frames, acts, mem, fns>>

Top == Last(frames)
SetTemps(fr, t) == Append(Front(fr), [Last(fr) EXCEPT !.temps = t])
Push(v) ==
  /\ Len(Top.temps) < MaxTemps
  /\ frames' = SetTemps(frames, Append(Top.temps, v))

LocalCell(i) == <<Top.act, i>>
CapturedCell(k) == fns[Top.fn].cells[k]
CellsOf(p, args, act) ==
  [c \in {act} \X (0 .. FrameSize[p] - 1) |->
     IF c[2] < Len(args) THEN args[c[2] + 1] ELSE Garbage]

Init ==
  /\ frames = <<[proto |-> Main, act |-> 0, fn |-> 0, temps |-> << >>]>>
  /\ mem = CellsOf(Main, << >>, 0)
  /\ acts = 1
  /\ fns = << >>

Load(cell) ==
  /\ Push(mem[cell])
  /\ UNCHANGED <<acts, mem, fns>>

\* An assignment leaves its value as the value of the expression.
Store(cell) ==
  /\ Top.temps # << >>
  /\ mem' = [mem EXCEPT ![cell] = Last(Top.temps)]
  /\ UNCHANGED <<frames, acts, fns>>

Literal(v) ==
  /\ Push(v)
  /\ UNCHANGED <<acts, mem, fns>>

Drop ==
  /\ Top.temps # << >>
  /\ frames' = SetTemps(frames, Front(Top.temps))
  /\ UNCHANGED <<acts, mem, fns>>

MakeClosure(p) ==
  /\ ParentOf[p] = Top.proto
  /\ Len(fns) < MaxClosures
  /\ fns' = Append(fns,
       [proto |-> p,
        cells |-> [k \in DOMAIN Captures[p] |->
                     IF Captures[p][k].isLocal THEN LocalCell(Captures[p][k].index)
                                               ELSE CapturedCell(Captures[p][k].index + 1)]])
  /\ Push(Fn(Len(fns) + 1))
  /\ UNCHANGED <<acts, mem>>

\* A call takes the function and its n arguments off the caller's temporaries.
Callee(n) == Top.temps[Len(Top.temps) - n]
Args(n) == SubSeq(Top.temps, Len(Top.temps) - n + 1, Len(Top.temps))
Below(n) == SubSeq(Top.temps, 1, Len(Top.temps) - n - 1)

\* Activations are numbered in the order of their calls, main being 0.
Call(n) ==
  /\ Len(Top.temps) > n
  /\ IsFn(Callee(n))
  /\ acts <= MaxCalls
  /\ LET p == fns[Callee(n)[2]].proto
     IN  /\ Params[p] = n
         /\ frames' = Append(SetTemps(frames, Below(n)),
              [proto |-> p, act |-> acts, fn |-> Callee(n)[2], temps |-> << >>])
         /\ mem' = WithNew(CellsOf(p, Args(n), acts), mem)
  /\ acts' = acts + 1
  /\ UNCHANGED fns

CallNative(n, c) ==
  /\ Len(Top.temps) > n
  /\ IsNative(Callee(n))
  /\ frames' = SetTemps(frames, Append(Below(n), Const(c)))
  /\ UNCHANGED <<acts, mem, fns>>

Return(v) ==
  /\ Len(frames) > 1
  /\ LET caller == frames[Len(frames) - 1]
     IN  frames' = SetTemps(Front(frames), Append(caller.temps, v))
  /\ UNCHANGED <<acts, mem, fns>>

ReturnValue == Top.temps # << >> /\ Return(Last(Top.temps))
ReturnVoid == Return(Garbage)

Next ==
  \/ \E v \in Literals : Literal(v)
  \/ Drop
  \/ \E i \in 0 .. FrameSize[Top.proto] - 1 : Load(LocalCell(i)) \/ Store(LocalCell(i))
  \/ \E k \in DOMAIN Captures[Top.proto] : Load(CapturedCell(k)) \/ Store(CapturedCell(k))
  \/ \E p \in Protos \ {Main} : MakeClosure(p)
  \/ \E n \in 0 .. MaxTemps - 1 : Call(n) \/ \E c \in Consts : CallNative(n, c)
  \/ ReturnValue
  \/ ReturnVoid

Spec == Init /\ [][Next]_vars
=============================================================================
