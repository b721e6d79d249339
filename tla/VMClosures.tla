----------------------------- MODULE VMClosures -----------------------------
(***************************************************************************)
(* How the bytecode virtual machine keeps local and captured variables     *)
(* (BytecodeVM/vm.cpp): one stack for every frame's locals and             *)
(* temporaries, and heap-allocated upvalues that point at a stack slot     *)
(* while its frame is alive and hold the value themselves once it is gone. *)
(* The program is abstracted: whatever instruction is well formed in the   *)
(* running frame may come next.  The loops of MAKE_CLOSURE and             *)
(* closeUpvalues take one step per iteration.                              *)
(***************************************************************************)
EXTENDS ClosureProtos

VARIABLES
  stack,         \* of values; slot s of the C++ vector is stack[s + 1]
  frames,        \* [proto, base, function, act]
  upvalues,      \* upvalue objects made so far: [stackSlot, isClosed, closed, cell]
  openUpvalues,  \* indices of upvalues, in the order of the C++ vector
  fns,           \* function objects made so far: [proto, upvalues]
  pc,            \* "fetch", or the instruction whose loop is running
  making,        \* the function object MAKE_CLOSURE is filling
  at,            \* the loop index of closeUpvalues
  acts, mem      \* history, read by no guard: activations, and the value last
                 \* written to each variable of each; so are `act' and `cell'

vars == <<stack, frames, upvalues, openUpvalues, fns, pc, making, at, acts, mem>>
heap == <<upvalues, openUpvalues, fns>>
loops == <<pc, making, at>>
history == <<acts, mem>>

Nothing == [proto |-> Main, upvalues |-> << >>]
frame == Last(frames)
Locals(fr) == fr.base .. fr.base + FrameSize[fr.proto] - 1
FirstTemp(fr) == fr.base + FrameSize[fr.proto] + 1
Temps == Len(stack) - FirstTemp(frame) + 1
Peek == Last(stack)
Push(v) == /\ Temps < MaxTemps
           /\ stack' = Append(stack, v)
Pop == /\ Temps > 0
       /\ stack' = Front(stack)
Garbages(n) == [s \in 1 .. n |-> Garbage]
\* std::vector::resize(n, Garbage)
Resize(s, n) == [k \in 1 .. n |-> IF k <= Len(s) THEN s[k] ELSE Garbage]
NewCells(act, base, n, st) == [c \in {act} \X (0 .. n - 1) |-> st[base + c[2] + 1]]

Init ==
  /\ stack = Garbages(FrameSize[Main])
  /\ frames = <<[proto |-> Main, base |-> 0, function |-> 0, act |-> 0]>>
  /\ upvalues = << >>
  /\ openUpvalues = << >>
  /\ fns = << >>
  /\ pc = "fetch"
  /\ making = Nothing
  /\ at = 1
  /\ acts = 1
  /\ mem = NewCells(0, 0, FrameSize[Main], stack)

PushConst(v) ==
  /\ pc = "fetch"
  /\ Push(v)
  /\ UNCHANGED <<frames, heap, loops, history>>

PopTop ==
  /\ pc = "fetch"
  /\ Pop
  /\ UNCHANGED <<frames, heap, loops, history>>

LoadLocal(i) ==
  /\ pc = "fetch"
  /\ Push(stack[frame.base + i + 1])
  /\ UNCHANGED <<frames, heap, loops, history>>

\* The value is popped, stored and pushed back.
StoreLocal(i) ==
  /\ pc = "fetch"
  /\ Temps > 0
  /\ stack' = [stack EXCEPT ![frame.base + i + 1] = Peek]
  /\ mem' = [mem EXCEPT ![<<frame.act, i>>] = Peek]
  /\ UNCHANGED <<frames, heap, loops, acts>>

Upvalue(k) == fns[frame.function].upvalues[k]

LoadUpvalue(k) ==
  /\ pc = "fetch"
  /\ LET up == upvalues[Upvalue(k)]
     IN  Push(IF up.isClosed THEN up.closed ELSE stack[up.stackSlot + 1])
  /\ UNCHANGED <<frames, heap, loops, history>>

StoreUpvalue(k) ==
  /\ pc = "fetch"
  /\ Temps > 0
  /\ LET u == Upvalue(k)
     IN  /\ IF upvalues[u].isClosed
            THEN /\ upvalues' = [upvalues EXCEPT ![u].closed = Peek]
                 /\ UNCHANGED stack
            ELSE /\ stack' = [stack EXCEPT ![upvalues[u].stackSlot + 1] = Peek]
                 /\ UNCHANGED upvalues
         /\ mem' = [mem EXCEPT ![upvalues[u].cell] = Peek]
  /\ UNCHANGED <<frames, openUpvalues, fns, loops, acts>>

MakeClosure(p) ==
  /\ pc = "fetch"
  /\ ParentOf[p] = frame.proto
  /\ Len(fns) < MaxClosures
  /\ Temps < MaxTemps
  /\ pc' = "make"
  /\ making' = [proto |-> p, upvalues |-> << >>]
  /\ UNCHANGED <<stack, frames, heap, at, history>>

\* The capture MAKE_CLOSURE is at, and the slot it names when it is a local.
Capture == Captures[making.proto][Len(making.upvalues) + 1]
SlotInFrame == Capture.index
WantedSlot == frame.base + Capture.index
Capturing == pc = "make" /\ Len(making.upvalues) < Len(Captures[making.proto])
Captured(u) == making' = [making EXCEPT !.upvalues = Append(@, u)]
ReusableUpvalue(u) == ~upvalues[u].isClosed /\ upvalues[u].stackSlot = WantedSlot

CaptureOpen(j) ==
  /\ Capturing
  /\ Capture.isLocal
  /\ ReusableUpvalue(openUpvalues[j])
  /\ \A i \in 1 .. j - 1 : ~ReusableUpvalue(openUpvalues[i])
  /\ Captured(openUpvalues[j])
  /\ UNCHANGED <<stack, frames, heap, pc, at, history>>

CaptureLocalAlways ==
  /\ Capturing
  /\ Capture.isLocal
  /\ upvalues' = Append(upvalues,
       [stackSlot |-> WantedSlot, isClosed |-> FALSE, closed |-> Garbage,
        cell |-> <<frame.act, Capture.index>>])
  /\ openUpvalues' = Append(openUpvalues, Len(upvalues) + 1)
  /\ Captured(Len(upvalues) + 1)
  /\ UNCHANGED <<stack, frames, fns, pc, at, history>>

CaptureLocal ==
  /\ Capturing
  /\ Capture.isLocal
  /\ \A i \in DOMAIN openUpvalues : ~ReusableUpvalue(openUpvalues[i])
  /\ upvalues' = Append(upvalues,
       [stackSlot |-> WantedSlot, isClosed |-> FALSE, closed |-> Garbage,
        cell |-> <<frame.act, Capture.index>>])
  /\ openUpvalues' = Append(openUpvalues, Len(upvalues) + 1)
  /\ Captured(Len(upvalues) + 1)
  /\ UNCHANGED <<stack, frames, fns, pc, at, history>>

CaptureUpvalue ==
  /\ Capturing
  /\ ~Capture.isLocal
  /\ Captured(Upvalue(Capture.index + 1))
  /\ UNCHANGED <<stack, frames, heap, pc, at, history>>

PushClosureEarly ==
  /\ pc = "make"
  /\ Len(making.upvalues) + 1 >= Len(Captures[making.proto])
  /\ fns' = Append(fns, making)
  /\ Push(Fn(Len(fns) + 1))
  /\ pc' = "fetch"
  /\ making' = Nothing
  /\ UNCHANGED <<frames, upvalues, openUpvalues, at, history>>

PushClosure ==
  /\ pc = "make"
  /\ Len(making.upvalues) = Len(Captures[making.proto])
  /\ fns' = Append(fns, making)
  /\ Push(Fn(Len(fns) + 1))
  /\ pc' = "fetch"
  /\ making' = Nothing
  /\ UNCHANGED <<frames, upvalues, openUpvalues, at, history>>

Callee(n) == stack[Len(stack) - n]

Call(n) ==
  /\ pc = "fetch"
  /\ Temps > n
  /\ IsFn(Callee(n))
  /\ acts <= MaxCalls
  /\ LET f == Callee(n)[2]
         p == fns[f].proto
         base == Len(stack) - n
     IN  /\ Params[p] = n
         /\ stack' = Resize(stack, base + FrameSize[p])
         /\ frames' = Append(frames, [proto |-> p, base |-> base, function |-> f, act |-> acts])
         /\ mem' = WithNew(NewCells(acts, base, FrameSize[p], stack'), mem)
  /\ acts' = acts + 1
  /\ UNCHANGED <<heap, loops>>

\* The arguments and the native function are popped, its result c pushed.
CallNative(n, c) ==
  /\ pc = "fetch"
  /\ Temps > n
  /\ IsNative(Callee(n))
  /\ stack' = Append(SubSeq(stack, 1, Len(stack) - n - 1), Const(c))
  /\ UNCHANGED <<frames, heap, loops, history>>

\* Main ends with HALT, so only a called function returns.
StartReturn(instr) ==
  /\ pc = "fetch"
  /\ Len(frames) > 1
  /\ instr = "return value" => Temps > 0
  /\ pc' = instr
  /\ UNCHANGED <<stack, frames, heap, making, at, history>>

Closing == pc \in {"return void", "return value"}
AboveBase(u) == upvalues[u].stackSlot > frame.base
InFrame(u) == upvalues[u].stackSlot >= frame.base

CloseUpvalueEmpty ==
  /\ Closing
  /\ at <= Len(openUpvalues)
  /\ InFrame(openUpvalues[at])
  /\ upvalues' = [upvalues EXCEPT ![openUpvalues[at]].isClosed = TRUE]
  /\ openUpvalues' = Front([openUpvalues EXCEPT ![at] = Last(openUpvalues)])
  /\ UNCHANGED <<stack, frames, fns, loops, history>>

CloseUpvalueAndAdvance ==
  /\ Closing
  /\ at <= Len(openUpvalues)
  /\ LET u == openUpvalues[at]
     IN  /\ InFrame(u)
         /\ upvalues' = [upvalues EXCEPT ![u].isClosed = TRUE,
                                         ![u].closed = stack[upvalues[u].stackSlot + 1]]
  /\ openUpvalues' = Front([openUpvalues EXCEPT ![at] = Last(openUpvalues)])
  /\ at' = at + 1
  /\ UNCHANGED <<stack, frames, fns, pc, making, history>>

CloseUpvalue ==
  /\ Closing
  /\ at <= Len(openUpvalues)
  /\ LET u == openUpvalues[at]
     IN  /\ InFrame(u)
         /\ upvalues' = [upvalues EXCEPT ![u].isClosed = TRUE,
                                         ![u].closed = stack[upvalues[u].stackSlot + 1]]
  /\ openUpvalues' = Front([openUpvalues EXCEPT ![at] = Last(openUpvalues)])
  /\ UNCHANGED <<stack, frames, fns, loops, history>>

SkipUpvalue ==
  /\ Closing
  /\ at <= Len(openUpvalues)
  /\ ~InFrame(openUpvalues[at])
  /\ at' = at + 1
  /\ UNCHANGED <<stack, frames, heap, pc, making, history>>

PopFrame ==
  /\ Closing
  /\ at > Len(openUpvalues)
  /\ stack' = Append(Resize(stack, frame.base - 1),
                     IF pc = "return value" THEN Peek ELSE Garbage)
  /\ frames' = Front(frames)
  /\ pc' = "fetch"
  /\ at' = 1
  /\ UNCHANGED <<heap, making, history>>

Next ==
  \/ \E v \in Literals : PushConst(v)
  \/ PopTop
  \/ \E i \in 0 .. FrameSize[frame.proto] - 1 : LoadLocal(i) \/ StoreLocal(i)
  \/ \E k \in DOMAIN Captures[frame.proto] : LoadUpvalue(k) \/ StoreUpvalue(k)
  \/ \E p \in Protos \ {Main} : MakeClosure(p)
  \/ \E j \in DOMAIN openUpvalues : CaptureOpen(j)
  \/ CaptureLocal
  \/ CaptureUpvalue
  \/ PushClosure
  \/ \E n \in 0 .. MaxTemps - 1 : Call(n) \/ \E c \in Consts : CallNative(n, c)
  \/ \E instr \in {"return void", "return value"} : StartReturn(instr)
  \/ CloseUpvalue
  \/ SkipUpvalue
  \/ PopFrame

Spec == Init /\ [][Next]_vars

(***************************************************************************)
(* Properties.                                                             *)
(***************************************************************************)
Values == {Garbage} \union Literals \union {Fn(f) : f \in DOMAIN fns}
Cells == Nat \X Nat

StackType == stack \in Seq(Values)
FrameTypes ==
  /\ frames \in Seq([proto : Protos, base : Nat, function : 0 .. Len(fns), act : 0 .. acts - 1])
  /\ frames # << >>
  /\ acts \in Nat
UpvalueTypes ==
  /\ upvalues \in Seq([stackSlot : Nat, isClosed : BOOLEAN, closed : Values, cell : Cells])
  /\ openUpvalues \in Seq(DOMAIN upvalues)
FnTypes ==
  /\ fns \in Seq([proto : Protos, upvalues : Seq(DOMAIN upvalues)])
  /\ \A f \in DOMAIN fns : Len(fns[f].upvalues) = Len(Captures[fns[f].proto])
LoopTypes ==
  /\ pc \in {"fetch", "make", "return void", "return value"}
  /\ making \in [proto : Protos, upvalues : Seq(DOMAIN upvalues)]
  /\ at \in Nat \ {0}
MemTypes ==
  /\ DOMAIN mem \subseteq Cells
  /\ \A c \in DOMAIN mem : mem[c] \in Values

\* Every value on the stack exists, every frame's locals are on the stack, every
\* reference to an upvalue or a function object is one that was made, and a
\* function object has one upvalue for each capture of its prototype.
TypeOK == StackType /\ FrameTypes /\ UpvalueTypes /\ FnTypes /\ LoopTypes /\ MemTypes

\* Between instructions no two open upvalues share a slot: two closures over one
\* variable share one upvalue, so an assignment through either is seen by both.
OneUpvaluePerSlot ==
  \A i, j \in DOMAIN openUpvalues :
    upvalues[openUpvalues[i]].stackSlot = upvalues[openUpvalues[j]].stackSlot => i = j

\* An open upvalue points at a local variable of a live frame: never past the top
\* of the stack, never at a temporary, which other values would overwrite.
OpenUpvaluesPointAtLocals ==
  \A j \in DOMAIN openUpvalues : \E k \in DOMAIN frames :
    upvalues[openUpvalues[j]].stackSlot \in Locals(frames[k])

\* Closing visits every open upvalue although it removes while it iterates: between
\* instructions an upvalue is closed exactly when the activation that declared its
\* variable is over, so none is left pointing at slots the next call will reuse.
ClosedExactlyWhenDead ==
  pc \in {"fetch", "make"} =>
    \A u \in DOMAIN upvalues :
      upvalues[u].isClosed <=> \A k \in DOMAIN frames : frames[k].act # upvalues[u].cell[1]

\* What LOAD_LOCAL and LOAD_UPVALUE yield is what was last stored to the variable, by
\* whichever frame or closure, while its activation lives, during its return and after.
VariablesKeepTheirValues ==
  /\ \A k \in DOMAIN frames : \A i \in 0 .. FrameSize[frames[k].proto] - 1 :
       stack[frames[k].base + i + 1] = mem[<<frames[k].act, i>>]
  /\ \A u \in DOMAIN upvalues :
       mem[upvalues[u].cell] = IF upvalues[u].isClosed THEN upvalues[u].closed
                                                       ELSE stack[upvalues[u].stackSlot + 1]

TempsOf(k) ==
  SubSeq(stack, FirstTemp(frames[k]),
         IF k = Len(frames) THEN Len(stack) ELSE frames[k + 1].base - 1)

Activations ==
  [k \in DOMAIN frames |->
     [proto |-> frames[k].proto, act |-> frames[k].act,
      fn |-> frames[k].function, temps |-> TempsOf(k)]]
Closures ==
  [f \in DOMAIN fns |->
     [proto |-> fns[f].proto,
      cells |-> [k \in DOMAIN fns[f].upvalues |-> upvalues[fns[f].upvalues[k]].cell]]]

CC == INSTANCE ClosureCells WITH frames <- Activations, fns <- Closures

\* Stack slots and upvalues implement variables: every load yields the value last
\* stored to that variable by whichever frame or closure, before or after the
\* frame that declared it returned, and a call takes and leaves what it should.
ImplementsCells == CC!Spec
=============================================================================
