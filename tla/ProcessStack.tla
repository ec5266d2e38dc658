---------------------------- MODULE ProcessStack ----------------------------
(***************************************************************************)
(* What EXEC and EXIT promise to programs: running a program is a call.    *)
(* The caller waits, the callee runs to its end, and the caller goes on at *)
(* the instruction after the call, as if nothing else had run.             *)
(***************************************************************************)
EXTENDS Integers, Sequences

CONSTANTS
  Depth,     \* calls that can be pending, the one of the kernel included
  Programs,  \* loaded programs, each run once
  Main,      \* the program the kernel starts with
  MaxPc      \* bound: instructions a program executes

VARIABLE stack  \* the programs that have not ended, callers below callees

Frame == [window : Programs, pc : 0 .. MaxPc]
Top   == stack[Len(stack)]
Under == SubSeq(stack, 1, Len(stack) - 1)
Advanced == [Top EXCEPT !.pc = @ + 1]

Init == stack = <<[window |-> Main, pc |-> 0]>>

\* An instruction of the running program, or a call that fails.
Run ==
  /\ Top.pc < MaxPc
  /\ stack' = Append(Under, Advanced)

\* A call of a program that is not on the stack.
Call(w) ==
  /\ Len(stack) < Depth
  /\ Top.pc < MaxPc
  /\ \A i \in 1 .. Len(stack) : stack[i].window # w
  /\ stack' = Append(Append(Under, Advanced), [window |-> w, pc |-> 0])

\* The running program ends.
Return ==
  /\ Len(stack) > 1
  /\ stack' = Under

Next == Run \/ Return \/ \E w \in Programs : Call(w)

Spec == Init /\ [][Next]_stack
=============================================================================
