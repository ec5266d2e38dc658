-------------------------- MODULE ProcessRefinement --------------------------
(***************************************************************************)
(* The process table implements the call stack of ProcessStack: the        *)
(* backed-up contexts of the live processes below the current one are the  *)
(* pending calls, the context of the CPU is the running program.           *)
(***************************************************************************)
EXTENDS Process

Suspended(c) == [window |-> c.window, pc |-> c.pc]

CallStack ==
  [i \in 1 .. PID + 1 |->
     Suspended(IF i = PID + 1 THEN cpu ELSE process_table[i - 1].saved)]

Calls == INSTANCE ProcessStack WITH
  Depth <- MAX_PROCS, Programs <- Windows \cup {Kernel}, Main <- Kernel,
  stack <- CallStack

\* EXEC and EXIT behave as call and return: until a program is made to exit
\* by a page fault, every step is a call, a return or an instruction of the
\* running program.  A program resumes exactly at the instruction after its
\* EXEC, whatever its descendants did, failed at or ran out of.
ImplementsCalls == Calls!Init /\ [][Calls!Next \/ killed']_CallStack
=============================================================================
