---------------------------- MODULE ProcessProofs ----------------------------
(***************************************************************************)
(* Proofs about Process, for every number of slots, windows, frames and    *)
(* every set of binaries: first the process table, then the memory of the  *)
(* processes.                                                              *)
(*                                                                         *)
(* For the table the inductive invariant adds to TypeOK and LiveChain what *)
(* they need to be preserved: slot 0 stays the kernel's, and an EXIT       *)
(* always finds a context to return to.                                    *)
(***************************************************************************)
EXTENDS ProcessRefinement, TLAPS

\* Slot 0 is never given to another process.
KernelSlot ==
  /\ process_table[0].code_addr = Kernel
  /\ process_table[0].ppid = 0

\* Every suspended process has a context, and so has slot 0 as soon as another
\* program runs, even when page faults have made its children exit.
Resumable ==
  kernel = "running" =>
    /\ \A s \in Live \ {PID} : process_table[s].saved \in Context
    /\ cpu.window # Kernel => process_table[0].saved \in Context

IInv == TypeOK /\ LiveChain /\ KernelSlot /\ Resumable

-----------------------------------------------------------------------------
\* Walks of alloc_pages give pages frames and keep the counter a number.
LEMMA MappedType ==
  ASSUME mapped \in [Page -> Nat \cup {Unmapped}],
         NEW base \in Nat, NEW ps, NEW extra \in Nat, NEW k \in Nat
  PROVE  MappedAfter(base, ps, extra, k) \in [Page -> Nat \cup {Unmapped}]
<1>1. SUFFICES ASSUME NEW p \in Page, \E i \in 1 .. k : ps[i] = p
               PROVE  FrameOf(base, extra, CHOOSE i \in 1 .. k : ps[i] = p) \in Nat
  BY Zenon DEF MappedAfter
<1>2. (CHOOSE i \in 1 .. k : ps[i] = p) \in 1 .. k
  BY <1>1, Zenon
<1>3. \A i \in 1 .. k : FrameOf(base, extra, i) \in Nat
  BY DEF FrameOf
<1> QED BY <1>2, <1>3, Zenon

\* Its counter stays a number, failed walks included.
LEMMA FramesType ==
  ASSUME NEW base \in Nat, NEW ps, Len(ps) \in Nat, NEW extra \in Nat, NEW k \in Nat
  PROVE  FramesAfter(base, ps, extra, k) \in Nat
BY DEF FramesAfter

\* free_pages only unmaps.
LEMMA FreeType ==
  ASSUME mapped \in [Page -> Nat \cup {Unmapped}], NEW ps
  PROVE  FreePages(ps) \in [Page -> Nat \cup {Unmapped}]
BY Zenon DEF FreePages

\* Live processes have a slot.
LEMMA LiveSlots ==
  ASSUME TypeOK
  PROVE  Live \subseteq Slots /\ 0 \in Slots
BY ProcessAssumption DEF TypeOK, Live, Slots

\* The context of a process that never made a call is not one to return to.
LEMMA NoContextIsNone == NoContext \notin Context
BY MemoryAssumption DEF NoContext, Context, Windows, Kernel, UserRegion

\* The backed-up context is one the CPU can return to.
LEMMA BackedUpType ==
  ASSUME TypeOK, MayExec
  PROVE  BackedUp \in Context
<1>1. cpu \in Context /\ cpu.pc + 1 \in 0 .. MaxPc
  BY ProcessAssumption DEF TypeOK, MayExec, Context
<1> QED BY <1>1 DEF BackedUp, Context, EXEC

\* Backing up the caller changes its saved context and nothing else.
LEMMA BackupKeeps ==
  ASSUME IInv, MayExec
  PROVE  /\ WithBackup \in [Slots -> Process]
         /\ \A s \in Slots : /\ WithBackup[s].pid = process_table[s].pid
                             /\ WithBackup[s].ppid = process_table[s].ppid
                             /\ WithBackup[s].code_addr = process_table[s].code_addr
                             /\ WithBackup[s].page_table_frame = process_table[s].page_table_frame
                             /\ WithBackup[s].saved = IF s = PID THEN BackedUp
                                                     ELSE process_table[s].saved
<1>1. BackedUp \in Context BY BackedUpType, Zenon DEF IInv
<1> QED BY <1>1 DEF IInv, TypeOK, WithBackup, Process

-----------------------------------------------------------------------------
(***************************************************************************)
(* One lemma per action.                                                   *)
(***************************************************************************)

\* A call that returns an error to its caller, whatever it did to the memory.
LEMMA FailedExecPreserves ==
  ASSUME IInv, MayExec, NEW rax \in Int, ReturnToCaller(rax),
         process_table' = WithBackup,
         mapped' \in [Page -> Nat \cup {Unmapped}],
         ALLOCATED_FRAMES' \in Nat,
         CODE_ADDR' \in 0 .. MaxWindows,
         strayed' \in BOOLEAN,
         UNCHANGED <<PID, MAX_PID, cr3, userOwner, killed, faults, kernel>>
  PROVE  IInv'
<1> USE DEF IInv
<1>1. cpu' \in Context /\ cpu'.window = cpu.window
  BY ProcessAssumption DEF TypeOK, MayExec, Context, ReturnToCaller
<1>2. BackedUp \in Context BY BackedUpType, Zenon
<1>3. TypeOK' BY <1>1, BackupKeeps, Zenon DEF TypeOK
<1>4. LiveChain' BY BackupKeeps, LiveSlots, Zenon DEF LiveChain, Live, Current, TypeOK
<1>5. KernelSlot' BY BackupKeeps, LiveSlots, Zenon DEF KernelSlot
<1>6. Resumable'
  BY <1>1, <1>2, BackupKeeps, LiveSlots, Zenon DEF Resumable, Live, MayExec
<1> QED BY <1>3, <1>4, <1>5, <1>6, Zenon

\* service::spawn on a file it cannot read.
LEMMA ExecNoFilePreserves ==
  ASSUME IInv, ExecNoFile
  PROVE  IInv'
<1>1. MayExec /\ ReturnToCaller(-1) /\ process_table' = WithBackup
      /\ UNCHANGED <<PID, MAX_PID, cr3, userOwner, history, kernel>>
      /\ mapped' = mapped /\ ALLOCATED_FRAMES' = ALLOCATED_FRAMES /\ CODE_ADDR' = CODE_ADDR
  BY Zenon DEF ExecNoFile, memVars
<1> QED BY <1>1, FailedExecPreserves DEF IInv, TypeOK, history

\* Process::create without a free slot.
LEMMA ExecTableFullPreserves ==
  ASSUME IInv, ExecTableFull
  PROVE  IInv'
<1>1. MayExec /\ ReturnToCaller(ExecError) /\ process_table' = WithBackup
      /\ UNCHANGED <<PID, MAX_PID, cr3, userOwner, history, kernel>>
      /\ mapped' = mapped /\ ALLOCATED_FRAMES' = ALLOCATED_FRAMES /\ CODE_ADDR' = CODE_ADDR
  BY Zenon DEF ExecTableFull, memVars
<1> QED BY <1>1, FailedExecPreserves DEF IInv, TypeOK, history, ExecError

\* The frame counter and the windows while a binary is loaded.
LEMMA CreatesType ==
  ASSUME TypeOK, Creates
  PROVE  /\ LoadBase \in Nat
         /\ CODE_ADDR \in Windows
         /\ CODE_ADDR' \in 0 .. MaxWindows
         /\ MAX_PID \in Slots
BY MemoryAssumption, ProcessAssumption DEF TypeOK, Creates, LoadBase, Windows, Slots

\* A program has strayed or not.
LEMMA StraysType ==
  ASSUME NEW w, NEW ps, NEW k, Strays(w, ps, k)
  PROVE  strayed' \in BOOLEAN
BY Zenon DEF Strays

\* Appending to a sequence of known elements.
LEMMA AppendedTo ==
  ASSUME NEW S, NEW ps \in Seq(S), NEW p \in S
  PROVE  /\ Append(ps, p) \in Seq(S)
         /\ Len(Append(ps, p)) = Len(ps) + 1
         /\ Len(ps) \in Nat
         /\ \A i \in 1 .. Len(ps) : Append(ps, p)[i] = ps[i]
         /\ Append(ps, p)[Len(ps) + 1] = p
OBVIOUS

\* The segments of a binary are a sequence of pages.
LEMMA SegmentsType ==
  ASSUME NEW b \in Binaries, InRange(b)
  PROVE  /\ Len(b.pages) \in Nat
         /\ Segments(b) \in Seq(Page)
         /\ Len(Segments(b)) = Len(b.pages)
<1>1. b.pages \in Seq(Nat \X Offsets) BY ProcessAssumption, Zenon DEF Binary
<1>2. Len(b.pages) \in Nat BY <1>1
<1>3. \A i \in 1 .. Len(b.pages) : Segments(b)[i] \in Page BY Zenon DEF InRange
<1>4. /\ DOMAIN Segments(b) = 1 .. Len(b.pages)
      /\ Segments(b) = [i \in 1 .. Len(b.pages) |-> Segments(b)[i]]
  BY Zenon DEF Segments
<1> HIDE DEF Segments
<1>5. Segments(b) \in [1 .. Len(b.pages) -> Page] BY <1>3, <1>4, Zenon
<1>6. Segments(b) \in Seq(Page) /\ Len(Segments(b)) = Len(b.pages)
  BY <1>2, <1>4, <1>5
<1> QED BY <1>2, <1>6, Zenon

\* What a load maps: the segments and then pages of the new window.
LEMMA LoadedType ==
  ASSUME NEW b \in Binaries, InRange(b), CODE_ADDR \in Windows
  PROVE  /\ LoadedPages(b) \in Seq(Page)
         /\ Len(LoadedPages(b)) \in Nat
         /\ ArgsPage \in Page /\ HeapPage \in Page
<1>1. ArgsPage \in Page /\ HeapPage \in Page
  BY ProcessAssumption, Zenon DEF ArgsPage, HeapPage, Page
<1>2. Segments(b) \in Seq(Page) BY SegmentsType, Zenon
<1> DEFINE ps == Append(Segments(b), ArgsPage)
<1>3. ps \in Seq(Page) BY <1>1, <1>2, AppendedTo, Zenon
<1>4. Append(ps, HeapPage) \in Seq(Page) BY <1>1, <1>3, AppendedTo, Zenon
<1>5. LoadedPages(b) \in {ps, Append(ps, HeapPage)} BY Zenon DEF LoadedPages
<1> HIDE DEF ps
<1>6. LoadedPages(b) \in Seq(Page) BY <1>3, <1>4, <1>5, Zenon
<1>7. Len(LoadedPages(b)) \in Nat BY <1>6
<1> QED BY <1>1, <1>6, <1>7, Zenon

\* Process::create on a binary it cannot load, or only in part.
LEMMA ExecBadBinaryPreserves ==
  ASSUME IInv, NEW b \in Binaries, NEW extra \in 0 .. MaxTableFrames,
         NEW k \in 0 .. Len(b.pages), ExecBadBinary(b, extra, k)
  PROVE  IInv'
<1> DEFINE ps == IF Loadable(b) THEN Segments(b) ELSE <<>>
<1>1. /\ Creates /\ MayExec /\ ReturnToCaller(ExecError) /\ process_table' = WithBackup
      /\ mapped' = MappedAfter(LoadBase, ps, extra, k)
      /\ ALLOCATED_FRAMES' = FramesAfter(LoadBase, ps, extra, k)
      /\ InRange(b) /\ strayed' \in BOOLEAN
      /\ UNCHANGED <<PID, MAX_PID, cr3, userOwner, killed, faults, kernel>>
  BY StraysType, Zenon DEF ExecBadBinary, Creates
<1>2. TypeOK /\ LoadBase \in Nat /\ CODE_ADDR' \in 0 .. MaxWindows
  BY <1>1, CreatesType, Zenon DEF IInv
<1>3. Len(ps) \in Nat /\ extra \in Nat /\ k \in Nat
  BY <1>1, SegmentsType, MemoryAssumption
<1> HIDE DEF ps
<1>4. mapped' \in [Page -> Nat \cup {Unmapped}]
  BY <1>1, <1>2, <1>3, MappedType, Zenon DEF TypeOK
<1>5. ALLOCATED_FRAMES' \in Nat
  BY <1>1, <1>2, <1>3, FramesType, Zenon
<1>6. ExecError \in Int BY DEF ExecError
<1> QED BY <1>1, <1>2, <1>4, <1>5, <1>6, FailedExecPreserves, Zenon

\* Process::exec: the child takes the first free slot and becomes current.
LEMMA ExecOkPreserves ==
  ASSUME IInv, NEW b \in Binaries, NEW extra \in 0 .. MaxTableFrames, ExecOk(b, extra)
  PROVE  IInv'
<1> DEFINE ps == LoadedPages(b)
           child == [pid |-> MAX_PID, ppid |-> Current.pid, code_addr |-> CODE_ADDR,
                     page_table_frame |-> ALLOCATED_FRAMES, saved |-> BackedUp]
<1>1. /\ Creates /\ MayExec
      /\ mapped' = MappedAfter(LoadBase, ps, extra, Len(ps))
      /\ ALLOCATED_FRAMES' = FramesAfter(LoadBase, ps, extra, Len(ps))
      /\ process_table' = [WithBackup EXCEPT ![MAX_PID] = child]
      /\ MAX_PID' = MAX_PID + 1 /\ PID' = MAX_PID /\ cr3' = ALLOCATED_FRAMES
      /\ cpu' = [window |-> CODE_ADDR, pc |-> 0, rax |-> 0]
      /\ InRange(b) /\ strayed' \in BOOLEAN
      /\ UNCHANGED <<userOwner, killed, faults, kernel>>
  BY StraysType, Zenon DEF ExecOk, Creates
<1>2. /\ TypeOK /\ LoadBase \in Nat /\ CODE_ADDR \in Windows
      /\ CODE_ADDR' \in 0 .. MaxWindows /\ MAX_PID \in Slots
  BY <1>1, CreatesType, Zenon DEF IInv
<1>3. Len(ps) \in Nat /\ extra \in Nat
  BY <1>1, <1>2, LoadedType, MemoryAssumption
<1>4. LiveChain /\ kernel = "running" /\ PID = MAX_PID - 1 /\ PID \in Live
  BY <1>1, <1>2, ProcessAssumption DEF IInv, LiveChain, MayExec, TypeOK, Slots, Live
<1>5. Current.pid = PID /\ PID \in Slots /\ ALLOCATED_FRAMES \in Nat
  BY <1>2, <1>4, Zenon DEF LiveChain, Current, TypeOK
<1>6. BackedUp \in Context BY <1>1, <1>2, BackedUpType, Zenon
<1>7. child \in Process
  BY <1>2, <1>5, <1>6, Zenon DEF Process
<1>8. /\ process_table' \in [Slots -> Process]
      /\ process_table'[MAX_PID] = child
      /\ \A s \in Slots \ {MAX_PID} : process_table'[s] = WithBackup[s]
  BY <1>1, <1>2, <1>7, BackupKeeps, Zenon
<1>9. mapped' \in [Page -> Nat \cup {Unmapped}]
  <2> HIDE DEF ps
  <2> QED BY <1>1, <1>2, <1>3, MappedType, Zenon DEF TypeOK
<1>10. ALLOCATED_FRAMES' \in Nat
  <2> HIDE DEF ps
  <2> QED BY <1>1, <1>2, <1>3, FramesType, Zenon
<1>11. cpu' \in Context
  BY <1>1, <1>2, ProcessAssumption DEF Context
<1> HIDE DEF ps
<1>12. TypeOK'
  BY <1>1, <1>2, <1>5, <1>8, <1>9, <1>10, <1>11, ProcessAssumption DEF TypeOK, Slots
<1>13. Live' = Live \cup {MAX_PID} /\ MAX_PID \notin Live /\ 0 \in Live /\ MAX_PID # 0
  BY <1>1, <1>2, <1>4, ProcessAssumption DEF Live, Slots, TypeOK
<1>14. LiveChain'
  <2>1. PID' = MAX_PID' - 1 BY <1>1, <1>2 DEF Slots
  <2>2. \A s \in Live : /\ process_table'[s].pid = process_table[s].pid
                        /\ process_table'[s].ppid = process_table[s].ppid
    BY <1>2, <1>1, <1>8, <1>13, BackupKeeps, LiveSlots, Zenon
  <2>3. child.pid = MAX_PID /\ child.ppid = MAX_PID - 1 /\ child.page_table_frame = cr3'
    BY <1>1, <1>4, <1>5, Zenon
  <2>4. (Current.page_table_frame)' = child.page_table_frame
    BY <1>1, <1>8, Zenon DEF Current
  <2> HIDE DEF child
  <2>5. \A s \in Live' : process_table'[s].pid = s
    BY <1>4, <1>8, <1>13, <2>2, <2>3, Zenon DEF LiveChain
  <2>6. \A s \in Live' \ {0} : process_table'[s].ppid = s - 1
    BY <1>4, <1>8, <1>13, <2>2, <2>3, Zenon DEF LiveChain
  <2> QED BY <2>1, <2>3, <2>4, <2>5, <2>6, Zenon DEF LiveChain
<1>15. KernelSlot'
  BY <1>1, <1>8, <1>13, BackupKeeps, LiveSlots, <1>2, Zenon DEF IInv, KernelSlot
<1>16. Resumable'
  BY <1>1, <1>2, <1>4, <1>6, <1>8, <1>13, BackupKeeps, LiveSlots DEF IInv, Resumable
<1> QED BY <1>12, <1>14, <1>15, <1>16, Zenon DEF IInv

\* A panic stops the kernel where it is.
LEMMA ExecPanicPreserves ==
  ASSUME IInv, NEW b, NEW extra, ExecPanic(b, extra)
  PROVE  IInv'
<1>1. kernel' = "panicked" /\ MayExec /\ UNCHANGED <<memVars, tableVars, cpu, history>>
  BY Zenon DEF ExecPanic
<1> QED BY <1>1, Zenon DEF IInv, TypeOK, LiveChain, KernelSlot, Resumable, Live, Current,
                    memVars, tableVars, history, MayExec

\* process::exit: the parent becomes current.  When the current process is the
\* kernel's own, its code is unmapped and nothing runs any more.
LEMMA ExitPreserves ==
  ASSUME IInv, UserRuns, ExitProcess, cpu' \in Context,
         ALLOCATED_FRAMES' \in Nat, killed' \in BOOLEAN, strayed' \in BOOLEAN,
         faults' \in Nat
  PROVE  IInv'
<1> USE DEF IInv
<1>1. /\ kernel = "running" /\ PID = MAX_PID - 1 /\ PID \in Slots /\ PID \in Live
      /\ MAX_PID \in 1 .. MAX_PROCS
  BY ProcessAssumption DEF UserRuns, LiveChain, TypeOK, Slots, Live
<1>2. Current \in Process /\ Current.ppid \in Slots
  BY <1>1, Zenon DEF TypeOK, Current, Process
<1>3. mapped' \in [Page -> Nat \cup {Unmapped}]
  BY FreeType, Zenon DEF ExitProcess, TypeOK
<1>4. process_table[Current.ppid].page_table_frame \in Nat \cup {BootFrame}
  BY <1>2, Zenon DEF TypeOK, Process
<1>5. TypeOK'
  <2>1. MAX_PID' \in 0 .. MAX_PROCS
    BY <1>1, ProcessAssumption DEF ExitProcess
  <2>2. PID' \in Slots /\ cr3' \in Nat \cup {BootFrame}
    BY <1>2, <1>4, Zenon DEF ExitProcess
  <2>3. kernel' \in {"running", "panicked", "unmapped"}
    BY <1>1, Zenon DEF ExitProcess
  <2> QED BY <1>3, <2>1, <2>2, <2>3, Zenon DEF ExitProcess, TypeOK
<1>6. CASE PID = 0
  <2>1. kernel' = "unmapped" BY <1>6, Zenon DEF KernelSlot, Current, ExitProcess
  <2> QED BY <1>5, <2>1, Zenon DEF LiveChain, KernelSlot, Resumable, ExitProcess
<1>7. CASE PID # 0
  <2>1. Current.ppid = PID - 1 /\ PID' = PID - 1 /\ MAX_PID' = MAX_PID - 1
    BY <1>1, <1>7, Zenon DEF LiveChain, Current, ExitProcess
  <2>2. Live' \subseteq Live /\ PID \notin Live' /\ PID' \in Live'
    BY <1>1, <1>7, <2>1, ProcessAssumption DEF Live, Slots
  <2>3. LiveChain'
    BY <1>1, <2>1, <2>2, Zenon DEF LiveChain, Current, ExitProcess
  <2>4. KernelSlot' BY Zenon DEF KernelSlot, ExitProcess
  <2>5. Resumable'
    BY <1>1, <2>2, Zenon DEF Resumable, ExitProcess, UserRuns
  <2> QED BY <1>5, <2>3, <2>4, <2>5, Zenon
<1> QED BY <1>6, <1>7, Zenon

\* EXIT: the context returned to is the parent's.
LEMMA SysExitPreserves ==
  ASSUME IInv, SysExit
  PROVE  IInv'
<1> USE DEF IInv
<1>1. /\ UserRuns /\ ExitProcess
      /\ cpu' = process_table[Current.ppid].saved
      /\ UNCHANGED <<ALLOCATED_FRAMES, killed, strayed, faults>>
  BY Zenon DEF SysExit, history
<1>2. process_table[Current.ppid].saved \in Context
  <2>1. kernel = "running" /\ PID = MAX_PID - 1 /\ PID \in Slots /\ cpu.window # Kernel
    BY <1>1, Zenon DEF UserRuns, LiveChain, TypeOK
  <2>2. CASE PID = 0
    BY <2>1, <2>2, Zenon DEF KernelSlot, Resumable, Current
  <2>3. CASE PID # 0
    <3>1. Current.ppid = PID - 1 /\ PID - 1 \in Live \ {PID}
      BY <2>1, <2>3, ProcessAssumption DEF LiveChain, Current, Live, Slots, TypeOK
    <3> QED BY <2>1, <3>1, Zenon DEF Resumable
  <2> QED BY <2>2, <2>3, Zenon
<1> QED BY <1>1, <1>2, ExitPreserves, Zenon DEF TypeOK

\* A page fault that makes the current process exit.
LEMMA FaultExitPreserves ==
  ASSUME IInv, NEW extra \in 0 .. MaxTableFrames, FaultExit(extra)
  PROVE  IInv'
<1>1. /\ UserRuns /\ ExitProcess /\ ALLOCATED_FRAMES' = ALLOCATED_FRAMES + 1 + extra
      /\ killed' = TRUE /\ faults' = faults + 1 /\ UNCHANGED <<cpu, strayed>>
  BY Zenon DEF FaultExit, TakesFault, TakesInVain
<1>2. extra \in Nat BY MemoryAssumption
<1> QED BY <1>1, <1>2, ExitPreserves DEF IInv, TypeOK

\* A step that leaves the table and the context alone keeps the chain.
LEMMA SameTablePreserves ==
  ASSUME IInv, UNCHANGED <<tableVars, cpu, killed>>,
         strayed' \in BOOLEAN, faults' \in Nat,
         kernel' \in {kernel, "panicked"}, kernel # "unmapped",
         mapped' \in [Page -> Nat \cup {Unmapped}],
         ALLOCATED_FRAMES' \in Nat,
         userOwner' \in [UserOffsets -> Windows \cup {Kernel}]
  PROVE  IInv'
<1>1. TypeOK' BY Zenon DEF IInv, TypeOK, tableVars
<1>2. LiveChain' /\ KernelSlot' /\ Resumable'
  BY Zenon DEF IInv, LiveChain, KernelSlot, Resumable, Live, Current, tableVars
<1> QED BY <1>1, <1>2, Zenon DEF IInv

\* The owner of a page at USER_ADDR is the program that faulted.
LEMMA OwnerType ==
  ASSUME TypeOK, NEW p \in Page, NEW w \in Windows \cup {Kernel}, SetOwner(p, w)
  PROVE  userOwner' \in [UserOffsets -> Windows \cup {Kernel}]
<1>1. userOwner \in [UserOffsets -> Windows \cup {Kernel}] BY Zenon DEF TypeOK
<1>2. p[1] = UserRegion => p[2] \in UserOffsets
  BY DEF Page, Windows, UserRegion
<1> QED BY <1>1, <1>2, Zenon DEF SetOwner

\* A page fault that maps its page keeps the types of the memory.
LEMMA FaultMapsType ==
  ASSUME TypeOK, NEW p, NEW extra \in 0 .. MaxTableFrames
  PROVE  /\ MappedAfter(ALLOCATED_FRAMES, <<p>>, extra, 1) \in [Page -> Nat \cup {Unmapped}]
         /\ FramesAfter(ALLOCATED_FRAMES, <<p>>, extra, 1) \in Nat
<1>1. extra \in Nat /\ ALLOCATED_FRAMES \in Nat /\ Len(<<p>>) = 1
  BY MemoryAssumption DEF TypeOK
<1> QED BY <1>1, MappedType, FramesType, Zenon DEF TypeOK

\* page_fault_handler on a write it can serve.
LEMMA WriteFaultPreserves ==
  ASSUME IInv, NEW p \in Page, NEW extra \in 0 .. MaxTableFrames, WriteFault(p, extra)
  PROVE  IInv'
<1>1. /\ TypeOK /\ cpu.window \in Windows \cup {Kernel} /\ kernel = "running"
      /\ faults' = faults + 1 /\ strayed' \in BOOLEAN
  BY StraysType, Zenon DEF IInv, TypeOK, Context, WriteFault, TakesFault, UserRuns
<1>2. userOwner' \in [UserOffsets -> Windows \cup {Kernel}]
  BY <1>1, OwnerType, Zenon DEF WriteFault
<1>3. /\ mapped' \in [Page -> Nat \cup {Unmapped}] /\ ALLOCATED_FRAMES' \in Nat
      /\ UNCHANGED <<tableVars, cpu, killed, kernel>>
  BY <1>1, FaultMapsType, Zenon DEF WriteFault
<1>4. faults' \in Nat BY <1>1 DEF TypeOK
<1> QED BY <1>1, <1>2, <1>3, <1>4, SameTablePreserves, Zenon

\* page_fault_handler on a read, the panic on a missing image included.
LEMMA ReadFaultPreserves ==
  ASSUME IInv, NEW p \in Page, NEW extra \in 0 .. MaxTableFrames, ReadFault(p, extra)
  PROVE  IInv'
<1>1. TypeOK /\ kernel = "running" /\ faults' = faults + 1 /\ strayed' \in BOOLEAN
  BY StraysType, Zenon DEF IInv, ReadFault, TakesFault, UserRuns
<1>2. Current.code_addr \in Windows \cup {Kernel}
  BY <1>1, Zenon DEF TypeOK, Current, Process
<1>3. userOwner' \in [UserOffsets -> Windows \cup {Kernel}]
  BY <1>1, <1>2, OwnerType, Zenon DEF ReadFault
<1>4. /\ mapped' \in [Page -> Nat \cup {Unmapped}] /\ ALLOCATED_FRAMES' \in Nat
      /\ UNCHANGED <<tableVars, cpu, killed>>
  BY <1>1, FaultMapsType, Zenon DEF ReadFault
<1>5. kernel' \in {kernel, "panicked"} BY Zenon DEF ReadFault
<1>6. faults' \in Nat BY <1>1 DEF TypeOK
<1> QED BY <1>1, <1>3, <1>4, <1>5, <1>6, SameTablePreserves, Zenon

\* A read that cannot be served only burns frame numbers.
LEMMA ReadFaultUnservedPreserves ==
  ASSUME IInv, NEW extra \in 0 .. MaxTableFrames, ReadFaultUnserved(extra)
  PROVE  IInv'
<1>1. /\ TypeOK /\ kernel = "running" /\ ALLOCATED_FRAMES' = ALLOCATED_FRAMES + 1 + extra
      /\ faults' = faults + 1
      /\ UNCHANGED <<mapped, userOwner, tableVars, cpu, killed, strayed, kernel>>
  BY Zenon DEF IInv, ReadFaultUnserved, TakesFault, TakesInVain, UserRuns
<1>2. extra \in Nat BY MemoryAssumption
<1> QED BY <1>1, <1>2, SameTablePreserves DEF TypeOK

\* A store to a mapped page at USER_ADDR only changes whose data it holds.
LEMMA UserStorePreserves ==
  ASSUME IInv, NEW u \in UserOffsets, UserStore(u)
  PROVE  IInv'
<1>1. /\ TypeOK /\ kernel = "running" /\ cpu.window \in Windows \cup {Kernel}
      /\ UNCHANGED <<mapped, ALLOCATED_FRAMES, tableVars, cpu, killed, strayed, faults, kernel>>
      /\ userOwner' = [userOwner EXCEPT ![u] = cpu.window]
  BY Zenon DEF IInv, UserStore, UserRuns, TypeOK, Context, history
<1> QED BY <1>1, SameTablePreserves, Zenon DEF TypeOK

\* Any other instruction only advances the program.
LEMMA StepPreserves ==
  ASSUME IInv, Step
  PROVE  IInv'
<1>1. /\ cpu' = [cpu EXCEPT !.pc = @ + 1] /\ cpu \in Context /\ cpu.pc < MaxPc
      /\ UNCHANGED <<memVars, tableVars, history, kernel>>
  BY Zenon DEF IInv, TypeOK, Step
<1>2. cpu' \in Context /\ cpu'.window = cpu.window
  BY <1>1, ProcessAssumption DEF Context
<1>3. TypeOK' BY <1>1, <1>2, Zenon DEF IInv, TypeOK, memVars, tableVars, history
<1>4. LiveChain' /\ KernelSlot' /\ Resumable'
  BY <1>1, <1>2, Zenon DEF IInv, LiveChain, KernelSlot, Resumable, Live, Current, tableVars
<1> QED BY <1>3, <1>4, Zenon DEF IInv

-----------------------------------------------------------------------------
\* The machine boots with the kernel as the only process.
LEMMA InitIInv == Init => IInv
<1> SUFFICES ASSUME Init PROVE IInv BY Zenon
<1>1. 0 \in Slots /\ Live = {0} BY ProcessAssumption DEF Init, Slots, Live
<1>2. NewProcess \in Process BY <1>1, Zenon DEF NewProcess, Process
<1>3. cpu \in Context BY ProcessAssumption DEF Init, Context
<1>4. TypeOK
  <2>1. MAX_PID \in 0 .. MAX_PROCS /\ CODE_ADDR \in 0 .. MaxWindows
    BY ProcessAssumption, MemoryAssumption DEF Init
  <2>2. /\ mapped \in [Page -> Nat \cup {Unmapped}]
        /\ userOwner \in [UserOffsets -> Windows \cup {Kernel}]
        /\ process_table \in [Slots -> Process]
    BY <1>2, Zenon DEF Init
  <2>3. ALLOCATED_FRAMES \in Nat /\ killed \in BOOLEAN /\ strayed \in BOOLEAN /\ faults \in Nat
    BY Zenon DEF Init
  <2> QED BY <1>1, <1>3, <2>1, <2>2, <2>3, Zenon DEF Init, TypeOK
<1>5. LiveChain /\ KernelSlot /\ Resumable
  BY <1>1 DEF Init, LiveChain, KernelSlot, Resumable, NewProcess, Current
<1> QED BY <1>4, <1>5, Zenon DEF IInv

\* Every system call, fault and instruction preserves the invariant.
LEMMA NextIInv == IInv /\ [Next]_vars => IInv'
<1> SUFFICES ASSUME IInv, [Next]_vars PROVE IInv' BY Zenon
<1>1. CASE Exec
  <2>1. CASE ExecNoFile BY <2>1, ExecNoFilePreserves, Zenon
  <2>2. CASE ExecTableFull BY <2>2, ExecTableFullPreserves, Zenon
  <2>3. ASSUME NEW b \in Binaries, NEW extra \in 0 .. MaxTableFrames,
               NEW k \in 0 .. Len(b.pages), ExecBadBinary(b, extra, k)
        PROVE  IInv'
    BY <2>3, ExecBadBinaryPreserves, Zenon
  <2>4. ASSUME NEW b \in Binaries, NEW extra \in 0 .. MaxTableFrames, ExecOk(b, extra)
        PROVE  IInv'
    BY <2>4, ExecOkPreserves, Zenon
  <2>5. ASSUME NEW b \in Binaries, NEW extra \in 0 .. MaxTableFrames, ExecPanic(b, extra)
        PROVE  IInv'
    BY <2>5, ExecPanicPreserves, Zenon
  <2> QED BY <1>1, <2>1, <2>2, <2>3, <2>4, <2>5, Zenon DEF Exec
<1>2. CASE SysExit BY <1>2, SysExitPreserves, Zenon
<1>3. CASE PageFault
  <2>1. ASSUME NEW p \in Page, NEW extra \in 0 .. MaxTableFrames,
               WriteFault(p, extra) \/ ReadFault(p, extra)
        PROVE  IInv'
    BY <2>1, WriteFaultPreserves, ReadFaultPreserves, Zenon
  <2> QED BY <1>3, <2>1, FaultExitPreserves, ReadFaultUnservedPreserves, Zenon DEF PageFault
<1>4. ASSUME NEW u \in UserOffsets, UserStore(u) PROVE IInv'
  BY <1>4, UserStorePreserves, Zenon
<1>5. CASE Step BY <1>5, StepPreserves, Zenon
<1>6. CASE UNCHANGED vars
  BY <1>6, Zenon DEF IInv, TypeOK, LiveChain, KernelSlot, Resumable, Live, Current,
              vars, memVars, tableVars, history
<1> QED BY <1>1, <1>2, <1>3, <1>4, <1>5, <1>6, Zenon DEF Next

\* The inductive invariant holds in every state the kernel reaches.
THEOREM Invariance == Spec => []IInv
BY InitIInv, NextIInv, PTL DEF Spec

\* PROCESS_TABLE is never indexed outside its slots, and PID, MAX_PID, Cr3 and
\* the saved contexts keep their types, whatever calls programs make.
THEOREM TypeCorrect == Spec => []TypeOK
<1>1. IInv => TypeOK BY Zenon DEF IInv
<1> QED BY <1>1, Invariance, PTL

\* EXEC and EXIT keep the process table a chain from the kernel's process to
\* the current one, with the current one's page table active.
THEOREM ChainKept == Spec => []LiveChain
<1>1. IInv => LiveChain BY Zenon DEF IInv
<1> QED BY <1>1, Invariance, PTL

\* When a child exits, the context syscall_handler unwraps is there.
THEOREM ParentResumable == Spec => []ParentHasContext
<1>1. IInv => ParentHasContext
  BY NoContextIsNone, Zenon DEF IInv, Resumable, ParentHasContext
<1> QED BY <1>1, Invariance, PTL

-----------------------------------------------------------------------------
(***************************************************************************)
(* The memory of processes: frames and windows are never shared, the CPU   *)
(* runs the current process, and what a process does leaves the pages that *)
(* its ancestors have mapped alone.                                        *)
(*                                                                         *)
(* Frames and windows are both handed out by counters that only grow, so   *)
(* the invariant says that everything in use lies below its counter.  That *)
(* a fault in a program's own window maps no page of an ancestor's needs   *)
(* more: the CPU may still run a program that was killed, but never one    *)
(* that is suspended.                                                      *)
(***************************************************************************)

FramesBelow ==
  /\ \A p \in Page : mapped[p] < ALLOCATED_FRAMES
  /\ \A s \in Slots : process_table[s].page_table_frame < ALLOCATED_FRAMES

WindowsBelow ==
  /\ cpu.window < CODE_ADDR
  /\ \A s \in Slots : /\ process_table[s].code_addr < CODE_ADDR
                      /\ process_table[s].saved.window < CODE_ADDR

\* The program that runs, and any program that will resume, is not the program
\* of a process further up.
ProgramsApart ==
  kernel = "running" =>
    /\ \A s \in Live \ {PID} : process_table[s].code_addr # cpu.window
    /\ \A t \in Live \ {PID} : \A s \in 0 .. t - 1 :
         process_table[s].code_addr # process_table[t].saved.window

\* The inductive invariant, relative to IInv.
MInv ==
  /\ FramesBelow /\ FramesDistinct
  /\ WindowsBelow /\ WindowsDisjoint
  /\ ProgramsApart /\ ContextsMatch

-----------------------------------------------------------------------------
(***************************************************************************)
(* The frames of a step.                                                   *)
(***************************************************************************)

\* A step that takes frames from `base` on, if any, and may unmap pages.
FramesFrom(base) ==
  /\ mapped' \in [Page -> Nat \cup {Unmapped}]
  /\ ALLOCATED_FRAMES' \in Nat
  /\ ALLOCATED_FRAMES <= base /\ base <= ALLOCATED_FRAMES'
  /\ \A p \in Page : mapped'[p] < ALLOCATED_FRAMES'
  /\ \A p \in Page : mapped'[p] \in {mapped[p], Unmapped} \/ mapped'[p] >= base
  /\ \A p, q \in Page : mapped'[p] # Unmapped /\ mapped'[p] = mapped'[q] => p = q

\* A walk of alloc_pages over the pages ps that maps the first k.
Walks(base, ps, extra, k) ==
  /\ TypeOK /\ FramesBelow /\ FramesDistinct
  /\ base \in Nat /\ ALLOCATED_FRAMES <= base
  /\ Len(ps) \in Nat /\ extra \in Nat /\ k \in 0 .. Len(ps)
  /\ mapped' = MappedAfter(base, ps, extra, k)
  /\ ALLOCATED_FRAMES' = FramesAfter(base, ps, extra, k)

\* alloc_pages takes a new frame for every page, also when it stops half way.
LEMMA WalkTakesNewFrames ==
  ASSUME NEW base, NEW ps, NEW extra, NEW k, Walks(base, ps, extra, k)
  PROVE  /\ FramesFrom(base)
         /\ \A p \in Page : mapped'[p] # mapped[p] => \E i \in 1 .. k : ps[i] = p
<1> TypeOK /\ FramesBelow /\ FramesDistinct BY Zenon DEF Walks
<1> base \in Nat /\ ALLOCATED_FRAMES <= base BY Zenon DEF Walks
<1> Len(ps) \in Nat /\ extra \in Nat /\ k \in 0 .. Len(ps) BY Zenon DEF Walks
<1> mapped' = MappedAfter(base, ps, extra, k) BY Zenon DEF Walks
<1> ALLOCATED_FRAMES' = FramesAfter(base, ps, extra, k) BY Zenon DEF Walks
<1> DEFINE walked(p) == \E i \in 1 .. k : ps[i] = p
           at(p) == CHOOSE i \in 1 .. k : ps[i] = p
<1>1. ALLOCATED_FRAMES' \in Nat /\ base <= ALLOCATED_FRAMES'
      /\ (k > 0 => ALLOCATED_FRAMES' >= base + k + extra)
  BY DEF FramesAfter
<1>2. ASSUME NEW p \in Page, walked(p) PROVE at(p) \in 1 .. k /\ ps[at(p)] = p
  BY <1>2, Zenon
<1>3. \A p \in Page : mapped'[p] = IF walked(p) THEN FrameOf(base, extra, at(p)) ELSE mapped[p]
  BY Zenon DEF MappedAfter
<1>4. mapped' \in [Page -> Nat \cup {Unmapped}]
  <2>1. k \in Nat OBVIOUS
  <2> QED BY <2>1, MappedType, Zenon DEF TypeOK
<1>5. \A i \in 1 .. k : /\ FrameOf(base, extra, i) \in Nat
                        /\ base <= FrameOf(base, extra, i)
                        /\ FrameOf(base, extra, i) < base + k + extra
  BY DEF FrameOf
<1>6. \A i, j \in 1 .. k : FrameOf(base, extra, i) = FrameOf(base, extra, j) => i = j
  BY DEF FrameOf
<1>7. \A p \in Page : mapped[p] \in Int /\ mapped[p] < base
  BY DEF TypeOK, FramesBelow, Unmapped
<1> HIDE DEF walked, at
<1>8. \A p \in Page : mapped'[p] < ALLOCATED_FRAMES'
  <2> SUFFICES ASSUME NEW p \in Page PROVE mapped'[p] < ALLOCATED_FRAMES' BY Zenon
  <2>1. CASE walked(p)
    <3>1. at(p) \in 1 .. k BY <1>2, <2>1, Zenon
    <3> QED BY <1>1, <1>3, <1>5, <2>1, <3>1
  <2>2. CASE ~ walked(p) BY <1>1, <1>3, <1>7, <2>2
  <2> QED BY <2>1, <2>2, Zenon
<1>9. \A p \in Page : mapped'[p] = mapped[p] \/ mapped'[p] >= base
  BY <1>2, <1>3, <1>5, Zenon
<1>10. ASSUME NEW p \in Page, NEW q \in Page, mapped'[p] # Unmapped, mapped'[p] = mapped'[q]
       PROVE  p = q
  <2>1. CASE walked(p) /\ walked(q)
    <3>1. at(p) \in 1 .. k /\ at(q) \in 1 .. k /\ ps[at(p)] = p /\ ps[at(q)] = q
      BY <1>2, <2>1, Zenon
    <3>2. at(p) = at(q) BY <1>3, <1>6, <1>10, <2>1, <3>1
    <3> QED BY <3>1, <3>2, Zenon
  <2>2. CASE walked(p) /\ ~ walked(q)
    <3>1. mapped'[p] >= base BY <1>2, <1>3, <1>5, <2>2, Zenon
    <3> QED BY <1>3, <1>7, <1>10, <2>2, <3>1
  <2>3. CASE ~ walked(p) /\ walked(q)
    <3>1. mapped'[q] >= base BY <1>2, <1>3, <1>5, <2>3, Zenon
    <3> QED BY <1>3, <1>7, <1>10, <2>3, <3>1
  <2>4. CASE ~ walked(p) /\ ~ walked(q)
    BY <1>3, <1>10, <2>4, Zenon DEF FramesDistinct, IsMapped
  <2> QED BY <2>1, <2>2, <2>3, <2>4, Zenon
<1>11. \A p \in Page : mapped'[p] # mapped[p] => walked(p) BY <1>3, Zenon
<1> QED BY <1>1, <1>4, <1>8, <1>9, <1>10, <1>11, Zenon DEF FramesFrom, walked

\* A walk changes pages that were not mapped, and unless it strays only in the
\* window of its program and at USER_ADDR.
LEMMA WalkStrays ==
  ASSUME NEW w, NEW base, NEW ps, NEW extra, NEW k, MapsPrefix(base, ps, extra, k),
         mapped' = MappedAfter(base, ps, extra, k), Strays(w, ps, k)
  PROVE  /\ strayed => strayed'
         /\ \A p \in Page : mapped'[p] # mapped[p] =>
              ~ IsMapped(p) /\ (p[1] \in {w, UserRegion} \/ strayed')
<1>1. strayed => strayed' BY Zenon DEF Strays
<1> SUFFICES ASSUME NEW p \in Page, mapped'[p] # mapped[p]
             PROVE  ~ IsMapped(p) /\ (p[1] \in {w, UserRegion} \/ strayed')
  BY <1>1, Zenon
<1>2. PICK i \in 1 .. k : ps[i] = p BY Zenon DEF MappedAfter
<1>3. ~ IsMapped(p) BY <1>2, Zenon DEF MapsPrefix, CanMap
<1>4. p[1] \in {w, UserRegion} \/ strayed' BY <1>2, Zenon DEF Strays
<1> QED BY <1>3, <1>4, Zenon

\* A step that takes no frame but perhaps loses some, and may unmap pages.
LEMMA NoNewFrames ==
  ASSUME TypeOK, FramesBelow, FramesDistinct,
         mapped' \in [Page -> Nat \cup {Unmapped}],
         \A p \in Page : mapped'[p] \in {mapped[p], Unmapped},
         ALLOCATED_FRAMES' \in Nat, ALLOCATED_FRAMES <= ALLOCATED_FRAMES'
  PROVE  FramesFrom(ALLOCATED_FRAMES)
<1>1. \A p \in Page : mapped[p] \in Int /\ mapped[p] < ALLOCATED_FRAMES
  BY DEF TypeOK, FramesBelow, Unmapped
<1>2. \A p \in Page : mapped'[p] < ALLOCATED_FRAMES'
  BY <1>1 DEF TypeOK, Unmapped
<1>3. \A p, q \in Page : mapped'[p] # Unmapped /\ mapped'[p] = mapped'[q] => p = q
  BY Zenon DEF FramesDistinct, IsMapped
<1> QED BY <1>2, <1>3 DEF FramesFrom, TypeOK

\* Frames stay distinct in a step that makes no new process.
LEMMA FramesKept ==
  ASSUME IInv, FramesBelow, FramesDistinct, NEW base \in Nat, FramesFrom(base),
         process_table' \in [Slots -> Process],
         Live' \subseteq Live, Live \subseteq Slots,
         \A s \in Slots : process_table'[s].page_table_frame = process_table[s].page_table_frame
  PROVE  FramesBelow' /\ FramesDistinct'
<1>1. \A s \in Slots : /\ process_table[s].page_table_frame \in Int
                       /\ process_table[s].page_table_frame < ALLOCATED_FRAMES
  BY DEF IInv, TypeOK, Process, FramesBelow, BootFrame
<1>2. FramesBelow'
  BY <1>1 DEF FramesBelow, FramesFrom, IInv, TypeOK
<1>3. \A p \in Page, s \in Live : mapped'[p] # Unmapped =>
        mapped'[p] # process_table[s].page_table_frame
  <2> SUFFICES ASSUME NEW p \in Page, NEW s \in Live, mapped'[p] # Unmapped
               PROVE  mapped'[p] # process_table[s].page_table_frame
    BY Zenon
  <2>1. CASE mapped'[p] = mapped[p] BY <2>1, Zenon DEF FramesDistinct, IsMapped
  <2>2. CASE mapped'[p] >= base
    BY <1>1, <2>2 DEF FramesFrom, IInv, TypeOK, Unmapped
  <2> QED BY <2>1, <2>2, Zenon DEF FramesFrom
<1>4. FramesDistinct'
  <2>1. \A p, q \in Page : IsMapped(p)' /\ mapped'[p] = mapped'[q] => p = q
    BY Zenon DEF FramesFrom, IsMapped
  <2>2. \A s \in Live', t \in Live' :
          process_table'[s].page_table_frame = process_table'[t].page_table_frame => s = t
    BY Zenon DEF FramesDistinct
  <2>3. \A s \in Live', p \in Page :
          IsMapped(p)' => mapped'[p] # process_table'[s].page_table_frame
    BY <1>3, Zenon DEF IsMapped
  <2> QED BY <2>1, <2>2, <2>3, Zenon DEF FramesDistinct, IsMapped
<1> QED BY <1>2, <1>4, Zenon

-----------------------------------------------------------------------------
(***************************************************************************)
(* The windows of a step, and the programs.                                *)
(***************************************************************************)

\* Windows stay disjoint in a step that makes no new process and, unless a
\* program has strayed, maps pages only below the counter.
LEMMA WindowsKept ==
  ASSUME IInv, WindowsBelow, WindowsDisjoint,
         CODE_ADDR' \in 0 .. MaxWindows, CODE_ADDR <= CODE_ADDR',
         cpu' \in Context, cpu'.window < CODE_ADDR',
         process_table' \in [Slots -> Process],
         Live' \subseteq Live, Live \subseteq Slots,
         strayed => strayed',
         \A p \in Page : mapped'[p] \in {mapped[p], Unmapped} \/ p[1] < CODE_ADDR' \/ strayed',
         \A s \in Slots : /\ process_table'[s].code_addr = process_table[s].code_addr
                          /\ process_table'[s].saved.window < CODE_ADDR'
  PROVE  WindowsBelow' /\ WindowsDisjoint'
<1>1. CODE_ADDR \in Int /\ CODE_ADDR' \in Int BY MemoryAssumption DEF IInv, TypeOK
<1>2. \A s \in Slots : process_table[s].code_addr \in Int
  BY DEF IInv, TypeOK, Process, Windows, Kernel
<1>3. WindowsBelow' BY <1>1, <1>2 DEF WindowsBelow
<1>4. \A p \in Page : p[1] \in Int BY DEF Page, Windows, UserRegion
<1>5. ASSUME ~ strayed' PROVE \A p \in Page : p[1] >= CODE_ADDR' => mapped'[p] = Unmapped
  <2>1. \A p \in Page : p[1] >= CODE_ADDR => mapped[p] = Unmapped
    BY <1>5, Zenon DEF WindowsDisjoint, IsMapped
  <2>2. \A p \in Page : mapped'[p] \in {mapped[p], Unmapped} \/ p[1] < CODE_ADDR'
    BY <1>5, Zenon
  <2> QED BY ONLY <1>1, <1>4, <2>1, <2>2, CODE_ADDR <= CODE_ADDR'
<1>6. \A s \in Live' : process_table'[s].code_addr < CODE_ADDR'
  BY <1>3, Zenon DEF WindowsBelow
<1>7. \A s \in Live' : \A t \in Live' :
        process_table'[s].code_addr = process_table'[t].code_addr => s = t
  BY Zenon DEF WindowsDisjoint
<1> QED BY <1>3, <1>5, <1>6, <1>7, Zenon DEF WindowsDisjoint, IsMapped

\* The types the arithmetic on windows needs.
LEMMA WindowTypes ==
  ASSUME IInv
  PROVE  /\ CODE_ADDR \in Int /\ ALLOCATED_FRAMES \in Nat /\ cpu.window \in Int
         /\ \A s \in Slots : /\ process_table[s].code_addr \in Int
                             /\ process_table[s].code_addr # UserRegion
                             /\ process_table[s].saved.window \in Int
         /\ \A p \in Page : p[1] \in Int
<1>1. \A c \in Context \cup {NoContext} : c.window \in Int
  BY DEF Context, NoContext, Windows, Kernel, UserRegion
<1>2. \A p \in Page : p[1] \in Int
  BY DEF Page, Windows, UserRegion
<1>3. \A s \in Slots : process_table[s].code_addr \in Windows \cup {Kernel}
                       /\ process_table[s].saved \in Context \cup {NoContext}
  BY Zenon DEF IInv, TypeOK, Process
<1>4. \A w \in Windows \cup {Kernel} : w \in Int /\ w # UserRegion
  BY DEF Windows, Kernel, UserRegion
<1>5. cpu.window \in Int BY <1>1, Zenon DEF IInv, TypeOK
<1>6. CODE_ADDR \in Int /\ ALLOCATED_FRAMES \in Nat BY MemoryAssumption DEF IInv, TypeOK
<1> QED BY <1>1, <1>2, <1>3, <1>4, <1>5, <1>6, Zenon

-----------------------------------------------------------------------------
(***************************************************************************)
(* One lemma per kind of step.                                             *)
(***************************************************************************)

\* A call that returns an error to its caller, whatever it did to the memory.
LEMMA FailedExecKeeps ==
  ASSUME IInv, MInv, MayExec, NEW rax \in Int, ReturnToCaller(rax),
         process_table' = WithBackup,
         NEW base \in Nat, FramesFrom(base),
         strayed => strayed',
         \A p \in Page : mapped'[p] = mapped[p] \/ p[1] < CODE_ADDR' \/ strayed',
         CODE_ADDR' \in 0 .. MaxWindows, CODE_ADDR <= CODE_ADDR',
         UNCHANGED <<PID, MAX_PID, cr3, userOwner, killed, kernel>>
  PROVE  MInv'
<1>1. cpu' \in Context /\ cpu'.window = cpu.window /\ BackedUp.window = cpu.window
      /\ BackedUp.rax = EXEC
  BY ProcessAssumption DEF IInv, TypeOK, MayExec, Context, ReturnToCaller, BackedUp
<1>2. Live' = Live /\ Live \subseteq Slots /\ PID' = PID
  BY LiveSlots, Zenon DEF Live, IInv
<1>3. /\ process_table' \in [Slots -> Process]
      /\ \A s \in Slots :
           /\ process_table'[s].page_table_frame = process_table[s].page_table_frame
           /\ process_table'[s].code_addr = process_table[s].code_addr
           /\ process_table'[s].saved = IF s = PID THEN BackedUp ELSE process_table[s].saved
  BY BackupKeeps, Zenon
<1>4. FramesBelow' /\ FramesDistinct'
  BY <1>2, <1>3, FramesKept, Zenon DEF MInv
<1>5. cpu'.window < CODE_ADDR' /\ \A s \in Slots : process_table'[s].saved.window < CODE_ADDR'
  BY <1>1, <1>3, WindowTypes, MemoryAssumption DEF MInv, WindowsBelow
<1>6. WindowsBelow' /\ WindowsDisjoint'
  BY <1>1, <1>2, <1>3, <1>5, WindowsKept, Zenon DEF MInv
<1>7. ProgramsApart'
  BY <1>1, <1>2, <1>3 DEF MInv, ProgramsApart, Live, IInv, TypeOK, Slots
<1>8. ContextsMatch'
  <2>1. PID \in Slots /\ kernel = "running" BY Zenon DEF IInv, TypeOK, MayExec
  <2> QED BY <1>1, <1>2, <1>3, <2>1, Zenon DEF MInv, ContextsMatch, Current
<1> QED BY <1>4, <1>6, <1>7, <1>8, Zenon DEF MInv

\* EXEC of a file that cannot be read, or without a free slot.
LEMMA ExecRefusedKeeps ==
  ASSUME IInv, MInv, ExecNoFile \/ ExecTableFull
  PROVE  MInv'
<1>1. /\ MayExec /\ process_table' = WithBackup
      /\ \E rax \in Int : ReturnToCaller(rax)
      /\ mapped' = mapped /\ ALLOCATED_FRAMES' = ALLOCATED_FRAMES /\ CODE_ADDR' = CODE_ADDR
      /\ UNCHANGED <<PID, MAX_PID, cr3, userOwner, killed, strayed, kernel>>
  BY DEF ExecNoFile, ExecTableFull, memVars, history, ExecError
<1>2. FramesFrom(ALLOCATED_FRAMES) /\ ALLOCATED_FRAMES \in Nat
  BY <1>1, NoNewFrames DEF IInv, MInv, TypeOK
<1>3. CODE_ADDR' \in 0 .. MaxWindows /\ CODE_ADDR <= CODE_ADDR'
  BY <1>1, MemoryAssumption DEF IInv, TypeOK
<1> QED BY <1>1, <1>2, <1>3, FailedExecKeeps, Zenon

\* EXEC of a binary that cannot be loaded: the pages mapped so far stay, in a
\* window nobody will use again.
LEMMA ExecBadBinaryKeeps ==
  ASSUME IInv, MInv, NEW b \in Binaries, NEW extra \in 0 .. MaxTableFrames,
         NEW k \in 0 .. Len(b.pages), ExecBadBinary(b, extra, k)
  PROVE  MInv'
<1> DEFINE ps == IF Loadable(b) THEN Segments(b) ELSE <<>>
<1>1. /\ Creates /\ MayExec /\ ReturnToCaller(ExecError) /\ process_table' = WithBackup
      /\ mapped' = MappedAfter(LoadBase, ps, extra, k)
      /\ ALLOCATED_FRAMES' = FramesAfter(LoadBase, ps, extra, k)
      /\ CODE_ADDR' = CODE_ADDR + 1
      /\ InRange(b) /\ MapsPrefix(LoadBase, ps, extra, k) /\ Strays(CODE_ADDR, ps, k)
      /\ UNCHANGED <<PID, MAX_PID, cr3, userOwner, killed, kernel>>
  BY Zenon DEF ExecBadBinary, Creates
<1>2. TypeOK /\ LoadBase \in Nat /\ CODE_ADDR' \in 0 .. MaxWindows
  BY <1>1, CreatesType, Zenon DEF IInv
<1>3. Len(b.pages) \in Nat /\ Len(Segments(b)) = Len(b.pages) BY <1>1, SegmentsType, Zenon
<1>4. Len(ps) \in Nat /\ k \in 0 .. Len(ps)
  <2>1. CASE Loadable(b) BY <1>3, <2>1, Zenon
  <2>2. CASE ~ Loadable(b)
    <3>1. k = 0 BY <2>2, Zenon DEF ExecBadBinary
    <3> QED BY <2>2, <3>1
  <2> QED BY <2>1, <2>2, Zenon
<1> HIDE DEF ps
<1>5. extra \in Nat /\ ALLOCATED_FRAMES \in Nat /\ ALLOCATED_FRAMES <= LoadBase
  BY <1>2, MemoryAssumption DEF TypeOK, LoadBase
<1>6. /\ FramesFrom(LoadBase)
      /\ \A p \in Page : mapped'[p] # mapped[p] => \E i \in 1 .. k : ps[i] = p
  <2>1. FramesBelow /\ FramesDistinct BY Zenon DEF MInv
  <2>2. Walks(LoadBase, ps, extra, k) BY <1>1, <1>2, <1>4, <1>5, <2>1, Zenon DEF Walks
  <2> QED BY ONLY <2>2, WalkTakesNewFrames, SMTT(30)
<1>7. /\ CODE_ADDR \in Int /\ CODE_ADDR <= CODE_ADDR' /\ CODE_ADDR < CODE_ADDR'
      /\ UserRegion < CODE_ADDR'
  BY <1>1, <1>2 DEF UserRegion, TypeOK
<1>8. /\ strayed => strayed'
      /\ \A p \in Page : mapped'[p] = mapped[p] \/ p[1] < CODE_ADDR' \/ strayed'
  <2>1. /\ strayed => strayed'
        /\ \A p \in Page : mapped'[p] # mapped[p] =>
             ~ IsMapped(p) /\ (p[1] \in {CODE_ADDR, UserRegion} \/ strayed')
    BY <1>1, WalkStrays, Zenon
  <2> QED BY <1>7, <2>1, Zenon
<1>9. ExecError \in Int BY DEF ExecError
<1> QED BY <1>1, <1>2, <1>6, <1>7, <1>8, <1>9, FailedExecKeeps, Zenon

\* EXEC of a program: the child gets a frame, a window and a slot that were
\* free, and its parent is suspended in its own program.
LEMMA ExecOkKeeps ==
  ASSUME IInv, MInv, NEW b \in Binaries, NEW extra \in 0 .. MaxTableFrames, ExecOk(b, extra)
  PROVE  MInv'
<1> DEFINE ps == LoadedPages(b)
           child == [pid |-> MAX_PID, ppid |-> Current.pid, code_addr |-> CODE_ADDR,
                     page_table_frame |-> ALLOCATED_FRAMES, saved |-> BackedUp]
<1>1. /\ Creates /\ MayExec
      /\ mapped' = MappedAfter(LoadBase, ps, extra, Len(ps))
      /\ ALLOCATED_FRAMES' = FramesAfter(LoadBase, ps, extra, Len(ps))
      /\ process_table' = [WithBackup EXCEPT ![MAX_PID] = child]
      /\ MAX_PID' = MAX_PID + 1 /\ PID' = MAX_PID /\ cr3' = ALLOCATED_FRAMES
      /\ cpu' = [window |-> CODE_ADDR, pc |-> 0, rax |-> 0]
      /\ CODE_ADDR' = CODE_ADDR + 1
      /\ InRange(b) /\ MapsPrefix(LoadBase, ps, extra, Len(ps)) /\ Strays(CODE_ADDR, ps, Len(ps))
      /\ UNCHANGED <<userOwner, killed, kernel>>
  BY Zenon DEF ExecOk, Creates
<1>2. /\ TypeOK /\ LoadBase \in Nat /\ CODE_ADDR \in Windows
      /\ CODE_ADDR' \in 0 .. MaxWindows /\ MAX_PID \in Slots
  BY <1>1, CreatesType, Zenon DEF IInv
<1>3. Len(ps) \in Nat BY <1>1, <1>2, LoadedType, Zenon
<1> HIDE DEF ps
<1>4. extra \in Nat /\ ALLOCATED_FRAMES \in Nat /\ LoadBase = ALLOCATED_FRAMES + 1
      /\ ALLOCATED_FRAMES <= LoadBase /\ Len(ps) \in 0 .. Len(ps)
  BY <1>2, <1>3, MemoryAssumption DEF TypeOK, LoadBase
<1>5. /\ FramesFrom(LoadBase)
      /\ \A p \in Page : mapped'[p] # mapped[p] => \E i \in 1 .. Len(ps) : ps[i] = p
  <2>1. FramesBelow /\ FramesDistinct BY Zenon DEF MInv
  <2>2. Walks(LoadBase, ps, extra, Len(ps)) BY <1>1, <1>2, <1>3, <1>4, <2>1, Zenon DEF Walks
  <2> QED BY ONLY <2>2, WalkTakesNewFrames, SMTT(30)
<1>6. kernel = "running" /\ PID = MAX_PID - 1 /\ PID \in Live /\ PID \in Slots /\ MAX_PID \in Nat
  BY <1>1, <1>2, ProcessAssumption DEF IInv, LiveChain, MayExec, TypeOK, Slots, Live
<1>7. /\ child.code_addr = CODE_ADDR /\ child.page_table_frame = ALLOCATED_FRAMES
      /\ child.saved = BackedUp
      /\ BackedUp.window = cpu.window /\ BackedUp.rax = EXEC
  BY Zenon DEF BackedUp
<1>8. /\ process_table'[MAX_PID] = child
      /\ \A s \in Slots \ {MAX_PID} : process_table'[s] = WithBackup[s]
      /\ DOMAIN process_table' = Slots
  BY <1>1, <1>2, BackupKeeps, Zenon
<1> HIDE DEF child
<1>9. \A s \in Slots \ {MAX_PID} :
        /\ process_table'[s].page_table_frame = process_table[s].page_table_frame
        /\ process_table'[s].code_addr = process_table[s].code_addr
        /\ process_table'[s].saved = IF s = PID THEN BackedUp ELSE process_table[s].saved
  BY <1>1, <1>8, BackupKeeps, Zenon
<1>10. Live' = Live \cup {MAX_PID} /\ MAX_PID \notin Live /\ Live \subseteq Slots
  BY <1>1, <1>2, <1>6, LiveSlots DEF Live
<1>11. \A s \in Slots : /\ process_table[s].page_table_frame \in Int
                        /\ process_table[s].page_table_frame < ALLOCATED_FRAMES
  BY DEF IInv, TypeOK, Process, MInv, FramesBelow, BootFrame
<1>12. \A p \in Page : mapped[p] \in Int /\ mapped[p] < ALLOCATED_FRAMES
  BY DEF IInv, TypeOK, MInv, FramesBelow, Unmapped
<1>13. FramesBelow'
  BY <1>4, <1>5, <1>7, <1>8, <1>9, <1>11 DEF FramesBelow, FramesFrom
<1>14. FramesDistinct'
  <2>1. \A p, q \in Page : mapped'[p] # Unmapped /\ mapped'[p] = mapped'[q] => p = q
    BY <1>5, Zenon DEF FramesFrom
  <2>2. \A s \in Live' : \A t \in Live' :
          process_table'[s].page_table_frame = process_table'[t].page_table_frame => s = t
    BY <1>7, <1>8, <1>9, <1>10, <1>11, <1>4 DEF MInv, FramesDistinct
  <2>3. ASSUME NEW s \in Live', NEW p \in Page, mapped'[p] # Unmapped
        PROVE  mapped'[p] # process_table'[s].page_table_frame
    <3>1. CASE mapped'[p] = mapped[p]
      BY <1>4, <1>7, <1>8, <1>9, <1>10, <1>12, <2>3, <3>1 DEF MInv, FramesDistinct, IsMapped
    <3>2. CASE mapped'[p] >= LoadBase
      <4>1. mapped'[p] \in Int
        <5>1. mapped'[p] \in Nat \cup {Unmapped} BY <1>5, Zenon DEF FramesFrom
        <5> QED BY ONLY <5>1 DEF Unmapped
      <4>2. CASE s = MAX_PID BY ONLY <1>4, <1>7, <1>8, <3>2, <4>1, <4>2
      <4>3. CASE s # MAX_PID
        <5>1. s \in Slots \ {MAX_PID} BY <1>10, <2>3, <4>3, Zenon
        <5> QED BY ONLY <1>4, <1>9, <1>11, <3>2, <4>1, <5>1
      <4> QED BY <4>2, <4>3, Zenon
    <3> QED BY <1>5, <2>3, <3>1, <3>2, Zenon DEF FramesFrom
  <2> QED BY <2>1, <2>2, <2>3, Zenon DEF FramesDistinct, IsMapped
<1>15. WindowsBelow'
  <2>1. /\ CODE_ADDR \in Int /\ CODE_ADDR' = CODE_ADDR + 1 /\ cpu'.window = CODE_ADDR
        /\ cpu.window \in Int /\ cpu.window < CODE_ADDR
    BY <1>1, WindowTypes, Zenon DEF MInv, WindowsBelow
  <2>2. \A s \in Slots : /\ process_table[s].code_addr \in Int
                          /\ process_table[s].code_addr < CODE_ADDR
                          /\ process_table[s].saved.window \in Int
                          /\ process_table[s].saved.window < CODE_ADDR
    BY WindowTypes, Zenon DEF MInv, WindowsBelow
  <2>3. cpu'.window < CODE_ADDR' BY ONLY <2>1
  <2>4. ASSUME NEW s \in Slots
        PROVE  process_table'[s].code_addr < CODE_ADDR' /\ process_table'[s].saved.window < CODE_ADDR'
    <3>1. CASE s = MAX_PID BY ONLY <1>7, <1>8, <2>1, <3>1
    <3>2. CASE s # MAX_PID BY ONLY s \in Slots, <1>7, <1>9, <2>1, <2>2, <3>2
    <3> QED BY <3>1, <3>2, Zenon
  <2> QED BY <2>3, <2>4, Zenon DEF WindowsBelow
<1>16. WindowsDisjoint'
  <2>1. ASSUME ~ strayed' PROVE \A p \in Page : p[1] >= CODE_ADDR' => mapped'[p] = Unmapped
    <3>1. /\ strayed => strayed'
          /\ \A p \in Page : mapped'[p] # mapped[p] =>
               ~ IsMapped(p) /\ (p[1] \in {CODE_ADDR, UserRegion} \/ strayed')
      BY <1>1, WalkStrays, Zenon
    <3>2. /\ CODE_ADDR \in 0 .. MaxWindows /\ CODE_ADDR' = CODE_ADDR + 1
          /\ \A p \in Page : p[1] \in Int /\ (p[1] >= CODE_ADDR => mapped[p] = Unmapped)
      BY <1>1, <1>2, <2>1, <3>1, WindowTypes, Zenon DEF MInv, WindowsDisjoint, IsMapped, TypeOK
    <3>3. \A p \in Page : mapped'[p] # mapped[p] => p[1] \in {CODE_ADDR, UserRegion}
      BY <2>1, <3>1, Zenon
    <3> QED BY ONLY <3>2, <3>3, MemoryAssumption DEF UserRegion
  <2>2. \A s \in Live' : process_table'[s].code_addr < CODE_ADDR'
    BY <1>10, <1>2, <1>15, Zenon DEF WindowsBelow
  <2>3. \A s \in Live' : \A t \in Live' :
          process_table'[s].code_addr = process_table'[t].code_addr => s = t
    BY <1>7, <1>8, <1>9, <1>10, WindowTypes DEF MInv, WindowsDisjoint
  <2> QED BY <2>1, <2>2, <2>3, Zenon DEF WindowsDisjoint, IsMapped
<1>17. \A s \in Live : /\ process_table'[s].code_addr = process_table[s].code_addr
                       /\ process_table'[s].saved = IF s = PID THEN BackedUp
                                                    ELSE process_table[s].saved
  BY <1>9, <1>10, Zenon
<1>18. Live' \ {PID'} = Live BY <1>1, <1>10, Zenon
<1>19. ProgramsApart'
  <2>1. \A s \in Live : process_table'[s].code_addr # cpu'.window
    BY <1>1, <1>10, <1>17, WindowTypes DEF MInv, WindowsDisjoint
  <2>2. \A t \in Live : \A s \in 0 .. t - 1 : s \in Live /\ s # t /\ (t = PID => s # PID)
    BY DEF Live, IInv, TypeOK
  <2>3. \A t \in Live : \A s \in 0 .. t - 1 :
          process_table'[s].code_addr # process_table'[t].saved.window
    <3>1. /\ \A s \in 0 .. PID - 1 : process_table[s].code_addr # cpu.window
          /\ \A t \in Live \ {PID} : \A s \in 0 .. t - 1 :
               process_table[s].code_addr # process_table[t].saved.window
      BY <1>6, <2>2, Zenon DEF MInv, ProgramsApart
    <3> QED BY ONLY <1>7, <1>17, <2>2, <3>1, Zenon
  <2> QED BY <1>18, <2>1, <2>3, Zenon DEF ProgramsApart
<1>20. ContextsMatch'
  <2>1. cpu'.window = (Current.code_addr)' BY <1>1, <1>7, <1>8, Zenon DEF Current
  <2>2. ASSUME ~ killed', NEW s \in Live
        PROVE  /\ process_table'[s].saved.window = process_table'[s].code_addr
               /\ process_table'[s].saved.rax = EXEC
    <3>1. ~ killed /\ kernel = "running" BY <1>1, <2>2, Zenon DEF MayExec
    <3>2. /\ cpu.window = Current.code_addr
          /\ \A t \in Live \ {PID} : /\ process_table[t].saved.window = process_table[t].code_addr
                                     /\ process_table[t].saved.rax = EXEC
      BY <3>1, Zenon DEF MInv, ContextsMatch
    <3> QED BY <1>7, <1>17, <3>2, Zenon DEF Current
  <2> QED BY <1>18, <2>1, <2>2, Zenon DEF ContextsMatch
<1> QED BY <1>13, <1>14, <1>15, <1>16, <1>19, <1>20, Zenon DEF MInv

\* process::exit: the live processes become fewer, and the parent's context is
\* the one restored, unless the process was killed.
LEMMA ExitKeeps ==
  ASSUME IInv, MInv, UserRuns, ExitProcess,
         ALLOCATED_FRAMES' \in Nat, ALLOCATED_FRAMES <= ALLOCATED_FRAMES',
         strayed' = strayed,
         \/ cpu' = process_table[Current.ppid].saved /\ killed' = killed
         \/ cpu' = cpu /\ killed' = TRUE,
         IInv'
  PROVE  MInv'
<1>1. /\ kernel = "running" /\ PID = MAX_PID - 1 /\ PID \in Slots /\ PID \in Live
      /\ MAX_PID \in 1 .. MAX_PROCS /\ Live \subseteq Slots
  BY ProcessAssumption, LiveSlots DEF IInv, UserRuns, LiveChain, TypeOK, Slots, Live
<1>2. /\ MAX_PID' = MAX_PID - 1 /\ PID' = Current.ppid /\ CODE_ADDR' = CODE_ADDR
      /\ process_table' = process_table /\ mapped' = FreePages(FreedByExit)
      /\ kernel' = IF Current.code_addr = Kernel THEN "unmapped" ELSE kernel
  BY Zenon DEF ExitProcess
<1>3. Live' \subseteq Live /\ PID \notin Live'
  BY <1>1, <1>2 DEF Live
<1>4. Current.ppid \in Slots BY <1>1, Zenon DEF IInv, TypeOK, Current, Process
<1>5. /\ mapped' \in [Page -> Nat \cup {Unmapped}] /\ cpu' \in Context
      /\ process_table' \in [Slots -> Process] /\ CODE_ADDR' \in 0 .. MaxWindows
  BY Zenon DEF IInv, TypeOK
<1>6. \A p \in Page : mapped'[p] \in {mapped[p], Unmapped} BY <1>2, Zenon DEF FreePages
<1>7. FramesBelow' /\ FramesDistinct'
  <2>1. FramesFrom(ALLOCATED_FRAMES) /\ ALLOCATED_FRAMES \in Nat
    BY <1>5, <1>6, NoNewFrames, Zenon DEF IInv, MInv, TypeOK
  <2> QED BY <1>1, <1>2, <1>3, <1>5, <2>1, FramesKept, Zenon DEF MInv
<1>8. WindowsBelow' /\ WindowsDisjoint'
  <2>1. cpu'.window < CODE_ADDR' BY <1>2, <1>4, Zenon DEF MInv, WindowsBelow
  <2>2. \A s \in Slots : /\ process_table'[s].code_addr = process_table[s].code_addr
                         /\ process_table'[s].saved.window < CODE_ADDR'
    BY <1>2, Zenon DEF MInv, WindowsBelow
  <2>3. CODE_ADDR <= CODE_ADDR' BY <1>2, WindowTypes
  <2> QED BY <1>1, <1>3, <1>5, <1>6, <2>1, <2>2, <2>3, WindowsKept, Zenon DEF MInv
<1>9. CASE PID = 0
  <2>1. kernel' = "unmapped" BY <1>1, <1>2, <1>9, Zenon DEF IInv, KernelSlot, Current
  <2> QED BY <1>7, <1>8, <2>1, Zenon DEF MInv, ProgramsApart, ContextsMatch
<1>10. CASE PID # 0
  <2>1. Current.ppid = PID - 1 /\ PID' = PID - 1
    BY <1>1, <1>2, <1>10, Zenon DEF IInv, LiveChain, Current
  <2>2. PID' \in Live \ {PID} /\ Live' \ {PID'} \subseteq 0 .. PID' - 1
    BY <1>1, <1>2, <1>10, <2>1 DEF Live, Slots
  <2>3. Live' \ {PID'} \subseteq Live \ {PID} BY <1>3, Zenon
  <2>4. ProgramsApart'
    <3>1. \A s \in Live' \ {PID'} : process_table[s].code_addr # cpu'.window
      BY <1>1, <1>2, <2>1, <2>2, <2>3, Zenon DEF MInv, ProgramsApart
    <3>2. \A t \in Live' \ {PID'} : \A s \in 0 .. t - 1 :
            process_table[s].code_addr # process_table[t].saved.window
      BY <1>1, <2>3, Zenon DEF MInv, ProgramsApart
    <3> QED BY <1>2, <3>1, <3>2, Zenon DEF ProgramsApart
  <2>5. ContextsMatch'
    <3>1. SUFFICES ASSUME ~ killed'
                   PROVE  /\ cpu'.window = (Current.code_addr)'
                          /\ \A s \in Live' \ {PID'} :
                               /\ process_table'[s].saved.window = process_table'[s].code_addr
                               /\ process_table'[s].saved.rax = EXEC
      BY Zenon DEF ContextsMatch
    <3>2. cpu' = process_table[PID'].saved /\ ~ killed BY <1>2, <3>1
    <3>3. \A s \in Live \ {PID} : /\ process_table[s].saved.window = process_table[s].code_addr
                                  /\ process_table[s].saved.rax = EXEC
      BY <1>1, <3>2, Zenon DEF MInv, ContextsMatch
    <3>4. cpu'.window = (Current.code_addr)' BY <1>2, <2>2, <3>2, <3>3, Zenon DEF Current
    <3> QED BY <1>2, <2>3, <3>3, <3>4, Zenon
  <2> QED BY <1>7, <1>8, <2>4, <2>5, Zenon DEF MInv
<1> QED BY <1>9, <1>10, Zenon

\* A step that leaves the table and the program that runs alone and, unless a
\* program has strayed, maps pages only below the counter of windows.
LEMMA SameTableKeeps ==
  ASSUME IInv, MInv, UNCHANGED <<tableVars, killed>>, cpu' \in Context,
         cpu'.window = cpu.window,
         kernel' \in {kernel, "panicked"},
         NEW base \in Nat, FramesFrom(base),
         strayed => strayed',
         \A p \in Page : mapped'[p] = mapped[p] \/ p[1] < CODE_ADDR \/ strayed'
  PROVE  MInv'
<1>1. /\ PID' = PID /\ Live' = Live /\ CODE_ADDR' = CODE_ADDR /\ killed' = killed
      /\ process_table' = process_table /\ Live \subseteq Slots
  BY LiveSlots, Zenon DEF tableVars, Live, IInv
<1>2. process_table' \in [Slots -> Process] /\ CODE_ADDR' \in 0 .. MaxWindows
      /\ CODE_ADDR <= CODE_ADDR'
  BY <1>1, MemoryAssumption DEF IInv, TypeOK
<1>3. FramesBelow' /\ FramesDistinct' BY <1>1, <1>2, FramesKept, Zenon DEF MInv
<1>4. /\ cpu'.window < CODE_ADDR'
      /\ \A s \in Slots : /\ process_table'[s].code_addr = process_table[s].code_addr
                          /\ process_table'[s].saved.window < CODE_ADDR'
  BY <1>1, Zenon DEF MInv, WindowsBelow
<1>5. WindowsBelow' /\ WindowsDisjoint'
  BY <1>1, <1>2, <1>4, WindowsKept, Zenon DEF MInv
<1>6. ProgramsApart' BY <1>1, Zenon DEF MInv, ProgramsApart
<1>7. ContextsMatch' BY <1>1 DEF MInv, ContextsMatch, Current
<1> QED BY <1>3, <1>5, <1>6, <1>7, Zenon DEF MInv

\* page_fault_handler maps the page of the fault, which was not mapped.
LEMMA FaultMaps ==
  ASSUME IInv, MInv, NEW p \in Page, NEW extra \in 0 .. MaxTableFrames,
         WriteFault(p, extra) \/ ReadFault(p, extra)
  PROVE  /\ FramesFrom(ALLOCATED_FRAMES)
         /\ strayed => strayed'
         /\ \A q \in Page : mapped'[q] # mapped[q] =>
              ~ IsMapped(q) /\ (q[1] \in {cpu.window, UserRegion} \/ strayed')
         /\ cpu.window < CODE_ADDR /\ UserRegion < CODE_ADDR
<1> DEFINE ps == <<p>>
           k == 1
           base == ALLOCATED_FRAMES
<1>1. /\ mapped' = MappedAfter(base, ps, extra, k)
      /\ ALLOCATED_FRAMES' = FramesAfter(base, ps, extra, k)
  BY Zenon DEF WriteFault, ReadFault
<1>2. /\ extra \in Nat /\ base \in Nat /\ ALLOCATED_FRAMES <= base
      /\ Len(ps) \in Nat /\ k \in 0 .. Len(ps)
  BY MemoryAssumption DEF IInv, TypeOK
<1> HIDE DEF ps, k, base
<1>3. FramesFrom(base)
  <2>1. TypeOK /\ FramesBelow /\ FramesDistinct BY Zenon DEF IInv, MInv
  <2>2. Len(ps) \in Nat /\ k \in 0 .. Len(ps) BY <1>2, Zenon
  <2>3. extra \in Nat /\ base \in Nat /\ ALLOCATED_FRAMES <= base BY <1>2, Zenon
  <2>4. Walks(base, ps, extra, k) BY <1>1, <2>1, <2>2, <2>3, Zenon DEF Walks
  <2> QED BY ONLY <2>4, WalkTakesNewFrames, SMTT(30)
<1>4. UserRegion < CODE_ADDR /\ cpu.window < CODE_ADDR
  BY MemoryAssumption DEF IInv, TypeOK, UserRegion, MInv, WindowsBelow
<1>5. MapsPrefix(base, ps, extra, k) /\ Strays(cpu.window, ps, k)
  BY Zenon DEF WriteFault, ReadFault, base, ps, k
<1>6. /\ strayed => strayed'
      /\ \A q \in Page : mapped'[q] # mapped[q] =>
           ~ IsMapped(q) /\ (q[1] \in {cpu.window, UserRegion} \/ strayed')
  BY <1>1, <1>5, WalkStrays, Zenon
<1> QED BY <1>3, <1>4, <1>6, Zenon DEF base

\* A page fault that is served, or that leaves its program running.
LEMMA FaultKeeps ==
  ASSUME IInv, MInv, PageFault, \A extra \in 0 .. MaxTableFrames : ~ FaultExit(extra)
  PROVE  MInv'
<1>1. ALLOCATED_FRAMES \in Nat /\ cpu \in Context BY Zenon DEF IInv, TypeOK
<1>2. ASSUME NEW p \in Page, NEW extra \in 0 .. MaxTableFrames,
             WriteFault(p, extra) \/ ReadFault(p, extra)
      PROVE  MInv'
  <2>1. UNCHANGED <<tableVars, cpu, killed>> /\ kernel' \in {kernel, "panicked"}
    BY <1>2, Zenon DEF WriteFault, ReadFault
  <2>2. /\ FramesFrom(ALLOCATED_FRAMES) /\ (strayed => strayed')
        /\ \A q \in Page : mapped'[q] = mapped[q] \/ q[1] < CODE_ADDR \/ strayed'
    BY <1>2, FaultMaps, Zenon
  <2> QED BY <1>1, <2>1, <2>2, SameTableKeeps, Zenon
<1>3. ASSUME NEW extra \in 0 .. MaxTableFrames, ReadFaultUnserved(extra) PROVE MInv'
  <2>1. /\ mapped' = mapped /\ ALLOCATED_FRAMES' = ALLOCATED_FRAMES + 1 + extra
        /\ UNCHANGED <<tableVars, cpu, killed, strayed, kernel>>
    BY <1>3, Zenon DEF ReadFaultUnserved, TakesInVain
  <2>2. FramesFrom(ALLOCATED_FRAMES)
    <3>1. ALLOCATED_FRAMES' \in Nat /\ ALLOCATED_FRAMES <= ALLOCATED_FRAMES'
      BY <1>1, <2>1, MemoryAssumption
    <3> QED BY <2>1, <3>1, NoNewFrames, Zenon DEF IInv, MInv, TypeOK
  <2> QED BY <1>1, <2>1, <2>2, SameTableKeeps, Zenon
<1> QED BY <1>2, <1>3, Zenon DEF PageFault

\* A step that leaves the memory and the table alone.
LEMMA SameMemoryKeeps ==
  ASSUME IInv, MInv, UNCHANGED <<mapped, ALLOCATED_FRAMES, tableVars, killed, strayed>>,
         cpu' \in Context, cpu'.window = cpu.window, kernel' \in {kernel, "panicked"}
  PROVE  MInv'
<1>1. ALLOCATED_FRAMES \in Nat BY Zenon DEF IInv, TypeOK
<1>2. FramesFrom(ALLOCATED_FRAMES) BY <1>1, NoNewFrames DEF IInv, MInv, TypeOK
<1> QED BY <1>1, <1>2, SameTableKeeps, Zenon

-----------------------------------------------------------------------------
(***************************************************************************)
(* The invariant.                                                          *)
(***************************************************************************)

LEMMA InitMInv == Init => MInv
<1> SUFFICES ASSUME Init PROVE MInv BY Zenon
<1>1. Live = {0} /\ 0 \in Slots BY ProcessAssumption DEF Init, Live, Slots
<1>2. FramesBelow /\ FramesDistinct
  BY <1>1 DEF Init, FramesBelow, FramesDistinct, IsMapped, Unmapped, NewProcess, BootFrame
<1>3. WindowsBelow /\ WindowsDisjoint
  BY <1>1 DEF Init, WindowsBelow, WindowsDisjoint, IsMapped, NewProcess, Kernel, NoContext, UserRegion
<1>4. ProgramsApart BY <1>1, Zenon DEF Init, ProgramsApart
<1>5. ContextsMatch BY <1>1, Zenon DEF Init, ContextsMatch, Current, NewProcess
<1> QED BY <1>2, <1>3, <1>4, <1>5, Zenon DEF MInv

LEMMA NextMInv == IInv /\ MInv /\ [Next]_vars => MInv'
<1> SUFFICES ASSUME IInv, MInv, [Next]_vars PROVE MInv' BY Zenon
<1>1. IInv' BY NextIInv, Zenon
<1>2. /\ ALLOCATED_FRAMES \in Nat /\ ALLOCATED_FRAMES <= ALLOCATED_FRAMES
      /\ cpu \in Context /\ cpu' \in Context
  BY <1>1 DEF IInv, TypeOK
<1>3. CASE Exec
  <2>1. CASE ExecNoFile \/ ExecTableFull BY <2>1, ExecRefusedKeeps, Zenon
  <2>2. ASSUME NEW b \in Binaries, NEW extra \in 0 .. MaxTableFrames,
               NEW k \in 0 .. Len(b.pages), ExecBadBinary(b, extra, k)
        PROVE  MInv'
    BY <2>2, ExecBadBinaryKeeps, Zenon
  <2>3. ASSUME NEW b \in Binaries, NEW extra \in 0 .. MaxTableFrames, ExecOk(b, extra)
        PROVE  MInv'
    BY <2>3, ExecOkKeeps, Zenon
  <2>4. ASSUME NEW b \in Binaries, NEW extra \in 0 .. MaxTableFrames, ExecPanic(b, extra)
        PROVE  MInv'
    BY <1>2, <2>4, SameMemoryKeeps, Zenon DEF ExecPanic, memVars, history
  <2> QED BY <1>3, <2>1, <2>2, <2>3, <2>4, Zenon DEF Exec
<1>4. CASE SysExit BY <1>1, <1>2, <1>4, ExitKeeps, Zenon DEF SysExit, history
<1>5. ASSUME NEW extra \in 0 .. MaxTableFrames, FaultExit(extra) PROVE MInv'
  <2>1. ALLOCATED_FRAMES' \in Nat /\ ALLOCATED_FRAMES <= ALLOCATED_FRAMES'
    <3>1. ALLOCATED_FRAMES' = ALLOCATED_FRAMES + 1 + extra
      BY <1>5, Zenon DEF FaultExit, TakesInVain
    <3> QED BY <1>2, <3>1, MemoryAssumption
  <2> QED BY <1>1, <1>5, <2>1, ExitKeeps, Zenon DEF FaultExit, TakesFault
<1>6. CASE PageFault /\ \A extra \in 0 .. MaxTableFrames : ~ FaultExit(extra) BY <1>6, FaultKeeps, Zenon
<1>7. ASSUME NEW u \in UserOffsets, UserStore(u) PROVE MInv'
  BY <1>2, <1>7, SameMemoryKeeps, Zenon DEF UserStore, history
<1>8. CASE Step
  <2>1. cpu'.window = cpu.window BY <1>2, <1>8, Zenon DEF Step, Context
  <2> QED BY <1>2, <1>8, <2>1, SameMemoryKeeps, Zenon DEF Step, memVars, history
<1>9. CASE UNCHANGED vars
  BY <1>2, <1>9, SameMemoryKeeps, Zenon DEF vars, memVars, history
<1> QED BY <1>3, <1>4, <1>5, <1>6, <1>7, <1>8, <1>9, Zenon DEF Next

\* The memory invariant holds in every state, for any number of frames, windows,
\* processes and binaries.
THEOREM MemoryInvariance == Spec => [](IInv /\ MInv)
BY InitIInv, InitMInv, NextIInv, NextMInv, PTL DEF Spec

\* The frame allocator never hands out a frame twice: not to two pages, not to
\* two live level-4 tables, and not to a page and a table.
THEOREM FramesNeverShared == Spec => []FramesDistinct
<1>1. IInv /\ MInv => FramesDistinct BY Zenon DEF MInv
<1> QED BY <1>1, MemoryInvariance, PTL

\* No two live processes have the same window, CODE_ADDR never hands one of
\* theirs out again, and as long as no program got a page outside its own window
\* Process::create loads into a window in which nothing is mapped.
THEOREM WindowsNeverShared == Spec => []WindowsDisjoint
<1>1. IInv /\ MInv => WindowsDisjoint BY Zenon DEF MInv
<1> QED BY <1>1, MemoryInvariance, PTL

\* Until a program is killed by a page fault, the CPU runs the current process
\* and EXIT resumes the parent just after its EXEC.
THEOREM CurrentProgramRuns == Spec => []ContextsMatch
<1>1. IInv /\ MInv => ContextsMatch BY Zenon DEF MInv
<1> QED BY <1>1, MemoryInvariance, PTL

-----------------------------------------------------------------------------
(***************************************************************************)
(* What no step does.                                                      *)
(***************************************************************************)

\* Loading a binary, whether or not it succeeds, maps pages that were not mapped,
\* and unless it strays in the new window.
LEMMA LoadMaps ==
  ASSUME NEW b \in Binaries, NEW extra, NEW k,
         ExecBadBinary(b, extra, k) \/ ExecOk(b, extra)
  PROVE  \A p \in Page : mapped'[p] # mapped[p] =>
           ~ IsMapped(p) /\ (p[1] \in {CODE_ADDR, UserRegion} \/ strayed')
<1>1. PICK ps, n : /\ MapsPrefix(LoadBase, ps, extra, n) /\ Strays(CODE_ADDR, ps, n)
                   /\ mapped' = MappedAfter(LoadBase, ps, extra, n)
  BY Zenon DEF ExecBadBinary, ExecOk
<1> QED BY <1>1, WalkStrays, Zenon

\* backup_stack_frame changes the saved context only.
LEMMA BackupKeepsEntry ==
  ASSUME IInv, NEW s \in Slots
  PROVE  [WithBackup[s] EXCEPT !.saved = NoContext]
           = [process_table[s] EXCEPT !.saved = NoContext]
<1>1. process_table \in [Slots -> Process] /\ PID \in Slots BY Zenon DEF IInv, TypeOK
<1>2. CASE s # PID BY <1>1, <1>2, Zenon DEF WithBackup
<1>3. CASE s = PID
  <2>1. WithBackup[s] = [process_table[s] EXCEPT !.saved = BackedUp]
    BY <1>1, <1>3, Zenon DEF WithBackup
  <2>2. process_table[s] \in Process BY <1>1, Zenon
  <2> QED BY <2>1, <2>2, Zenon DEF Process
<1> QED BY <1>2, <1>3, Zenon

LEMMA StepKeepsEntries ==
  ASSUME IInv, Next
  PROVE  \A s \in Live : s < MAX_PID' =>
           [process_table'[s] EXCEPT !.saved = NoContext]
             = [process_table[s] EXCEPT !.saved = NoContext]
<1> SUFFICES ASSUME NEW s \in Live
             PROVE  [process_table'[s] EXCEPT !.saved = NoContext]
                      = [process_table[s] EXCEPT !.saved = NoContext]
  BY Zenon
<1>1. s \in Slots BY LiveSlots, Zenon DEF IInv
<1>2. CASE process_table' = process_table BY <1>2, Zenon
<1>3. CASE process_table' = WithBackup BY <1>1, <1>3, BackupKeepsEntry, Zenon
<1>4. ASSUME NEW b \in Binaries, NEW extra \in 0 .. MaxTableFrames, ExecOk(b, extra)
      PROVE  [process_table'[s] EXCEPT !.saved = NoContext]
               = [process_table[s] EXCEPT !.saved = NoContext]
  <2>1. s # MAX_PID BY DEF Live, IInv, TypeOK
  <2>2. process_table'[s] = WithBackup[s]
    <3>1. PICK child : process_table' = [WithBackup EXCEPT ![MAX_PID] = child]
      BY ONLY <1>4, Zenon DEF ExecOk
    <3>2. MayExec BY <1>4, Zenon DEF ExecOk, Creates
    <3>3. WithBackup \in [Slots -> Process] BY <3>2, BackupKeeps, Zenon
    <3> QED BY ONLY s \in Slots, <1>1, <2>1, <3>1, <3>3, Zenon
  <2> QED BY <1>1, <2>2, BackupKeepsEntry, Zenon
<1> QED
  BY <1>2, <1>3, <1>4, Zenon
     DEF Next, Exec, ExecNoFile, ExecTableFull, ExecBadBinary, ExecPanic, SysExit, ExitProcess,
         PageFault, WriteFault, ReadFault, ReadFaultUnserved, FaultExit, UserStore, Step, tableVars

\* EXEC, EXIT and the page fault handler never change the identity, the window or
\* the page table of a process that stays live.
THEOREM EntriesKept == Spec => LiveEntriesKept
<1>1. IInv /\ [Next]_vars =>
        [\A s \in Live : s < MAX_PID' =>
           [process_table'[s] EXCEPT !.saved = NoContext]
             = [process_table[s] EXCEPT !.saved = NoContext]]_vars
  BY StepKeepsEntries, Zenon
<1> QED BY <1>1, Invariance, PTL DEF Spec, LiveEntriesKept

LEMMA StepKeepsAncestors ==
  ASSUME IInv, MInv, Next, NEW s \in Live \ {PID}, NEW p \in Page,
         p[1] = process_table[s].code_addr, IsMapped(p) \/ ~ strayed'
  PROVE  mapped'[p] = mapped[p]
<1>1. s \in Slots /\ Live \subseteq Slots /\ PID \in Slots
  BY LiveSlots, Zenon DEF IInv, TypeOK
<1>2. p[1] \in Int /\ p[1] < CODE_ADDR /\ p[1] # UserRegion /\ CODE_ADDR \in Int
  BY <1>1, WindowTypes, Zenon DEF MInv, WindowsBelow
<1>3. CASE mapped' = mapped BY <1>3, Zenon
<1>4. ASSUME NEW b \in Binaries, NEW extra \in 0 .. MaxTableFrames,
             NEW k, ExecBadBinary(b, extra, k) \/ ExecOk(b, extra)
      PROVE  mapped'[p] = mapped[p]
  <2>1. p[1] # CODE_ADDR BY <1>2
  <2> QED BY <1>2, <1>4, <2>1, LoadMaps, Zenon
<1>5. ASSUME NEW q \in Page, NEW extra \in 0 .. MaxTableFrames,
             WriteFault(q, extra) \/ ReadFault(q, extra)
      PROVE  mapped'[p] = mapped[p]
  <2>1. kernel = "running" BY <1>5, Zenon DEF WriteFault, ReadFault, TakesFault, UserRuns
  <2>2. p[1] # cpu.window BY <2>1, Zenon DEF MInv, ProgramsApart
  <2> QED BY <1>2, <1>5, <2>2, FaultMaps, Zenon
<1>6. CASE UserRuns /\ ExitProcess
  <2>1. PID \in Live
    BY <1>1, <1>6 DEF UserRuns, IInv, LiveChain, Live, Slots, TypeOK
  <2>2. Current.code_addr # p[1] BY <2>1, Zenon DEF MInv, WindowsDisjoint, Current
  <2>3. p \notin FreedByExit BY <1>2, <2>2, Zenon DEF FreedByExit
  <2> QED BY <1>6, <2>3, Zenon DEF ExitProcess, FreePages
<1>7. ASSUME NEW b \in Binaries, NEW extra \in 0 .. MaxTableFrames, ExecOk(b, extra)
      PROVE  mapped'[p] = mapped[p]
  BY <1>4, <1>7, Zenon
<1>8. CASE Exec
  <2>1. ASSUME NEW b \in Binaries, NEW extra \in 0 .. MaxTableFrames, ExecPanic(b, extra)
        PROVE  mapped' = mapped
    BY <2>1, Zenon DEF ExecPanic, memVars
  <2>2. ExecNoFile \/ ExecTableFull => mapped' = mapped
    BY Zenon DEF ExecNoFile, ExecTableFull, memVars
  <2> QED BY <1>3, <1>4, <1>7, <1>8, <2>1, <2>2, Zenon DEF Exec
<1>9. CASE SysExit BY <1>6, <1>9, Zenon DEF SysExit
<1>10. CASE PageFault
  BY <1>3, <1>5, <1>6, <1>10, Zenon DEF PageFault, FaultExit, TakesFault, ReadFaultUnserved
<1>11. CASE Step \/ \E u \in UserOffsets : UserStore(u)
  BY <1>3, <1>11, Zenon DEF Step, UserStore, memVars
<1> QED BY <1>8, <1>9, <1>10, <1>11, Zenon DEF Next

\* Whatever the current process does, be it exiting, being killed, loading
\* children or faulting on any page, the pages its ancestors have mapped in their
\* windows keep their frames, and the others stay unmapped until a program strays.
THEOREM AncestorsUntouched == Spec => AncestorPagesKept
<1>1. IInv /\ MInv /\ [Next]_vars =>
        [\A s \in Live \ {PID} : \A p \in Page :
           p[1] = process_table[s].code_addr /\ (IsMapped(p) \/ ~ strayed')
             => mapped'[p] = mapped[p]]_vars
  BY StepKeepsAncestors, Zenon
<1> QED BY <1>1, MemoryInvariance, PTL DEF Spec, AncestorPagesKept

-----------------------------------------------------------------------------
(***************************************************************************)
(* The process table implements the call stack: every step of the kernel   *)
(* is a step of ProcessStack, or leaves the stack of calls as it is.       *)
(***************************************************************************)

-----------------------------------------------------------------------------
(***************************************************************************)
(* Stacks as sequences.                                                    *)
(***************************************************************************)

\* A sequence of length n whose elements are known.
LEMMA Elementwise ==
  ASSUME NEW S, NEW n \in Nat, NEW f, f = [i \in 1 .. n |-> f[i]], \A i \in 1 .. n : f[i] \in S
  PROVE  f \in Seq(S) /\ Len(f) = n
OBVIOUS

LEMMA SameElements ==
  ASSUME NEW S, NEW s \in Seq(S), NEW t \in Seq(S),
         Len(s) = Len(t), \A i \in 1 .. Len(s) : s[i] = t[i]
  PROVE  s = t
OBVIOUS

LEMMA ElementType ==
  ASSUME NEW S, NEW s \in Seq(S), NEW i \in 1 .. Len(s)
  PROVE  s[i] \in S
OBVIOUS

\* The n elements under the top of a stack.
LEMMA Underneath ==
  ASSUME NEW S, NEW s, NEW n \in Nat, \A i \in 1 .. n : s[i] \in S
  PROVE  /\ SubSeq(s, 1, n) \in Seq(S) /\ Len(SubSeq(s, 1, n)) = n
         /\ \A i \in 1 .. n : SubSeq(s, 1, n)[i] = s[i]
OBVIOUS

\* A stack that differs from another one in its top element.
LEMMA TopReplaced ==
  ASSUME NEW S, NEW n \in Nat, NEW old \in Seq(S), NEW new \in Seq(S), NEW top \in S,
         Len(old) = n + 1, Len(new) = n + 1,
         \A i \in 1 .. n : new[i] = old[i], new[n + 1] = top
  PROVE  new = Append(SubSeq(old, 1, n), top)
<1> DEFINE under == SubSeq(old, 1, n)
<1>1. \A i \in 1 .. n : old[i] \in S BY ElementType
<1>2. under \in Seq(S) /\ Len(under) = n /\ \A i \in 1 .. n : under[i] = old[i]
  BY <1>1, Underneath
<1> HIDE DEF under
<1>3. /\ Append(under, top) \in Seq(S) /\ Len(Append(under, top)) = n + 1
      /\ \A i \in 1 .. n : Append(under, top)[i] = old[i]
      /\ Append(under, top)[n + 1] = top
  BY <1>2
<1>4. \A i \in 1 .. n + 1 : new[i] = Append(under, top)[i]
  <2> SUFFICES ASSUME NEW i \in 1 .. n + 1 PROVE new[i] = Append(under, top)[i] BY Zenon
  <2> QED BY <1>3
<1>5. new = Append(under, top) BY <1>3, <1>4, SameElements, Zenon
<1> QED BY <1>5, Zenon DEF under

\* A stack with one more element on another one.
LEMMA Pushed ==
  ASSUME NEW S, NEW n \in Nat, NEW old \in Seq(S), NEW new \in Seq(S), NEW top \in S,
         Len(old) = n, Len(new) = n + 1,
         \A i \in 1 .. n : new[i] = old[i], new[n + 1] = top
  PROVE  new = Append(old, top)
<1>1. /\ Append(old, top) \in Seq(S) /\ Len(Append(old, top)) = n + 1
      /\ \A i \in 1 .. n : Append(old, top)[i] = old[i]
      /\ Append(old, top)[n + 1] = top
  OBVIOUS
<1>2. \A i \in 1 .. n + 1 : new[i] = Append(old, top)[i]
  <2> SUFFICES ASSUME NEW i \in 1 .. n + 1 PROVE new[i] = Append(old, top)[i] BY Zenon
  <2> QED BY <1>1
<1> QED BY <1>1, <1>2, SameElements, Zenon

\* A stack without its top element.
LEMMA Popped ==
  ASSUME NEW S, NEW n \in Nat, NEW old \in Seq(S), NEW new \in Seq(S),
         Len(old) = n + 1, Len(new) = n,
         \A i \in 1 .. n : new[i] = old[i]
  PROVE  new = SubSeq(old, 1, n)
<1> DEFINE under == SubSeq(old, 1, n)
<1>1. \A i \in 1 .. n : old[i] \in S BY ElementType, Zenon
<1>2. under \in Seq(S) /\ Len(under) = n /\ \A i \in 1 .. n : under[i] = old[i]
  BY <1>1, Underneath
<1> HIDE DEF under
<1>3. new = under BY <1>2, SameElements, Zenon
<1> QED BY <1>3, Zenon DEF under

-----------------------------------------------------------------------------
(***************************************************************************)
(* The stack of calls while the kernel runs.                               *)
(***************************************************************************)
StackShaped ==
  /\ PID \in Nat /\ PID < MAX_PROCS /\ PID = MAX_PID - 1 /\ PID \in Live
  /\ CallStack \in Seq(Calls!Frame) /\ Len(CallStack) = PID + 1
  /\ CallStack[PID + 1] = Suspended(cpu)
  /\ \A i \in 1 .. PID : CallStack[i] = Suspended(process_table[i - 1].saved)

LEMMA StackShape == IInv /\ kernel = "running" => StackShaped
<1> SUFFICES ASSUME IInv, kernel = "running" PROVE StackShaped BY Zenon
<1>1. PID \in Nat /\ PID < MAX_PROCS /\ PID = MAX_PID - 1 /\ PID \in Live
  BY ProcessAssumption DEF IInv, LiveChain, TypeOK, Slots, Live
<1>2. \A c \in Context : Suspended(c) \in Calls!Frame
  BY Zenon DEF Context, Suspended, Calls!Frame
<1>3. \A i \in 1 .. PID : process_table[i - 1].saved \in Context
  BY <1>1 DEF IInv, Resumable, Live
<1>4. cpu \in Context BY Zenon DEF IInv, TypeOK
<1>5. /\ DOMAIN CallStack = 1 .. PID + 1
      /\ CallStack[PID + 1] = Suspended(cpu)
      /\ \A i \in 1 .. PID : CallStack[i] = Suspended(process_table[i - 1].saved)
  BY <1>1 DEF CallStack
<1>6. CallStack \in Seq(Calls!Frame)
  <2>1. \A i \in 1 .. PID + 1 : CallStack[i] \in Calls!Frame
    <3> SUFFICES ASSUME NEW i \in 1 .. PID + 1 PROVE CallStack[i] \in Calls!Frame BY Zenon
    <3>1. CASE i = PID + 1 BY <1>2, <1>4, <1>5, <3>1, Zenon
    <3>2. CASE i # PID + 1
      <4>1. i \in 1 .. PID BY <1>1, <3>2
      <4> QED BY <1>2, <1>3, <1>5, <4>1, Zenon
    <3> QED BY <3>1, <3>2, Zenon
  <2>2. CallStack = [i \in 1 .. PID + 1 |-> CallStack[i]] BY <1>5, Zenon DEF CallStack
  <2>3. PID + 1 \in Nat BY <1>1
  <2> QED BY ONLY <2>1, <2>2, <2>3, Elementwise, Zenon
<1>7. Len(CallStack) = PID + 1 BY <1>1, <1>5, <1>6
<1> QED BY <1>1, <1>5, <1>6, <1>7, Zenon DEF StackShaped

LEMMA StackShapeNext == (IInv /\ kernel = "running" => StackShaped)'
BY StackShape, PTL

-----------------------------------------------------------------------------
(***************************************************************************)
(* Steps of the kernel as steps of the stack.                              *)
(***************************************************************************)

\* The program that runs goes on by one instruction.
LEMMA RunStep ==
  ASSUME IInv, IInv', kernel = "running", kernel' = "running",
         PID' = PID, cpu.pc < MaxPc, cpu'.window = cpu.window, cpu'.pc = cpu.pc + 1,
         \A s \in 0 .. PID - 1 : process_table'[s].saved = process_table[s].saved
  PROVE  Calls!Run
<1> DEFINE top == [window |-> cpu.window, pc |-> cpu.pc + 1]
<1>1. StackShaped /\ StackShaped' BY StackShape, StackShapeNext, Zenon
<1>2. PID \in Nat /\ Len(CallStack) = PID + 1 /\ Len(CallStack') = PID + 1
  BY <1>1, Zenon DEF StackShaped
<1>3. CallStack'[PID + 1] = top BY <1>1, Zenon DEF StackShaped, Suspended
<1>4. \A i \in 1 .. PID : CallStack'[i] = CallStack[i]
  <2> SUFFICES ASSUME NEW i \in 1 .. PID PROVE CallStack'[i] = CallStack[i] BY Zenon
  <2>1. i - 1 \in 0 .. PID - 1 /\ i \in 1 .. PID' BY <1>2
  <2>2. process_table'[i - 1].saved = process_table[i - 1].saved BY <2>1, Zenon
  <2> QED BY <1>1, <2>1, <2>2, Zenon DEF StackShaped
<1>5. Calls!Top = Suspended(cpu) BY <1>1, Zenon DEF StackShaped, Calls!Top
<1>6. Calls!Advanced = top BY <1>5 DEF Suspended, Calls!Advanced
<1>7. Calls!Under = SubSeq(CallStack, 1, PID) BY <1>2 DEF Calls!Under
<1>8. CallStack \in Seq(Calls!Frame) /\ CallStack' \in Seq(Calls!Frame) BY <1>1, Zenon DEF StackShaped
<1>9. top \in Calls!Frame
  <2>1. PID + 1 \in 1 .. Len(CallStack') BY <1>2
  <2> QED BY <1>3, <1>8, <2>1, ElementType, Zenon
<1>10. Calls!Top.pc < MaxPc BY <1>5, Zenon DEF Suspended
<1> HIDE DEF top
<1>11. CallStack' = Append(SubSeq(CallStack, 1, PID), top)
  BY ONLY <1>2, <1>3, <1>4, <1>8, <1>9, TopReplaced, Zenon
<1> QED BY <1>6, <1>7, <1>10, <1>11, Zenon DEF Calls!Run

\* EXEC backs up the caller, past the call, and starts a program in a window
\* that no pending call uses.
LEMMA CallStep ==
  ASSUME IInv, MInv, IInv', kernel = "running", kernel' = "running",
         PID' = PID + 1, PID + 1 < MAX_PROCS, cpu.pc < MaxPc, CODE_ADDR \in Windows,
         cpu' = [window |-> CODE_ADDR, pc |-> 0, rax |-> 0],
         process_table'[PID].saved = BackedUp,
         \A s \in 0 .. PID - 1 : process_table'[s].saved = process_table[s].saved
  PROVE  Calls!Call(CODE_ADDR)
<1> DEFINE top == [window |-> cpu.window, pc |-> cpu.pc + 1]
           new == [window |-> CODE_ADDR, pc |-> 0]
           under == SubSeq(CallStack, 1, PID)
           mid == SubSeq(CallStack', 1, PID + 1)
<1>1. StackShaped /\ StackShaped' BY StackShape, StackShapeNext, Zenon
<1>2. /\ PID \in Nat /\ PID + 1 \in Nat
      /\ Len(CallStack) = PID + 1 /\ Len(CallStack') = PID + 1 + 1
  BY <1>1, Zenon DEF StackShaped
<1>3. CallStack \in Seq(Calls!Frame) /\ CallStack' \in Seq(Calls!Frame) BY <1>1, Zenon DEF StackShaped
<1>4. CallStack'[PID + 1 + 1] = new BY <1>1, Zenon DEF StackShaped, Suspended
<1>5. CallStack'[PID + 1] = top BY <1>1, <1>2 DEF StackShaped, Suspended, BackedUp
<1>6. \A i \in 1 .. PID : CallStack'[i] = CallStack[i]
  <2> SUFFICES ASSUME NEW i \in 1 .. PID PROVE CallStack'[i] = CallStack[i] BY Zenon
  <2>1. i - 1 \in 0 .. PID - 1 /\ i \in 1 .. PID' BY <1>2
  <2>2. process_table'[i - 1].saved = process_table[i - 1].saved BY <2>1, Zenon
  <2> QED BY <1>1, <2>1, <2>2, Zenon DEF StackShaped
<1>7. Calls!Top = Suspended(cpu) BY <1>1, Zenon DEF StackShaped, Calls!Top
<1>8. Calls!Advanced = top BY <1>7 DEF Suspended, Calls!Advanced
<1>9. Calls!Under = under BY <1>2 DEF Calls!Under
<1>10. Calls!Top.pc < MaxPc BY <1>7, Zenon DEF Suspended
<1>11. \A i \in 1 .. Len(CallStack) : CallStack[i].window # CODE_ADDR
  <2>1. \A s \in Slots : process_table[s].saved.window # CODE_ADDR
    BY WindowTypes DEF MInv, WindowsBelow
  <2>2. cpu.window # CODE_ADDR BY WindowTypes DEF MInv, WindowsBelow
  <2>3. \A i \in 1 .. PID : i - 1 \in Slots
    BY <1>2, ProcessAssumption DEF Slots
  <2> SUFFICES ASSUME NEW i \in 1 .. PID + 1 PROVE CallStack[i].window # CODE_ADDR BY <1>2, Zenon
  <2>4. CASE i = PID + 1
    <3>1. CallStack[i] = Suspended(cpu) BY <1>1, <2>4, Zenon DEF StackShaped
    <3> QED BY ONLY <2>2, <3>1 DEF Suspended
  <2>5. CASE i # PID + 1
    <3>1. i \in 1 .. PID BY ONLY <1>2, <2>5, i \in 1 .. PID + 1
    <3>2. CallStack[i] = Suspended(process_table[i - 1].saved) BY <1>1, <3>1, Zenon DEF StackShaped
    <3>3. process_table[i - 1].saved.window # CODE_ADDR BY <2>1, <2>3, <3>1, Zenon
    <3> QED BY ONLY <3>2, <3>3 DEF Suspended
  <2> QED BY <2>4, <2>5, Zenon
<1>12. top \in Calls!Frame /\ new \in Calls!Frame
  <2>1. PID + 1 \in 1 .. Len(CallStack') /\ PID + 1 + 1 \in 1 .. Len(CallStack') BY ONLY <1>2
  <2> QED BY <1>3, <1>4, <1>5, <2>1, ElementType, Zenon
<1> HIDE DEF top, new
<1>13. /\ mid \in Seq(Calls!Frame) /\ Len(mid) = PID + 1
       /\ \A i \in 1 .. PID + 1 : mid[i] = CallStack'[i]
  <2>1. \A i \in 1 .. PID + 1 : CallStack'[i] \in Calls!Frame BY <1>2, <1>3, ElementType
  <2>2. PID + 1 \in Nat BY <1>2, Zenon
  <2> QED BY ONLY <2>1, <2>2, Underneath
<1> HIDE DEF mid
<1>14. mid = Append(under, top)
  <2>1. \A i \in 1 .. PID : mid[i] = CallStack[i] BY ONLY <1>2, <1>6, <1>13
  <2>2. mid[PID + 1] = top BY ONLY <1>2, <1>5, <1>13
  <2> QED BY ONLY <1>2, <1>3, <1>12, <1>13, <2>1, <2>2, TopReplaced
<1>15. CallStack' = Append(mid, new)
  <2>1. \A i \in 1 .. PID + 1 : CallStack'[i] = mid[i] BY <1>13, Zenon
  <2> DEFINE n == PID + 1
  <2>2. n \in Nat /\ Len(mid) = n /\ Len(CallStack') = n + 1 /\ CallStack'[n + 1] = new
        /\ \A i \in 1 .. n : CallStack'[i] = mid[i]
    BY <1>2, <1>4, <1>13, <2>1, Zenon
  <2> HIDE DEF n
  <2> QED BY ONLY <1>3, <1>12, <1>13, <2>2, Pushed
<1> QED
  BY <1>2, <1>8, <1>9, <1>10, <1>11, <1>14, <1>15, Zenon DEF Calls!Call, new

\* EXIT resumes the caller at the context it was backed up with.
LEMMA ReturnStep ==
  ASSUME IInv, IInv', kernel = "running", kernel' = "running",
         PID # 0, PID' = PID - 1, process_table' = process_table,
         cpu' = process_table[PID - 1].saved
  PROVE  Calls!Return
<1>1. StackShaped /\ StackShaped' BY StackShape, StackShapeNext, Zenon
<1>2. PID \in Nat /\ Len(CallStack) = PID + 1 /\ Len(CallStack') = PID
  BY <1>1 DEF StackShaped
<1>3. CallStack \in Seq(Calls!Frame) /\ CallStack' \in Seq(Calls!Frame) BY <1>1, Zenon DEF StackShaped
<1>4. \A i \in 1 .. PID : CallStack'[i] = CallStack[i]
  <2> SUFFICES ASSUME NEW i \in 1 .. PID PROVE CallStack'[i] = CallStack[i] BY Zenon
  <2>1. CASE i = PID BY <1>1, <1>2, <2>1, Zenon DEF StackShaped
  <2>2. CASE i # PID
    <3>1. i \in 1 .. PID' BY <1>2, <2>2
    <3> QED BY <1>1, <3>1, Zenon DEF StackShaped
  <2> QED BY <2>1, <2>2, Zenon
<1>5. CallStack' = SubSeq(CallStack, 1, PID)
  BY ONLY <1>2, <1>3, <1>4, Popped, Zenon
<1> QED BY <1>2, <1>5 DEF Calls!Return, Calls!Under

\* A call that fails returns to its caller, whatever it mapped or lost.
LEMMA FailedExecRuns ==
  ASSUME IInv, IInv', MayExec, kernel' = kernel, PID' = PID, NEW rax, ReturnToCaller(rax),
         process_table' = WithBackup
  PROVE  Calls!Run
<1>1. kernel = "running" /\ kernel' = "running" /\ cpu.pc < MaxPc BY Zenon DEF MayExec
<1>2. cpu'.window = cpu.window /\ cpu'.pc = cpu.pc + 1 BY Zenon DEF ReturnToCaller
<1>3. StackShaped BY <1>1, StackShape, Zenon
<1>4. \A s \in 0 .. PID - 1 : process_table'[s].saved = process_table[s].saved
  <2> SUFFICES ASSUME NEW s \in 0 .. PID - 1
               PROVE  WithBackup[s].saved = process_table[s].saved
    BY Zenon
  <2>1. s \in Slots /\ s # PID BY <1>3, ProcessAssumption DEF StackShaped, Slots
  <2> QED BY <2>1, BackupKeeps, Zenon
<1> QED BY <1>1, <1>2, <1>4, RunStep, Zenon

\* EXEC is a call of the program in the new window.
LEMMA ExecOkCalls ==
  ASSUME IInv, MInv, IInv', NEW b \in Binaries, NEW extra \in 0 .. MaxTableFrames,
         ExecOk(b, extra)
  PROVE  Calls!Next
<1> DEFINE child == [pid |-> MAX_PID, ppid |-> Current.pid, code_addr |-> CODE_ADDR,
                     page_table_frame |-> ALLOCATED_FRAMES, saved |-> BackedUp]
<1>1. /\ Creates /\ MayExec /\ kernel = "running" /\ kernel' = "running"
      /\ cpu.pc < MaxPc /\ MAX_PID < MAX_PROCS
      /\ process_table' = [WithBackup EXCEPT ![MAX_PID] = child] /\ PID' = MAX_PID
      /\ cpu' = [window |-> CODE_ADDR, pc |-> 0, rax |-> 0]
  BY Zenon DEF ExecOk, Creates, MayExec
<1>2. CODE_ADDR \in Windows /\ MAX_PID \in Slots BY <1>1, CreatesType, Zenon DEF IInv
<1>3. StackShaped BY <1>1, StackShape, Zenon
<1>4. PID \in Nat /\ PID' = PID + 1 /\ PID + 1 < MAX_PROCS /\ MAX_PID = PID + 1
  <2>1. PID \in Nat /\ MAX_PID = PID + 1
    <3>1. PID \in Nat /\ PID = MAX_PID - 1 BY <1>3, Zenon DEF StackShaped
    <3>2. MAX_PID \in Int BY <1>2, ProcessAssumption DEF Slots
    <3> QED BY ONLY <3>1, <3>2
  <2> QED BY ONLY <1>1, <2>1, Zenon
<1> HIDE DEF child
<1>5. \A s \in 0 .. PID : process_table'[s].saved = IF s = PID THEN BackedUp
                                                    ELSE process_table[s].saved
  <2> SUFFICES ASSUME NEW s \in 0 .. PID
               PROVE  process_table'[s].saved = IF s = PID THEN BackedUp
                                                ELSE process_table[s].saved
    BY Zenon
  <2>1. s \in Slots /\ s # MAX_PID BY <1>4, ProcessAssumption DEF Slots
  <2>2. process_table'[s] = WithBackup[s] BY <1>1, <2>1, BackupKeeps, Zenon
  <2> QED BY <1>1, <2>1, <2>2, BackupKeeps, Zenon
<1>6. process_table'[PID].saved = BackedUp BY <1>4, <1>5
<1>7. \A s \in 0 .. PID - 1 : process_table'[s].saved = process_table[s].saved
  BY <1>4, <1>5
<1>8. Calls!Call(CODE_ADDR) BY <1>1, <1>2, <1>4, <1>6, <1>7, CallStep, Zenon
<1> QED BY <1>2, <1>8, Zenon DEF Calls!Next

\* EXIT is a return: the program that runs is not the kernel's, so it has a caller.
LEMMA SysExitReturns ==
  ASSUME IInv, MInv, ~ killed, IInv', SysExit
  PROVE  Calls!Next
<1>1. /\ IInv /\ MInv /\ ~ killed /\ kernel = "running" /\ cpu.window # Kernel
      /\ PID' = Current.ppid /\ process_table' = process_table
      /\ cpu' = process_table[Current.ppid].saved
      /\ kernel' = IF Current.code_addr = Kernel THEN "unmapped" ELSE kernel
  BY Zenon DEF SysExit, UserRuns, ExitProcess
<1>2. cpu.window = Current.code_addr
  <2>1. ~ killed /\ kernel = "running" BY <1>1, Zenon
  <2> QED BY <1>1, <2>1, Zenon DEF MInv, ContextsMatch
<1>3. PID # 0 /\ kernel' = "running" BY <1>1, <1>2, Zenon DEF IInv, KernelSlot, Current
<1>4. StackShaped BY <1>1, StackShape, Zenon
<1>5. Current.ppid = PID - 1
  BY <1>1, <1>3, <1>4, Zenon DEF StackShaped, IInv, LiveChain, Current
<1> QED BY <1>1, <1>3, <1>5, ReturnStep, Zenon DEF Calls!Next

LEMMA InitMaps == Init => Calls!Init
<1> SUFFICES ASSUME Init PROVE Calls!Init BY Zenon
<1>1. PID = 0 /\ cpu.window = Kernel /\ cpu.pc = 0 BY Zenon DEF Init
<1>2. CallStack = [i \in 1 .. 1 |-> [window |-> Kernel, pc |-> 0]]
  BY <1>1 DEF CallStack, Suspended
<1> QED BY <1>2 DEF Calls!Init

LEMMA NextMaps ==
  IInv /\ MInv /\ [Next]_vars => [Calls!Next \/ killed']_CallStack
<1> SUFFICES ASSUME IInv, MInv, [Next]_vars, ~ killed'
             PROVE  Calls!Next \/ CallStack' = CallStack
  BY Zenon
<1>1. IInv /\ MInv /\ IInv' BY NextIInv, Zenon
<1>2. ASSUME UNCHANGED <<tableVars, cpu>> PROVE CallStack' = CallStack
  BY <1>2, Zenon DEF tableVars, CallStack
<1>3. CASE Exec
  <2>1. CASE ExecNoFile \/ ExecTableFull
    BY <1>1, <2>1, FailedExecRuns, Zenon DEF ExecNoFile, ExecTableFull, Calls!Next
  <2>2. ASSUME NEW b \in Binaries, NEW extra \in 0 .. MaxTableFrames,
               NEW k \in 0 .. Len(b.pages), ExecBadBinary(b, extra, k)
        PROVE  Calls!Next
    <3>1. /\ MayExec /\ kernel' = kernel /\ PID' = PID /\ process_table' = WithBackup
          /\ ReturnToCaller(ExecError)
      BY <2>2, Zenon DEF ExecBadBinary, Creates
    <3> QED BY <1>1, <3>1, FailedExecRuns, Zenon DEF Calls!Next
  <2>3. ASSUME NEW b \in Binaries, NEW extra \in 0 .. MaxTableFrames, ExecOk(b, extra)
        PROVE  Calls!Next
    BY <1>1, <2>3, ExecOkCalls, Zenon
  <2>4. ASSUME NEW b \in Binaries, NEW extra \in 0 .. MaxTableFrames, ExecPanic(b, extra)
        PROVE  CallStack' = CallStack
    BY <1>2, <2>4, Zenon DEF ExecPanic
  <2> QED BY <1>3, <2>1, <2>2, <2>3, <2>4, Zenon DEF Exec
<1>4. CASE SysExit
  <2>1. ~ killed BY <1>4, Zenon DEF SysExit, history
  <2> QED BY <1>1, <1>4, <2>1, SysExitReturns, Zenon
<1>5. CASE PageFault
  <2>1. \A extra \in 0 .. MaxTableFrames : ~ FaultExit(extra) BY Zenon DEF FaultExit
  <2>2. UNCHANGED <<tableVars, cpu>>
    BY <1>5, <2>1, Zenon DEF PageFault, WriteFault, ReadFault, ReadFaultUnserved
  <2> QED BY <1>2, <2>2, Zenon
<1>6. ASSUME NEW u \in UserOffsets, UserStore(u) PROVE CallStack' = CallStack
  BY <1>2, <1>6, Zenon DEF UserStore
<1>7. CASE Step
  <2>1. /\ kernel = "running" /\ kernel' = "running" /\ PID' = PID /\ cpu.pc < MaxPc
        /\ process_table' = process_table /\ cpu \in Context
    BY <1>1, <1>7, Zenon DEF Step, UserRuns, tableVars, IInv, TypeOK
  <2>2. cpu'.window = cpu.window /\ cpu'.pc = cpu.pc + 1 BY <1>7, <2>1, Zenon DEF Step, Context
  <2> QED BY <1>1, <2>1, <2>2, RunStep, Zenon DEF Calls!Next
<1>8. CASE UNCHANGED vars BY <1>2, <1>8, Zenon DEF vars
<1> QED BY <1>3, <1>4, <1>5, <1>6, <1>7, <1>8, Zenon DEF Next

\* As long as no page fault makes a program exit, EXEC and EXIT are call and
\* return of programs, for any number of processes, frames, windows and binaries:
\* the process table, the saved contexts and the CPU implement the call stack.
THEOREM ExecIsCall == Spec => ImplementsCalls
BY InitMaps, NextMaps, MemoryInvariance, PTL DEF Spec, ImplementsCalls
=============================================================================
