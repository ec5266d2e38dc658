------------------------------- MODULE Process -------------------------------
(***************************************************************************)
(* Processes: the table, EXEC, EXIT and page faults                        *)
(* (kernel/src/internal/process.rs, interrupts.rs, syscall/service.rs).    *)
(*                                                                         *)
(* There is one CPU and no scheduler.  EXEC suspends the caller and runs   *)
(* the child; EXIT resumes the caller.  System calls and exceptions run    *)
(* with interrupts off, so each handler is one action.                     *)
(***************************************************************************)
EXTENDS Memory

CONSTANTS
  MAX_PROCS,     \* size of PROCESS_TABLE
  Binaries,      \* the executables on the disk, see Binary
  ArgsOffset,    \* the page of a window exec puts the arguments in
  HeapOffset,    \* the page after it, where the program's heap begins
  MaxPc,         \* bound: instructions a program executes
  MaxFaults      \* bound: page faults of programs

EXEC      == 10   \* syscall number, 0xA
ExecError == 130  \* ExitCode::ExecError

\* What process::create tells apart in an executable: its magic number and
\* the pages its segments occupy, in load order.  create adds the address of
\* a segment to the start of the window and does not bound it, so a page is
\* a number of windows further up and an offset.  An ELF file that does not
\* parse is loaded with no segments; an empty file has no magic to look at.
Binary == [magic : {"elf", "bin", "unknown", "empty"}, pages : Seq(Nat \X Offsets)]

ASSUME ProcessAssumption ==
  /\ MAX_PROCS \in Nat \ {0}
  /\ Binaries \subseteq Binary
  /\ ArgsOffset \in Offsets
  /\ HeapOffset \in Offsets \ {ArgsOffset}
  /\ MaxPc \in Nat
  /\ MaxFaults \in Nat

VARIABLES
  PID,            \* the current process
  MAX_PID,        \* the next process id
  process_table,  \* PROCESS_TABLE
  CODE_ADDR,      \* the next free window
  cr3,            \* frame of the active level-4 table
  cpu,            \* context the CPU is in or will return to
  userOwner,      \* history: whose data a page at USER_ADDR holds
  killed,         \* history: a page fault made a program exit
  strayed,        \* history: a program got a page outside its own window
  faults,         \* page faults so far, for the bound
  kernel          \* "running", "panicked", or "unmapped" (its own code freed)

memVars == <<mapped, ALLOCATED_FRAMES, userOwner>>
tableVars == <<PID, MAX_PID, process_table, CODE_ADDR, cr3>>
history == <<killed, strayed, faults>>
vars == <<memVars, tableVars, cpu, history, kernel>>

(***************************************************************************)
(* A context says which program executes (the window its code was loaded   *)
(* in), how far it got, and what the last EXEC left in rax.                *)
(***************************************************************************)
Context   == [window : Windows \cup {Kernel}, pc : 0 .. MaxPc, rax : Int]
NoContext == [window |-> UserRegion, pc |-> 0, rax |-> 0]
BootFrame == -1   \* the level-4 table the bootloader left in Cr3

Slots == 0 .. MAX_PROCS - 1

Process ==
  [pid : Slots, ppid : Slots, code_addr : Windows \cup {Kernel},
   page_table_frame : Nat \cup {BootFrame}, saved : Context \cup {NoContext}]

NewProcess ==
  [pid |-> 0, ppid |-> 0, code_addr |-> Kernel,
   page_table_frame |-> BootFrame, saved |-> NoContext]

Init ==
  /\ mapped = [p \in Page |-> Unmapped]
  /\ ALLOCATED_FRAMES = 0
  /\ userOwner = [u \in UserOffsets |-> Kernel]
  /\ PID = 0
  /\ MAX_PID = 1
  /\ process_table = [s \in Slots |-> NewProcess]
  /\ CODE_ADDR = 0
  /\ cr3 = BootFrame
  /\ cpu = [window |-> Kernel, pc |-> 0, rax |-> 0]
  /\ killed = FALSE
  /\ strayed = FALSE
  /\ faults = 0
  /\ kernel = "running"

Current == process_table[PID]

(***************************************************************************)
(* EXEC.  kmain makes this call once; any other program may make it at any *)
(* time.  syscall_handler first backs up the caller's context, with the    *)
(* syscall number still in rax and the instruction pointer past int 0x80.  *)
(***************************************************************************)
MayExec ==
  /\ kernel = "running"
  /\ cpu.window = Kernel => cpu.pc = 0
  /\ cpu.pc < MaxPc

\* Mutant: the instruction pointer saved is that of int 0x80 itself.
BackedUpAtCall == [window |-> cpu.window, pc |-> cpu.pc, rax |-> EXEC]
BackedUp == [window |-> cpu.window, pc |-> cpu.pc + 1, rax |-> EXEC]
\* Mutant: syscall_handler does not back up the caller.
WithoutBackup == process_table
WithBackup == [process_table EXCEPT ![PID].saved = BackedUp]

\* The system call returns to its caller.
ReturnToCaller(rax) ==
  cpu' = [window |-> cpu.window, pc |-> cpu.pc + 1, rax |-> rax]

\* service::spawn: the file cannot be opened, sized or read.
ExecNoFile ==
  /\ MayExec
  /\ process_table' = WithBackup
  /\ ReturnToCaller(-1)
  /\ UNCHANGED <<memVars, PID, MAX_PID, CODE_ADDR, cr3, history, kernel>>

\* Process::create: no free slot.
ExecTableFull ==
  /\ MayExec
  /\ MAX_PID >= MAX_PROCS
  /\ process_table' = WithBackup
  /\ ReturnToCaller(ExecError)
  /\ UNCHANGED <<memVars, PID, MAX_PID, CODE_ADDR, cr3, history, kernel>>

\* Mutant: the slot check is off by one.
CreatesOneTooMany ==
  /\ MayExec
  /\ MAX_PID <= MAX_PROCS
  /\ ALLOCATED_FRAMES < NumFrames
  /\ CODE_ADDR < MaxWindows
  /\ CODE_ADDR' = CODE_ADDR + 1

\* Mutant: CODE_ADDR is read but not advanced.
CreatesInSameWindow ==
  /\ MayExec
  /\ MAX_PID < MAX_PROCS
  /\ ALLOCATED_FRAMES < NumFrames
  /\ CODE_ADDR < MaxWindows
  /\ CODE_ADDR' = CODE_ADDR

\* Process::create past the slot check: it takes a frame for the level-4
\* table and the next window before it looks at the binary.
Creates ==
  /\ MayExec
  /\ MAX_PID < MAX_PROCS
  /\ ALLOCATED_FRAMES < NumFrames
  /\ CODE_ADDR < MaxWindows
  /\ CODE_ADDR' = CODE_ADDR + 1

Loadable(b) == b.magic \in {"elf", "bin"}
Segments(b) ==
  [i \in 1 .. Len(b.pages) |-> <<CODE_ADDR + b.pages[i][1], b.pages[i][2]>>]
ArgsPage == <<CODE_ADDR, ArgsOffset>>
HeapPage == <<CODE_ADDR, HeapOffset>>
LoadBase == ALLOCATED_FRAMES + 1

\* Bound: segments beyond the last window of the model are left out.
InRange(b) == \A i \in 1 .. Len(b.pages) : Segments(b)[i] \in Page

\* The pages a load that succeeds maps: the segments, the arguments, and the
\* page that initialising the program's heap writes to.  That write is made
\* in kernel mode and served by the page fault handler, unless a segment or
\* an earlier program has the page mapped.
LoadedPages(b) ==
  LET ps == Append(Segments(b), ArgsPage) IN
    IF IsMapped(HeapPage) \/ \E i \in 1 .. Len(ps) : ps[i] = HeapPage
    THEN ps ELSE Append(ps, HeapPage)

\* One of the first k pages of ps is outside window w and USER_ADDR.
Strays(w, ps, k) ==
  strayed' = (strayed \/ \E i \in 1 .. k : ps[i][1] \notin {w, UserRegion})

\* create fails: unknown magic, or a segment page cannot be mapped.  The
\* window, the level-4 frame and the pages mapped so far are lost.
ExecBadBinary(b, extra, k) ==
  /\ Creates
  /\ b.magic # "empty"
  /\ LET ps == IF Loadable(b) THEN Segments(b) ELSE <<>> IN
       /\ Loadable(b) => k < Len(ps)
       /\ ~ Loadable(b) => k = 0 /\ extra = 0
       /\ InRange(b)
       /\ MapsPrefix(LoadBase, ps, extra, k)
       /\ mapped' = MappedAfter(LoadBase, ps, extra, k)
       /\ ALLOCATED_FRAMES' = FramesAfter(LoadBase, ps, extra, k)
       /\ Strays(CODE_ADDR, ps, k)
  /\ process_table' = WithBackup
  /\ ReturnToCaller(ExecError)
  /\ UNCHANGED <<PID, MAX_PID, cr3, userOwner, killed, faults, kernel>>

\* create and exec succeed: the pages of the child are mapped, it is entered
\* in slot MAX_PID and the CPU switches to it.  The child inherits the
\* context its parent has just backed up.
ExecOk(b, extra) ==
  /\ Creates
  /\ Loadable(b)
  /\ InRange(b)
  /\ LET ps == LoadedPages(b) IN
       /\ MapsPrefix(LoadBase, ps, extra, Len(ps))
       /\ mapped' = MappedAfter(LoadBase, ps, extra, Len(ps))
       /\ ALLOCATED_FRAMES' = FramesAfter(LoadBase, ps, extra, Len(ps))
       /\ Strays(CODE_ADDR, ps, Len(ps))
  /\ process_table' =
       [WithBackup EXCEPT ![MAX_PID] =
          [pid |-> MAX_PID, ppid |-> Current.pid, code_addr |-> CODE_ADDR,
           page_table_frame |-> ALLOCATED_FRAMES, saved |-> BackedUp]]
  /\ MAX_PID' = MAX_PID + 1
  /\ PID' = MAX_PID
  /\ cr3' = ALLOCATED_FRAMES
  /\ cpu' = [window |-> CODE_ADDR, pc |-> 0, rax |-> 0]
  /\ UNCHANGED <<userOwner, killed, faults, kernel>>

\* expect() in create (no frame for the level-4 table), bin[0..4] on an
\* empty file, or, once the segments are loaded, exec: expect() (no page for
\* the arguments), a fault in reading the caller's arguments, or one in
\* initialising the heap that cannot be served.
ExecPanic(b, extra) ==
  /\ MayExec
  /\ MAX_PID < MAX_PROCS
  /\ \/ ALLOCATED_FRAMES >= NumFrames
     \/ b.magic = "empty"
     \/ /\ Loadable(b)
        /\ CODE_ADDR < MaxWindows
        /\ InRange(b)
        /\ MapsPrefix(LoadBase, Segments(b), extra, Len(b.pages))
  /\ kernel' = "panicked"
  /\ UNCHANGED <<memVars, tableVars, cpu, history>>

(***************************************************************************)
(* process::exit, called by the EXIT system call and by the page fault     *)
(* handler.  free_pages drops the window and, when the first page at       *)
(* USER_ADDR is mapped for user code, the whole region there.  For process *)
(* 0 the window starts at address 0: the kernel's own image.               *)
(***************************************************************************)
FirstUserPage == <<UserRegion, 0>>

\* Mutant: the window freed starts one window too low.
FreedByExitTooLow ==
  {p \in Page :
     \/ p[1] \in {Current.code_addr, Current.code_addr - 1}
     \/ p[1] = UserRegion /\ 0 \in UserOffsets /\ IsMapped(FirstUserPage)}

FreedByExit ==
  {p \in Page :
     \/ p[1] = Current.code_addr
     \/ p[1] = UserRegion /\ 0 \in UserOffsets /\ IsMapped(FirstUserPage)}

\* Mutant: MAX_PID is not decremented.
ExitProcessKeepsMaxPid ==
  /\ MAX_PID' = MAX_PID
  /\ PID' = Current.ppid
  /\ cr3' = process_table[Current.ppid].page_table_frame
  /\ mapped' = FreePages(FreedByExit)
  /\ kernel' = IF Current.code_addr = Kernel THEN "unmapped" ELSE kernel
  /\ UNCHANGED <<process_table, CODE_ADDR, userOwner>>

\* Mutant: the parent goes on with the page table of the child.
ExitProcessKeepsTable ==
  /\ MAX_PID' = MAX_PID - 1
  /\ PID' = Current.ppid
  /\ cr3' = Current.page_table_frame
  /\ process_table' = [process_table EXCEPT
       ![Current.ppid].page_table_frame = Current.page_table_frame]
  /\ mapped' = FreePages(FreedByExit)
  /\ kernel' = IF Current.code_addr = Kernel THEN "unmapped" ELSE kernel
  /\ UNCHANGED <<CODE_ADDR, userOwner>>

ExitProcess ==
  /\ MAX_PID' = MAX_PID - 1
  /\ PID' = Current.ppid
  /\ cr3' = process_table[Current.ppid].page_table_frame
  /\ mapped' = FreePages(FreedByExit)
  /\ kernel' = IF Current.code_addr = Kernel THEN "unmapped" ELSE kernel
  /\ UNCHANGED <<process_table, CODE_ADDR, userOwner>>

UserRuns == kernel = "running" /\ cpu.window # Kernel

\* Mutant: the frame restored is the one the exiting process backed up.
SysExitToSelf ==
  /\ UserRuns
  /\ ExitProcess
  /\ cpu' = Current.saved
  /\ UNCHANGED <<ALLOCATED_FRAMES, history>>

\* EXIT: after process::exit the handler overwrites the whole frame it will
\* return through, rax included, with what the new current process backed
\* up.  The status, which it had put in rax before that, goes nowhere.
SysExit ==
  /\ UserRuns
  /\ ExitProcess
  /\ cpu' = process_table[Current.ppid].saved
  /\ UNCHANGED <<ALLOCATED_FRAMES, history>>

(***************************************************************************)
(* Page faults of user code.  The handler looks at no address: a program   *)
(* may get any page that is not mapped, in its own window, in that of      *)
(* another process or in one that CODE_ADDR has yet to hand out.           *)
(***************************************************************************)
TakesFault == UserRuns /\ faults < MaxFaults /\ faults' = faults + 1

SetOwner(p, w) ==
  userOwner' = IF p[1] = UserRegion THEN [userOwner EXCEPT ![p[2]] = w]
                                    ELSE userOwner

\* A write to an unmapped page: it gets a frame, and the write is retried.
WriteFault(p, extra) ==
  /\ TakesFault
  /\ ~ IsMapped(p)
  /\ MapsPrefix(ALLOCATED_FRAMES, <<p>>, extra, 1)
  /\ mapped' = MappedAfter(ALLOCATED_FRAMES, <<p>>, extra, 1)
  /\ ALLOCATED_FRAMES' = FramesAfter(ALLOCATED_FRAMES, <<p>>, extra, 1)
  /\ SetOwner(p, cpu.window)
  /\ Strays(cpu.window, <<p>>, 1)
  /\ UNCHANGED <<tableVars, cpu, killed, kernel>>

\* alloc_pages fails: the page is mapped, for the kernel only, or no frame
\* is left for it or for one of its tables.
TakesInVain(extra) ==
  /\ extra > 0 => ALLOCATED_FRAMES + 1 + extra > NumFrames
  /\ ALLOCATED_FRAMES' = ALLOCATED_FRAMES + 1 + extra

\* A write that cannot be served.  The handler calls process::exit and
\* returns to the instruction that faulted: the context is not replaced by
\* the parent's.
FaultExit(extra) ==
  /\ TakesFault
  /\ TakesInVain(extra)
  /\ killed' = TRUE
  /\ ExitProcess
  /\ UNCHANGED <<cpu, strayed>>

\* A read, or an instruction fetch, of an unmapped page: the page gets a
\* frame; at USER_ADDR it is filled from the program image in the window
\* (code_addr + address), and the kernel panics when that is not mapped.
ReadFault(p, extra) ==
  LET image == IF Current.code_addr = Kernel THEN p
               ELSE <<Current.code_addr, p[2]>> IN
  /\ TakesFault
  /\ ~ IsMapped(p)
  /\ MapsPrefix(ALLOCATED_FRAMES, <<p>>, extra, 1)
  /\ mapped' = MappedAfter(ALLOCATED_FRAMES, <<p>>, extra, 1)
  /\ ALLOCATED_FRAMES' = FramesAfter(ALLOCATED_FRAMES, <<p>>, extra, 1)
  /\ SetOwner(p, Current.code_addr)
  /\ kernel' = IF p[1] = UserRegion /\ mapped'[image] = Unmapped
               THEN "panicked" ELSE kernel
  /\ Strays(cpu.window, <<p>>, 1)
  /\ UNCHANGED <<tableVars, cpu, killed>>

\* A read that cannot be served: the handler returns without mapping
\* anything, and the instruction faults again.
ReadFaultUnserved(extra) ==
  /\ TakesFault
  /\ TakesInVain(extra)
  /\ UNCHANGED <<mapped, userOwner, tableVars, cpu, killed, strayed, kernel>>

\* A store to a page at USER_ADDR that is already mapped does not fault,
\* whichever program mapped it.
UserStore(u) ==
  /\ UserRuns
  /\ IsMapped(<<UserRegion, u>>)
  /\ userOwner' = [userOwner EXCEPT ![u] = cpu.window]
  /\ UNCHANGED <<mapped, ALLOCATED_FRAMES, tableVars, cpu, history, kernel>>

\* Any other instruction.
Step ==
  /\ UserRuns
  /\ cpu.pc < MaxPc
  /\ cpu' = [cpu EXCEPT !.pc = @ + 1]
  /\ UNCHANGED <<memVars, tableVars, history, kernel>>

Exec ==
  \/ ExecNoFile
  \/ ExecTableFull
  \/ \E b \in Binaries, extra \in 0 .. MaxTableFrames :
       \/ \E k \in 0 .. Len(b.pages) : ExecBadBinary(b, extra, k)
       \/ ExecOk(b, extra)
       \/ ExecPanic(b, extra)

PageFault ==
  \E extra \in 0 .. MaxTableFrames :
    \/ \E p \in Page : WriteFault(p, extra) \/ ReadFault(p, extra)
    \/ FaultExit(extra)
    \/ ReadFaultUnserved(extra)

Next ==
  \/ Exec
  \/ SysExit
  \/ PageFault
  \/ \E u \in UserOffsets : UserStore(u)
  \/ Step

Spec == Init /\ [][Next]_vars

-----------------------------------------------------------------------------
(***************************************************************************)
(* Properties.                                                             *)
(***************************************************************************)

\* Every variable has its type; PROCESS_TABLE is never indexed out of range.
TypeOK ==
  /\ mapped \in [Page -> Nat \cup {Unmapped}]
  /\ ALLOCATED_FRAMES \in Nat
  /\ userOwner \in [UserOffsets -> Windows \cup {Kernel}]
  /\ PID \in Slots
  /\ MAX_PID \in 0 .. MAX_PROCS
  /\ process_table \in [Slots -> Process]
  /\ CODE_ADDR \in 0 .. MaxWindows
  /\ cr3 \in Nat \cup {BootFrame}
  /\ cpu \in Context
  /\ killed \in BOOLEAN
  /\ strayed \in BOOLEAN
  /\ faults \in Nat
  /\ kernel \in {"running", "panicked", "unmapped"}

Live == 0 .. MAX_PID - 1

\* The live processes are the slots below MAX_PID, the last one is current,
\* each is the child of the one before it and the active page table is the
\* current one's: EXEC and EXIT keep PID, MAX_PID, the ppid links and Cr3 in
\* step however calls, failures and faults follow each other.
LiveChain ==
  kernel # "unmapped" =>
    /\ PID = MAX_PID - 1
    /\ \A s \in Live : process_table[s].pid = s
    /\ \A s \in Live \ {0} : process_table[s].ppid = s - 1
    /\ cr3 = Current.page_table_frame

\* Whenever a child can exit, its parent has a backed-up context, so that
\* get_stack_frame in syscall_handler never unwraps None.
ParentHasContext ==
  kernel = "running" =>
    \A s \in Live \ {PID} : process_table[s].saved # NoContext

\* No frame has two uses: behind two pages, as two live processes' level-4
\* tables, or as a page and a table.  The counter only grows, so this holds
\* although unmapped frames are forgotten and failed walks stop half way.
FramesDistinct ==
  /\ \A p, q \in Page : IsMapped(p) /\ mapped[p] = mapped[q] => p = q
  /\ \A s \in Live : \A t \in Live :
       process_table[s].page_table_frame = process_table[t].page_table_frame
         => s = t
  /\ \A s \in Live : \A p \in Page :
       IsMapped(p) => mapped[p] # process_table[s].page_table_frame

\* Live processes have different windows, which CODE_ADDR will not hand out
\* again; and as long as every program kept to its own window and USER_ADDR,
\* the windows still to be handed out hold no mapped page.  So a load cannot
\* fail because of what a process, live, exited or half loaded, left behind.
\* (Neither the loader nor the page fault handler makes a program keep to its
\* window; if one does not, a later load may find its page mapped and fail.)
WindowsDisjoint ==
  /\ ~ strayed => \A p \in Page : p[1] >= CODE_ADDR => ~ IsMapped(p)
  /\ \A s \in Live : process_table[s].code_addr < CODE_ADDR
  /\ \A s \in Live : \A t \in Live :
       process_table[s].code_addr = process_table[t].code_addr => s = t

\* As long as no program was made to exit by a page fault, the CPU executes
\* the program of the current process, and every suspended process is
\* suspended in its own program just after its EXEC.
ContextsMatch ==
  ~ killed /\ kernel = "running" =>
    /\ cpu.window = Current.code_addr
    /\ \A s \in Live \ {PID} :
         /\ process_table[s].saved.window = process_table[s].code_addr
         /\ process_table[s].saved.rax = EXEC

\* EXEC fills a free slot only: no step changes the identity, window or page
\* table of a process that is live and stays live.
LiveEntriesKept ==
  [][\A s \in Live : s < MAX_PID' =>
       [process_table'[s] EXCEPT !.saved = NoContext]
         = [process_table[s] EXCEPT !.saved = NoContext]]_vars

\* Whatever the current process does, including exiting, being killed,
\* loading children and faulting on any page, a page that one of its
\* suspended ancestors has mapped in its window stays mapped to its frame;
\* and the other pages of that window stay unmapped as long as no program
\* got a page outside its own.
AncestorPagesKept ==
  [][\A s \in Live \ {PID} : \A p \in Page :
       p[1] = process_table[s].code_addr /\ (IsMapped(p) \/ ~ strayed')
         => mapped'[p] = mapped[p]]_vars

-----------------------------------------------------------------------------
(***************************************************************************)
(* What comments in the source say and the code does not do.               *)
(***************************************************************************)

\* process::exit: "wrap up and exit the current process, surrendering
\* control to the parent".
ExitSurrendersToParent ==
  kernel = "running" => cpu.window = Current.code_addr

\* USER_ADDR: "this address must be used by the linker for user programs
\* that need to allocate memory": what a suspended program has there is
\* still mapped when it resumes.
UserMemoryKept ==
  [][\A s \in Live \ {PID} : \A u \in UserOffsets :
       IsMapped(<<UserRegion, u>>) /\ userOwner[u] = process_table[s].code_addr
         => mapped'[<<UserRegion, u>>] = mapped[<<UserRegion, u>>]]_vars
=============================================================================
