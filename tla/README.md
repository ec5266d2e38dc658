# TLA+ models of the rustnix kernel

rustnix is a single-CPU kernel without a scheduler. A program makes system calls
with `int 0x80`; EXEC suspends its caller and runs another program, EXIT resumes
the caller. Files live in memory and reach the disk when a program flushes. This
directory models the process, descriptor and file system layers, the disk
driver, the executor of tasks, the clock, and the console with the interrupts
that drive it; it checks them with TLC and proves most of what is checked with
TLAPS.

Paths below are relative to `src/kernel/src/internal/`. `PROJECT.json` maps each
definition to its source lines and lists runs, findings, hazards and theorems.

## The system

| Part | State | Operations | What is hard about it |
|---|---|---|---|
| memory (`memory.rs`) | frame counter, page tables | `allocate_frame`, `alloc_pages`, `free_pages` | walks that fail half way; a counter that never goes back; tables shared between processes |
| processes (`process.rs`, `interrupts.rs`) | `PROCESS_TABLE`, `PID`, `MAX_PID`, `CODE_ADDR`, `Cr3`, saved contexts | `create`, `exec`, `exit`, page faults | failure at each step of a load; contexts saved at one call and restored at another; exit from a fault |
| file calls (`syscall/`, `io.rs`, `devices/`) | `FILES`, `ERRNO`, positions | OPEN, CLOSE, READ, WRITE, SEEK, POLL, FLUSH, EXEC | one table for all programs; descriptors chosen by counting; positions against lengths that change |
| file system (`fs.rs`) | inode vector, blocks, disk | create, write, chmod/chown, delete, flush, load | allocation by looking for zeros; pointer blocks; a flush cut short; reboot |
| interrupts, timer (`interrupts.rs`, `clk/pit.rs`) | interrupt flag, `IRQ_HANDLERS`, ticks | handlers, SLEEP, WAIT, boot | interrupts on at some places and masked at others; locks taken by handlers |
| console, keyboard (`console.rs`, `keyboard.rs`, `vga.rs`) | input buffer, modifier flags, cursor | key interrupt, READ, WRITE | a read that waits for an interrupt it masks; bytes lost in the keyboard |
| executor (`task/executor.rs`) | queue, tasks, wakers | spawn, poll, wake | wake-ups from interrupts in the middle of a poll; a full queue |
| date (`clk/rtc.rs`, `clk/mod.rs`) | six registers of a chip | `read_rtc`, `get_unix_time` | torn reads, calendar arithmetic |
| disk driver (`ata.rs`) | selected drive, status | probe, select, read, write | slow, missing and broken drives; a timeout that needs interrupts |
| users, heap, gdt, acpi, serial, fs-loader | | | set-up, output, or a host tool |

They interact in few places: EXEC goes through the descriptor table to read its
file, then to the process layer, which uses the memory layer; descriptors of
regular files call the file system; the file system calls the disk driver; the
console waits for the keyboard's interrupts and sleeps wait for the timer's.

## Modules

| Module | Models |
|---|---|
| `Memory` | frames and pages. One function `mapped` stands for all page tables, because `create` copies the level-4 table and so shares everything below it. `MapsPrefix(.., k)` is a walk of `alloc_pages` that maps its first `k` pages |
| `Process` | the process table, EXEC (`ExecNoFile`, `ExecTableFull`, `ExecBadBinary`, `ExecOk`, `ExecPanic`: one action per outcome of `service::spawn`, `create` and `exec`), EXIT (`SysExit`), page faults on any page (`WriteFault`, `ReadFault`; `FaultExit` and `ReadFaultUnserved` when no frame is left), and user instructions |
| `ProcessStack`, `ProcessRefinement` | what EXEC and EXIT promise, a call stack, and the mapping from the process table to it |
| `ProcessProofs`, `FileTableProofs`, `PhysFsProofs`, `ExecutorProofs`, `RtcProofs`, `AtaProofs`, `MachineProofs` | theorems about the module of that name and, where there is one, its refinement |
| `Induction` | induction over numbers, for the proofs |
| `FileTable` | the descriptor table and errno, one action per file system call; a regular file is its length |
| `PhysFs` | inodes, blocks and the disk. A block is its words, so that a pointer block, metadata and data share one array as they do in the code |
| `FileStore`, `PhysFsRefinement` | what the file system promises, named contents with a stable copy, and the mapping to it |
| `Ata` | the disk driver and the drives: `Open` and `Opened` are the probes of `init`, `Request` a call of `read` or `write`, and the driver's steps are cut where it reads a status register; `Finish`, `Fail`, `Hang` are steps of a drive |
| `Executor` | the queue, the map of tasks and the wakers. `run_ready_tasks` is cut at the call of `poll`, so that interrupts come in between |
| `Rtc` | `read_rtc` one register at a time against a clock that goes on, and `get_unix_time` against a calendar that counts days |
| `Console` | the keyboard handler as functions on one record: flags, input buffer with its capacity, cursor |
| `Machine` | extends `Console` with the processor: interrupt flag and requests, boot from `interrupts::init` to the first process, `set_irq_handler`, the handlers of timer and keyboard, locks, `hlt`, and the system calls that wait (SLEEP, WAIT, READ of the console) or print |
| `MCProcess`, `MCFileTable`, `MCPhysFs`, `MCAta`, `MCRtc` | values of constants for TLC |

Why one handler is one action in `Process`, `FileTable` and `PhysFs`: system calls
and faults run on one CPU with interrupts off, and the operations of `fs.rs` hold
the `FILESYSTEMS` lock to their end. SLEEP and WAIT do enable interrupts, but the
timer and keyboard handlers touch nothing modelled there; `Machine` has those.
Steps inside a handler that can fail on their own are separate outcomes with the
state each leaves behind: a load that stops after `k` pages, a flush that stops
after `k` sectors. In `Machine` an interrupt handler is one action because nothing
interrupts it, and the code it interrupts is cut at every place where it changes
the interrupt flag or takes a lock that a handler takes. `MaskedInCalls`, which
`Machine_waiting` checks, is what the other modules rely on.

Abstractions of data: a program is the window it is loaded in and an instruction
count; a binary is its magic and the pages of its segments; file contents are a
value per block; owner and permissions are one attribute. A sector is one value, a
key or character one name, a date six numbers.
`userOwner`, `killed`, `strayed` (Process), `sought` (FileTable), `shifted` (PhysFs),
`woken`, `repeated` (Executor), `asked` (Rtc), `acked`, `lost` (Ata), `asked`, `edges`,
`dropped` and `early` (Machine) are history variables, which no action's guard reads
(but for the caps on `edges`); `faults` (Process) only serves its bound.

Memory of programs. A window is the range of addresses that `create` hands out. Nothing
confines a program to its own: a segment of a binary may lie in a later window, and
`page_fault_handler` maps whatever address faulted, in the windows of other processes
too. In `Process` a segment is therefore any page at or after the start of its window,
and a fault any page. `strayed` records that a program got a page outside its window and
outside the region at USER_ADDR; the two properties that depend on it
(`WindowsDisjoint`, `AncestorPagesKept`) say what holds without it and what holds
regardless. `exec` maps a page for the arguments and then initialises the heap of the
program, which writes to a page that is not mapped: this fault is taken in kernel mode
and served like any other (`LoadedPages`). A walk takes its table frames at its first
page. Arguments fit in their page.

## Runs

Runs that pass:

| Run | States | Shows |
|---|---|---|
| `Process_safety` | 278 819 | The live processes are a chain of callers whose last one is current (`LiveChain`), each caller can be resumed (`ParentHasContext`), frames have one use (`FramesDistinct`), live processes have windows of their own, and new windows are empty until a program strays (`WindowsDisjoint`), saved contexts belong to their process (`ContextsMatch`), live entries are not overwritten (`LiveEntriesKept`), the pages that ancestors have mapped keep their frames whatever a child does (`AncestorPagesKept`), and until a page fault makes a program exit, EXEC and EXIT are call and return (`ImplementsCalls`) |
| `FileTable_safety` | 122 922 | While descriptors are dense, a call disturbs no descriptor but its own (`DenseKeepsDescriptors`); positions not set by SEEK stay inside the file (`PositionsWithinFile`); lengths are whole blocks (`LengthsAligned`) |
| `PhysFs_safety` | 34 464 | With flushes that stop at any sector, panics and reboots: no block has two owners (`BlocksNotShared`), files of direct blocks can be read (`DirectFilesReadable`), and only `create_file` without a free inode loses a block (`OnlyCreateLosesBlocks`) |
| `PhysFs_store` | 16 860 | `ImplementsStore`: with flushes that complete, files of direct blocks read back as written through any mix of operations and reboots |
| `Executor_tasks` | 39 720 | No wake-up is lost, also one in the middle of the poll it concerns (`NoLostWake`); with no more tasks than entries the queue overflows only after a repeated wake-up (`OverflowOnlyByRepeats`); every woken task is polled, however often others wake themselves (`WokenIsPolled`) |
| `Rtc_dates` | 336 108 | While no minute ends during the call the answer is, by a calendar that counts days, a time at which the call ran (`WrongOnlyAtCarry`); a torn reading may be up to a year too late but never too early, because the seconds are read first (`NeverBeforeCall`) |
| `Ata_transfers` | 215 499 | A read returns the last acknowledged write (`ReadsLastWrite`), unless the drive failed to store it after `write` had returned, which the driver cannot see; the cache of the selected drive is right (`SelectionCached`); commands go to drives that are ready (`CommandsToReadyDrives`); only drives that are broken, or keep a poll waiting for more than its second, make the driver panic (`PanicNeedsFault`); requests end, but for a broken drive in a system call, where the timeout never comes (`RequestsEnd`) |
| `Machine_waiting` | 484 852 | A handler can only be blocked by the lock of the heap, which boot code holds with interrupts on (`OnlyHeapBlocksHandlers`); system calls are masked but inside `hlt` (`MaskedInCalls`); the keyboard goes dead only if a key came before `keyboard::init` (`KeyboardAlive`); SHIFT sticks only if a byte was lost (`NoStuckShift`); echo and erasing keep cursor and input together on a line, but for an erased ESC (`EchoTracksInput`); `pit::sleep` lasts the ticks it computes, less the period that had begun (`SleepsLongEnough`); calls return, but for a READ of more keys than were typed before it (`CallsReturn`) |

The exceptions in these properties are behaviours of the code: each weakened
form is there because TLC finds the stronger one violated.

Runs in which a statement of the sources is violated, one each:

| Run | Statement | What the code does |
|---|---|---|
| `Process_fault_exit` | `process.rs:302` "surrendering control to the parent" | after an exit from a page fault the same program goes on, as its parent |
| `Process_user_memory` | `process.rs:35` memory at USER_ADDR is for programs to allocate | a child's exit unmaps its parent's |
| `PhysFs_indirect` | `fs.rs:1634` a test reads back what it wrote | files with an indirect block do not |
| `Machine_sleep_units` | `syscall/mod.rs:106` "sleep for a number of milliseconds" | SLEEP divides by a million and calls a function of seconds (`service.rs:246`, `clk/pit.rs:63`): SLEEP(2000) returns after two periods of a millisecond |

Deadlock is checked for `PhysFs`, which can always reboot, and off elsewhere: a
kernel that has panicked, has unmapped itself, is switched off, hangs in a read
of the console or spins in a handler has no next step, an executor whose tasks
have all ended only spins, and a call of `get_unix_time` is over once it has its
answer.

### The machine

What the models assume of the hardware, and of the state at boot:

- `Rtc`: the chip counts in BCD and in 24-hour mode, and changes its registers at once.
  `read_rtc` looks neither at register B, which tells the mode, nor at the update flag,
  during which a real chip may give bytes that belong to no date.
- `Ata`: a drive may answer, fail, hang, or take longer than the second that `poll`
  allows (`TimeoutSlow`); the last is counted as a fault, although the drive is sound.
- `Machine`: `acpi::shutdown` may switch the machine off or return.
- `PhysFs`: boot reads a disk that the loader has formatted (`load_fs`). A file system
  made by `VirtFs::new` has 1024 blocks in memory whatever its superblock says; the
  kernel's boot makes none.

### Bounds

- `Process_safety`: 3 slots (kernel, child, grandchild: the shortest chain in which
  a parent is neither the kernel nor current), 3 windows (one more than can be
  live, so that a failed load or an exit is followed by another), windows of 3
  pages (code, arguments, heap), 9 frames with up to 1 table frame per walk, so
  that frames run out inside a walk. One of the binaries has a segment in the window
  after its own; segments beyond the last window are left out (`InRange`), and so are
  addresses that wrap around. `MaxFaults` allows 2 page faults, enough for one that
  strays and one that ends its program; `MaxPc` stops programs after 2 instructions.
  Faults outside all windows and the region at USER_ADDR only take frames, as
  `extra` does, and are left out.
- `FileTable_safety`: 2 devices and 3 descriptors, which is where the number of
  entries first meets a descriptor in use; blocks of 2 bytes, so that sizes 1 and
  2 are unaligned and aligned; files of up to 2 blocks and a SEEK to 3, past the
  end of the shorter ones; flags with and without truncate, which OPEN ignores.
- `PhysFs`: 2 names, 2 inodes, 4 blocks (block 0 is never used): both files, the
  full disk and the empty inode table all occur. `PhysFs_store` has a fifth block,
  with which both files can have contents. In the passing runs `MaxBlocks`
  is below `NumDirect`, so files stay in direct blocks; `PhysFs_indirect` raises
  it. Names are symmetric in `PhysFs_safety`.
- `Executor_tasks`: 3 tasks and 3 entries: tasks just fit, so an overflow needs a
  repeated wake-up, and a task can wait behind two others.
- `Rtc_dates`: every month end of 2000-2099 and 28 February, at times from which
  one tick carries through seconds, minutes, hours, days, months or years; up
  to 2 ticks during a call, so that the second comes after a carry. The clock
  stops in 2100 (`LastYear`): its two digits of the year are then 00 again, and
  the code adds 2000.
- `Ata_transfers`: one machine with three drives, so that a bus has two and the
  other bus one, and one with a single drive, whose second bus floats and whose
  file system drive is missing; one sector with two values; one fault, at any
  step of any drive, or one poll that lasts longer than its timeout.
- `Machine_waiting`: a screen of 4 columns, which Shift-Tab (`^[`, `[`, `Z`) just
  fills; 3 bytes from the keyboard and a buffer for 2, so that one can be lost;
  SLEEP(1) and SLEEP(2000), whose 0 and 2 ticks are the sleep that ends at once and
  the one that needs more than the request already waiting (`TicksOf` stays within
  TLC's 32 bits up to arguments of 2999);
  reads of 2 characters; an input buffer that has to grow at
  its first, second and third character. `Machine_sleep_units` has no keys, and counts
  periods to 3, one more than the sleep lasts.

### Fairness

- `Executor`: weak fairness of the loop (`run` never returns) and of the answer of
  a poll (a future that blocks would block the kernel). Nothing makes an
  interrupt or a wake-up come.
- `Ata`: weak fairness of the driver, which is the code the processor runs, and of
  each drive that is not broken. `Timeout` is part of the driver only while
  interrupts are on, because `poll` counts ticks.
- `Machine`: weak fairness of the timer's periods and of its interrupt. The code
  and the keyboard's interrupt get strong fairness: both are disabled again and
  again by timer interrupts, and both get on because a handler takes far less
  than a period of a millisecond. `KeyByte` has none: nobody has to press a key.
- `Process`, `FileTable`, `PhysFs`: none. Programs may stop or loop at any point and
  no timer preempts them.

## Proofs

TLC checks small instances; the proof modules show the same properties for every
value of the constants that satisfies the `ASSUME` of the model. Every invariant
and action property of the passing runs is proved, and so are both refinements.

| Module | Theorem | Property | Condition |
|---|---|---|---|
| `ProcessProofs` | `TypeCorrect`, `ChainKept`, `ParentResumable` | `TypeOK`, `LiveChain`, `ParentHasContext` | |
| | `FramesNeverShared`, `WindowsNeverShared`, `CurrentProgramRuns` | `FramesDistinct`, `WindowsDisjoint`, `ContextsMatch` | |
| | `EntriesKept`, `AncestorsUntouched` | `LiveEntriesKept`, `AncestorPagesKept` | |
| | `ExecIsCall` | `ImplementsCalls` | |
| `FileTableProofs` | `TableTypeCorrect`, `PositionsStayInside`, `LengthsStayAligned`, `DenseTablesSafe` | `TypeOK`, `PositionsWithinFile`, `LengthsAligned`, `DenseKeepsDescriptors` | |
| `PhysFsProofs` | `FsTypeCorrect`, `DirectReadable` | `TypeOK`, `DirectFilesReadable` | |
| | `BlocksOwnedOnce`, `BlocksLostByCreate` | `BlocksNotShared`, `OnlyCreateLosesBlocks` | `SmallFiles` |
| | `InodesImplementStore` | `ImplementsStore` | `SmallFiles`, flushes complete (`WholeFlushSpec`) |
| `ExecutorProofs` | `ExecutorTypeCorrect`, `WakesKept`, `OverflowNeedsRepeats` | `TypeOK`, `NoLostWake`, `OverflowOnlyByRepeats` | |
| `RtcProofs` | `ClockTypeCorrect`, `ReadingsRight`, `NeverBack` | `TypeOK`, `WrongOnlyAtCarry`, `NeverBeforeCall` | |
| `AtaProofs` | `DriverTypeCorrect`, `SelectionRight`, `ReadsRight`, `CommandsWait` | `TypeOK`, `SelectionCached`, `ReadsLastWrite`, `CommandsToReadyDrives` | |
| | `NoPanicWithoutFault` | `PanicNeedsFault` | `BootBusPopulated` |
| `MachineProofs` | `MachineTypeCorrect`, `HandlersBlockOnHeapOnly`, `CallsMasked`, `KeyboardStaysAlive`, `ShiftReleased` | `TypeOK`, `OnlyHeapBlocksHandlers`, `MaskedInCalls`, `KeyboardAlive`, `NoStuckShift` | |
| | `SleepsLast`, `EchoKeepsUp` | `SleepsLongEnough`, `EchoTracksInput` | |

### Assumptions and conditions

The assumptions on constants say that bounds are numbers (a screen has a column, a
table a slot, a block two words), that binaries are well-formed, that a name is not
the empty name, that devices and regular files have the names that `io.rs` tells
apart, and that a call of `get_unix_time` finds the clock at some date of 2000-2099
(`ClockAssumption`; the theorems hold for every such date and any number of seconds
that pass during the call). Some theorems have a condition of their own:

- `SmallFiles`: files have fewer blocks than an inode has direct pointers (12 in the
  code). `find_empty_data_block` sees the direct blocks of a file and not those behind
  its pointer block, so with larger files a block may get two owners;
  `PhysFs_indirect` shows what then happens to contents. Both passing runs of `PhysFs`
  are instances with `SmallFiles`. `FsTypeCorrect` and `DirectReadable` do without it.
- `BootBusPopulated`: the first bus has a drive. The file system reads its second
  drive; on a bus without any drive the status floats and the poll ends in a panic.
  (The machines of `Ata_transfers` satisfy it.)

`BlocksNotShared` and `OnlyCreateLosesBlocks` speak of histories in which no flush has
begun to write a shortened inode vector (`~ shifted`). `delete` removes its inode from
the vector, so the flush after it writes every later inode one place before its old
one and then panics past the end of the vector; the old table's last inodes stay on
the disk, and a file may be there twice.

### Inductive invariants

No property here but the simplest is inductive. What each needs:

- `Process`: `IInv == TypeOK /\ LiveChain /\ KernelSlot /\ Resumable`. EXIT in slot 0
  would decrement `MAX_PID` to 0, so `KernelSlot` says that slot 0 keeps `code_addr` 0,
  whose exit frees the kernel itself, after which nothing is claimed. EXIT copies the
  parent's saved context to the CPU, which has the type of a context only if the parent
  made an EXEC: this is `Resumable`. It also covers slot 0 as soon as any other program
  runs, because a program made to exit by a page fault may find itself running as
  process 0. `MInv` adds the memory: every frame in use is below the counter
  (`FramesBelow`) and every window below `CODE_ADDR` (`WindowsBelow`), so what a load
  takes is new, wherever it stops. Pages above `CODE_ADDR` are mapped only once a program
  has strayed; the pages below it that an ancestor has mapped keep their frames because
  a walk stops at a mapped page and an exit frees its own window. `ProgramsApart` ties
  contexts to windows.
- `ProcessRefinement`: the invariants above with `~ killed`. One lemma per action says
  what it does to the stack of frames: push, pop, replace the top, or nothing.
- `FileTable`: every entry of a regular file names one that exists, and a position not
  set by SEEK is inside it. One predicate on an entry (`Good`) is shown to survive
  writes to its file through other descriptors.
- `PhysFs`: `GInv` types the inodes: the direct pointers of a file are set up to its
  number of blocks and zero after it, and the pointer block is there if and only if the
  file has more. This already gives `DirectFilesReadable`, for files of any size next to
  it. `SInv` says that tables are `Sound`, in memory and on the disk, and that each
  inode in memory is a later state of the one on the disk (`Extended`), so a table
  with some old and some new inodes is sound as well: this is why a flush may stop
  anywhere. For the refinement, the contents of a file depend on its own inode and
  blocks only, and one lemma (`ChangeFile`) says that replacing an inode whose blocks
  no other file has changes the store at one name.
- `Executor`: while no wake-up was repeated the entries of the queue differ
  (`Distinct`), so it has room for every task.
- `Rtc`: two arguments meet. One is about the calendar alone: the closed form of
  `get_unix_time` counts the days of every date (`CountedTime`, by induction over years
  and over months), and a date that is not later in the order year, month, ..., second
  has a time that is not later (`OrderKept`). The other is about torn reads: `Mixed` is
  the date that `read_rtc` would return if it read the remaining registers now. A read
  leaves it as it is. A tick moves it only forward (`MixedAdvances`), because the
  registers read so far are the smaller units: if the tick carries into a unit not yet
  read, the new date has a larger one there, whatever stale digits follow. So `Mixed`
  is never before the call; and while no minute has ended it differs from the true date
  in its seconds only. A mixed date need not exist (31 February): the order is proved
  for all days 1-31.
- `Ata`: `Phases` says what is known at each program point about the drive in use and
  about every other drive, `Stores` what each sector will hold once its drive has
  stored it, `Replies` what the buffer of a read holds. `Healthy`, for
  `NoPanicWithoutFault`, says that without a fault only the drive in use has a command.
- `Machine`: which lock the code holds at each point and that all but the heap's are
  taken masked (`Locks`), that calls that halt get masked again (`Calls`), that a
  request of the keyboard line stands for a byte in its buffer and that a shift key
  that goes down in the buffer comes up in it (`Bytes`), and that ticks are at most one
  ahead of periods (`Ticks`). `EchoTracksInput` needs no more than the types, but the
  column after a string of any length.

TLC checked each of these on the runs' instances before it was proved.

`Induction` has the induction over numbers that the proofs need, stated with sets
instead of predicates (`SetInduction`, `LeastNatural`, `GreatestNatural`),
because the provers cannot instantiate a theorem that takes an operator. The loops of
the code that the theorems need for every input (`write_str`, the filters of
`get_all_block_addresses` and `retain`, the pointers that `write_file` links) are
recursive functions in the models, and lemmas say what they compute.

### Only model-checked

- Liveness: `WokenIsPolled`, `RequestsEnd`, `CallsReturn`. Neither fairness nor
  `ENABLED` is within the prover's reach.
- The four runs that end in a violation.

## Not modelled

- `gdt.rs`, `allocator.rs`, the tables of `acpi.rs`, `serial.rs`: constant tables, ports
  and output, set up once. `simple_executor.rs` has no user. (Nothing in the kernel makes
  an `Executor` either; `Executor` models it as its interface lets it be used.)
- `fs-loader`: a host program that creates and writes files with a copy of `fs.rs`,
  in which the operations modelled in `PhysFs` are the same; it stops at the first
  error.
- `user.rs`: parses one file at boot, before any program runs.
- ATAPI and SATA drives, which the driver treats as missing; `Bus::reset` and
  `sleep_if_idle`, which nothing calls.
- Two-byte scancodes and the decoder's tables, which belong to a library.
- Readings of time: `get_boot_time_ns` adds two measures of the same time; the models
  count ticks.
- Page faults of kernel code, but for the write in `exec` that initialises a heap (see
  Memory of programs). The handler serves kernel writes like those of programs, and
  panics or halts for other kernel faults; the kernel's own memory is mapped at boot.
- What POLL answers: it is computed from the open flags and changes nothing. (For a
  regular file the test at `fs.rs:1185` is negated.)
- The flags append, create and truncate, which `file.rs:175-180` describes: OPEN keeps them
  with the handle, and no call acts on them, in the code and in `FileTable`.
- Environment, directory and user of a process: data that is copied to children.

## Plan

1. Proofs: ownership of blocks in `PhysFs` with the blocks behind pointers, once
   `find_empty_data_block` looks at them.
2. Compositions: EXEC through `FileTable` into `Process`; `FileTable` on `PhysFs`; `PhysFs`
   on `Ata`.
3. `PhysFs`: double and triple indirect blocks; owner and permissions apart.
