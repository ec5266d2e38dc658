------------------------------- MODULE Memory -------------------------------
(***************************************************************************)
(* Frame allocation and page mapping (kernel/src/internal/memory.rs).      *)
(*                                                                         *)
(* A page table created by process::create starts as a copy of the active  *)
(* level-4 table, so every process shares the lower-level tables of the    *)
(* two regions user code lives in: the region above the kernel heap, cut   *)
(* into one window per created process, and the region at USER_ADDR.  One  *)
(* function `mapped` therefore stands for all the page tables.             *)
(***************************************************************************)
EXTENDS Integers, Sequences

CONSTANTS
  NumFrames,      \* usable 4 KiB frames left after the heap is initialised
  MaxTableFrames, \* frames map_to may draw for missing lower-level tables
  MaxWindows,     \* bound: windows the model lets CODE_ADDR hand out
  Offsets,        \* pages of a window
  UserOffsets     \* pages of the region at USER_ADDR

ASSUME MemoryAssumption ==
  /\ NumFrames \in Nat
  /\ MaxTableFrames \in Nat
  /\ MaxWindows \in Nat
  /\ UserOffsets \subseteq Offsets

VARIABLES
  mapped,           \* the frame behind each user-accessible page
  ALLOCATED_FRAMES  \* frames handed out so far; never decremented

Kernel     == -1    \* code_addr 0: the kernel's own, unconfined process
UserRegion == -2    \* the region at USER_ADDR
Unmapped   == -1

Windows == 0 .. MaxWindows - 1
Page    == (Windows \X Offsets) \cup ({UserRegion} \X UserOffsets)

IsMapped(p) == mapped[p] # Unmapped

(***************************************************************************)
(* alloc_pages walks its pages in order.  Each takes the next frame, and   *)
(* the first one may make map_to take `extra` more for the tables below    *)
(* the level-4 entry.  `base` is the frame counter when the walk starts.   *)
(***************************************************************************)
FrameOf(base, extra, i) == base + (i - 1) + (IF i = 1 THEN 0 ELSE extra)

\* The walk gets past its i-th page: allocate_frame is not exhausted, and
\* map_to neither finds the page mapped nor runs out of table frames.
CanMap(base, ps, extra, i) ==
  /\ ~ IsMapped(ps[i])
  /\ \A j \in 1 .. i - 1 : ps[j] # ps[i]
  /\ base + (i - 1) + extra < NumFrames

\* The walk maps exactly the first k pages: all of them, or up to the first
\* that fails (the pages before it stay mapped).
MapsPrefix(base, ps, extra, k) ==
  /\ \A i \in 1 .. k : CanMap(base, ps, extra, i)
  /\ k < Len(ps) => ~ CanMap(base, ps, extra, k + 1)

MappedAfter(base, ps, extra, k) ==
  [p \in Page |->
     IF \E i \in 1 .. k : ps[i] = p
     THEN FrameOf(base, extra, CHOOSE i \in 1 .. k : ps[i] = p)
     ELSE mapped[p]]

\* Mutant: the frames of the lower-level tables are not counted.
FramesAfterNoTables(base, ps, extra, k) ==
  base + k + (IF k = Len(ps) THEN 0 ELSE 1)

\* A page that fails has already taken its frame number, which is lost.
FramesAfter(base, ps, extra, k) ==
  base + k + (IF k = Len(ps) THEN 0 ELSE 1)
       + (IF Len(ps) = 0 THEN 0 ELSE extra)

\* free_pages: unmap, ignoring pages that are not mapped.  The frames are
\* not given back.
FreePages(ps) == [p \in Page |-> IF p \in ps THEN Unmapped ELSE mapped[p]]
=============================================================================
