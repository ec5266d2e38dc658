------------------------------- MODULE PhysFs -------------------------------
(***************************************************************************)
(* The file system (kernel/src/internal/fs.rs): an inode table and an array *)
(* of blocks in memory, copied to the disk sector by sector by a flush and *)
(* read back at boot.  Every operation holds the FILESYSTEMS lock from     *)
(* beginning to end, so it is one action.                                  *)
(*                                                                         *)
(* A block is its 64-bit words: a pointer block, a metadata block and data *)
(* share the array, and the code tells them apart only by who points at    *)
(* them.  Files reach as far as the single indirect block.                 *)
(***************************************************************************)
EXTENDS Integers, Sequences, Functions

CONSTANTS
  Names,           \* file names
  Attrs,           \* owners and permissions given to chown and chmod, as numbers
  Values,          \* block contents that programs write, as numbers
  NumInodes,       \* 1024 in the code
  NumBlocks,       \* superblock.num_data_blocks
  NumDirect,       \* 12 in the code
  PointersPerBlock,\* 64 in the code
  MaxBlocks        \* bound: data blocks of a file

NoName == "none"   \* the empty name of an unused inode

ASSUME PhysFsAssumption ==
  /\ NumInodes \in Nat \ {0} /\ NumBlocks \in Nat \ {0}
  /\ NumDirect \in Nat \ {0} /\ PointersPerBlock \in Nat \ {0, 1}
  /\ MaxBlocks \in 1 .. NumDirect + PointersPerBlock - 1
  /\ Attrs \subseteq Nat /\ Values \subseteq Nat
  /\ NoName \notin Names

VARIABLES
  inode_table,   \* sequence of inodes; shorter after each delete
  data_blocks,
  disk,          \* what a boot would read
  kernel,        \* "running" or "panicked"
  shifted        \* history: a flush has begun to write a shortened table

vars == <<inode_table, data_blocks, disk, kernel, shifted>>

Words == 0 .. PointersPerBlock - 1
Blocks == 0 .. NumBlocks - 1
Zero == [w \in Words |-> 0]

\* Read as pointers, the words of data or metadata are far out of range.
DataWord(v) == NumBlocks + 1 + v
Data(v) == [w \in Words |-> DataWord(v)]
Metadata(a) == [w \in Words |-> IF w = 0 THEN DataWord(0)
                                 ELSE IF w = 1 THEN a ELSE 0]

EmptyInode ==
  [name |-> NoName, num |-> 0, direct |-> [i \in 0 .. NumDirect - 1 |-> 0], single |-> 0]

\* The disk as the loader formats it, without files, and read at boot by
\* load_fs.  (VirtFs::new, which the kernel's boot does not use, makes vectors
\* of 1024 whatever sizes it is given and leaves the disk as it was.)
Init ==
  /\ inode_table = [i \in 1 .. NumInodes |-> EmptyInode]
  /\ data_blocks = [b \in Blocks |-> Zero]
  /\ disk = [inodes |-> inode_table, blocks |-> data_blocks]
  /\ kernel = "running"
  /\ shifted = FALSE

\* ---- find_inode_by_name, get_all_block_addresses, read_file ---------------
Exists(table, f) == \E i \in DOMAIN table : table[i].name = f
IndexOf(table, f) == CHOOSE i \in DOMAIN table :
  table[i].name = f /\ \A j \in 1 .. i - 1 : table[j].name # f

\* The elements of s that are in S, in their order.
Only(s, S) ==
  LET at[i \in 0 .. Len(s)] ==
        IF i = 0 THEN <<>>
        ELSE IF s[i] \in S THEN Append(at[i - 1], s[i]) ELSE at[i - 1]
  IN at[Len(s)]

Direct(inode) == [i \in 1 .. NumDirect |-> inode.direct[i - 1]]
Pointers(block) == [i \in 1 .. PointersPerBlock |-> block[i - 1]]

Addresses(inode, blocks) ==
  Only(Direct(inode), Nat \ {0})
    \o IF inode.single = 0 THEN <<>>
       ELSE Only(Pointers(blocks[inode.single]), Nat \ {0})

\* Where read_file does not index past an array and panic.
Readable(inode, blocks) ==
  LET addr == Addresses(inode, blocks)
  IN \A i \in 2 .. inode.num : i \in DOMAIN addr /\ addr[i] \in Blocks

\* The first address is the metadata block.
Contents(inode, blocks) ==
  LET addr == Addresses(inode, blocks)
  IN [i \in 1 .. inode.num - 1 |-> blocks[addr[i + 1]]]

\* ---- find_empty_data_block -----------------------------------------------
\* Mutant: "check if it is actually used" is left out.
EmptyBlocksUnchecked(table, blocks, ignore) ==
  {b \in 1 .. NumBlocks - 1 : blocks[b] = Zero /\ b \notin ignore}

\* An empty block is one of zeros that no inode has as a direct pointer.
EmptyBlocks(table, blocks, ignore) ==
  {b \in 1 .. NumBlocks - 1 :
     /\ blocks[b] = Zero /\ b \notin ignore
     /\ \A i \in DOMAIN table : \A k \in 0 .. NumDirect - 1 : table[i].direct[k] # b}

\* The loops over blocks and inodes take the first that will do, or the blocks
\* that will do one after the other.
Lowest(S) == CHOOSE b \in S : \A c \in S : b <= c
InOrder(S) == Only([b \in 1 .. NumBlocks - 1 |-> b], S)

Panics ==
  /\ kernel' = "panicked"
  /\ UNCHANGED shifted

\* ---- create_file, through VirtFs::open with the create flag ---------------
DefaultAttr == 0   \* owner 0, permissions [6, 6, 6]

\* The metadata block is written before an inode is looked for.
Create(f) ==
  LET empty == EmptyBlocks(inode_table, data_blocks, {})
      block == Lowest(empty)
      unused == {i \in 1 .. Len(inode_table) : inode_table[i].num = 0}
  IN
  /\ ~ Exists(inode_table, f)
  /\ empty # {}                                       \* else DiskFull
  /\ data_blocks' = [data_blocks EXCEPT ![block] = Metadata(DefaultAttr)]
  /\ UNCHANGED disk
  /\ \/ /\ unused # {}
        /\ inode_table' = [inode_table EXCEPT ![Lowest(unused)] =
             [name |-> f, num |-> 1, single |-> 0,
              direct |-> [EmptyInode.direct EXCEPT ![0] = block]]]
        /\ UNCHANGED <<kernel, shifted>>
     \/ /\ unused = {} /\ Len(inode_table) = NumInodes     \* OutOfInodes
        /\ UNCHANGED <<inode_table, kernel, shifted>>
     \/ /\ unused = {} /\ Len(inode_table) < NumInodes     \* past the vector
        /\ Panics /\ UNCHANGED inode_table

\* ---- write_file, through FileHandle::write --------------------------------
\* n blocks of v are laid over the old contents from block `from` on.  What is
\* not a multiple of the block size is padded to one; what is gets another
\* block of zeros.
PaddedLen(len, from, n, aligned) ==
  IF from + n > len THEN IF aligned THEN from + n + 1 ELSE from + n
                    ELSE len + 1

Overlay(old, from, n, v, aligned) ==
  [i \in 1 .. PaddedLen(Len(old), from, n, aligned) |->
     IF from < i /\ i <= from + n THEN Data(v)
     ELSE IF i <= Len(old) THEN old[i] ELSE Zero]

\* The blocks the new contents go to: the file's own, then the lowest empty
\* ones.  There are fewer than asked for when the disk is full.
Targets(inode, len) ==
  LET own == Tail(Addresses(inode, data_blocks))
      fresh == InOrder(EmptyBlocks(inode_table, data_blocks, Range(own)))
      all == own \o fresh
  IN SubSeq(all, 1, IF len <= Len(all) THEN len ELSE Len(all))

Stored(targets, new) ==
  [b \in Blocks |-> IF \E i \in DOMAIN targets : targets[i] = b
                    THEN new[CHOOSE i \in DOMAIN targets :
                               /\ targets[i] = b
                               /\ \A j \in i + 1 .. Len(targets) : targets[j] # b]
                    ELSE data_blocks[b]]

\* write_to_data_block stops at the first block number out of range.
ValidPrefix(targets) ==
  LET bad == {i \in DOMAIN targets : targets[i] \notin Blocks}
  IN SubSeq(targets, 1, Lowest(bad) - 1)

\* allocate_single_indirect_block, then the pointer itself, for file block j
\* (the metadata block is file block 0).  The first stores a pointer to some
\* empty block at j - NumDirect, the second the real one at j.
SetWord(blocks, b, w, p) == [blocks EXCEPT ![b][w] = p]

LinkIndirect(st, j, target) ==
  LET free1 == EmptyBlocks(inode_table, st.blocks, {})
      single == IF st.single = 0 /\ free1 # {} THEN Lowest(free1) ELSE st.single
      free2 == EmptyBlocks(inode_table, st.blocks, Range(Pointers(st.blocks[single])))
      spurious == SetWord(st.blocks, single, (j - NumDirect) % PointersPerBlock,
                          Lowest(free2))
  IN IF ~ st.ok \/ single \notin Blocks \ {0} \/ free2 = {}
     THEN [st EXCEPT !.ok = FALSE]
     ELSE [ok |-> TRUE, single |-> single,
           blocks |-> SetWord(spurious, single, j % PointersPerBlock, target)]

LinkAll(inode, targets, blocks) ==
  LET start == [ok |-> TRUE, single |-> inode.single, blocks |-> blocks]
      after[j \in 0 .. Len(targets)] ==
        IF j < NumDirect THEN start ELSE LinkIndirect(after[j - 1], j, targets[j])
  IN after[Len(targets)]

\* Mutant: the last direct pointer is forgotten.
LinkedShort(inode, targets, single) ==
  [inode EXCEPT !.num = Len(targets) + 1, !.single = single,
     !.direct = [k \in 0 .. NumDirect - 1 |->
                   IF k \in 1 .. Len(targets) - 1 THEN targets[k] ELSE inode.direct[k]]]

\* The inode with its direct pointers set; those beyond stay as they were.
Linked(inode, targets, single) ==
  [inode EXCEPT !.num = Len(targets) + 1, !.single = single,
     !.direct = [k \in 0 .. NumDirect - 1 |->
                   IF k \in DOMAIN targets THEN targets[k] ELSE inode.direct[k]]]

Write(f, from, n, v, aligned) ==
  /\ Exists(inode_table, f)
  /\ UNCHANGED disk
  /\ LET i == IndexOf(inode_table, f)
         inode == inode_table[i]
         new == Overlay(Contents(inode, data_blocks), from, n, v, aligned)
         targets == Targets(inode, Len(new))
         links == LinkAll(inode, targets, Stored(targets, new))
     IN /\ PaddedLen(inode.num - 1, from, n, aligned) <= MaxBlocks
        /\ IF ~ Readable(inode, data_blocks)
           THEN Panics /\ UNCHANGED <<inode_table, data_blocks>>
           ELSE /\ Len(targets) = Len(new)                  \* else DiskFull
                /\ IF ~ (Range(targets) \subseteq Blocks)      \* InvalidDataBlock
                   THEN /\ data_blocks' = Stored(ValidPrefix(targets), new)
                        /\ UNCHANGED <<inode_table, kernel, shifted>>
                   ELSE IF links.ok
                   THEN /\ data_blocks' = links.blocks
                        /\ inode_table' = [inode_table EXCEPT
                                             ![i] = Linked(inode, targets, links.single)]
                        /\ UNCHANGED <<kernel, shifted>>
                   ELSE Panics /\ UNCHANGED <<inode_table, data_blocks>>

\* ---- chmod and chown -----------------------------------------------------
SetAttr(f, a) ==
  /\ Exists(inode_table, f)
  /\ LET block == inode_table[IndexOf(inode_table, f)].direct[0]
     IN data_blocks' = [data_blocks EXCEPT ![block] = Metadata(a)]
  /\ UNCHANGED <<inode_table, disk, kernel, shifted>>

\* ---- delete: zeroes the blocks and takes the inode out of the vector -------
\* Mutant: the loop over the blocks starts after the metadata.
ZeroedButMetadata(inode) ==
  {inode.direct[k] : k \in (1 .. NumDirect - 1) \cap (1 .. inode.num - 1)}

Zeroed(inode) ==
  {inode.direct[k] : k \in (0 .. NumDirect - 1) \cap (0 .. inode.num - 1)}

Delete(f) ==
  /\ Exists(inode_table, f)
  /\ UNCHANGED disk
  /\ LET inode == inode_table[IndexOf(inode_table, f)]
         kept == {i \in Range(inode_table) : i.name # f}
     IN /\ data_blocks' = [b \in Blocks |-> IF b \in Zeroed(inode) THEN Zero ELSE data_blocks[b]]
        /\ IF inode.num <= NumDirect
           THEN /\ inode_table' = Only(inode_table, kept)
                /\ UNCHANGED <<kernel, shifted>>
           ELSE Panics /\ UNCHANGED inode_table

\* ---- write_to_disk and the next boot --------------------------------------
\* Mutant: the loop over the inode table stops one short.
AfterSectorsShort(k) ==
  [inodes |-> [i \in 1 .. NumInodes - 1 |->
                 IF i <= k THEN inode_table[i] ELSE disk.inodes[i]],
   blocks |-> [b \in Blocks |-> IF NumInodes + b < k THEN data_blocks[b]
                                                     ELSE disk.blocks[b]]]

\* The first k sectors after the superblock are written: inodes, then blocks.
AfterSectors(k) ==
  [inodes |-> [i \in 1 .. NumInodes |-> IF i <= k THEN inode_table[i] ELSE disk.inodes[i]],
   blocks |-> [b \in Blocks |-> IF NumInodes + b < k THEN data_blocks[b]
                                                     ELSE disk.blocks[b]]]
AllSectors == NumInodes + NumBlocks

Flush ==
  /\ Len(inode_table) = NumInodes
  /\ disk' = AfterSectors(AllSectors)
  /\ UNCHANGED <<inode_table, data_blocks, kernel, shifted>>

\* The disk refuses sector k + 1, or the power goes while it is written.
FlushCutShort(k) ==
  /\ k <= Len(inode_table) \/ Len(inode_table) = NumInodes
  /\ disk' = AfterSectors(k)
  /\ shifted' = (shifted \/ Len(inode_table) < NumInodes)
  /\ UNCHANGED <<inode_table, data_blocks, kernel>>

\* inode_table[i] is past the end of a vector that a delete has shortened.
FlushPanics ==
  /\ Len(inode_table) < NumInodes
  /\ disk' = AfterSectors(Len(inode_table))
  /\ kernel' = "panicked"
  /\ shifted' = TRUE
  /\ UNCHANGED <<inode_table, data_blocks>>

\* read_from_disk after a reset, whatever state the kernel was in.
Reboot ==
  /\ inode_table' = disk.inodes
  /\ data_blocks' = disk.blocks
  /\ kernel' = "running"
  /\ UNCHANGED <<disk, shifted>>

Operation ==
  /\ kernel = "running"
  /\ \/ \E f \in Names : Create(f)
     \/ \E f \in Names, from \in 0 .. MaxBlocks - 1, n \in 0 .. MaxBlocks,
           v \in Values, aligned \in BOOLEAN : Write(f, from, n, v, aligned)
     \/ \E f \in Names, a \in Attrs : SetAttr(f, a)
     \/ \E f \in Names : Delete(f)
     \/ Flush

BrokenFlush ==
  /\ kernel = "running"
  /\ FlushPanics \/ \E k \in 0 .. AllSectors - 1 : FlushCutShort(k)

Next == Operation \/ BrokenFlush \/ Reboot

Spec == Init /\ [][Next]_vars

\* Runs in which every flush reaches the last sector.
WholeFlushSpec == Init /\ [][Operation \/ Reboot]_vars

\* ---- properties ----------------------------------------------------------

\* Types: pointers stay inside the array; the vector of inodes never grows.
TypeOK ==
  /\ inode_table \in Seq([name : Names \cup {NoName}, num : 0 .. MaxBlocks + 1,
                          direct : [0 .. NumDirect - 1 -> Blocks], single : Blocks])
  /\ Len(inode_table) <= NumInodes
  /\ DOMAIN data_blocks = Blocks
  /\ Len(disk.inodes) = NumInodes
  /\ kernel \in {"running", "panicked"}
  /\ shifted \in BOOLEAN

\* The blocks an inode owns: metadata, data and the pointer block.
Owned(inode) ==
  ({inode.direct[k] : k \in 0 .. NumDirect - 1} \cup {inode.single}) \ {0}

Disjoint(table) ==
  /\ \A i, j \in DOMAIN table : i # j => Owned(table[i]) \cap Owned(table[j]) = {}
  /\ \A i \in DOMAIN table : \A k, l \in 0 .. NumDirect - 1 :
       k # l /\ table[i].direct[k] # 0 => table[i].direct[k] # table[i].direct[l]

\* No block belongs to two files, and none twice to one, also after a flush
\* that was cut short and a reboot: writes only ever add blocks to a file
\* (write_to_disk, write_file).  A delete moves the later inodes up, so the
\* one exception is a flush after it, which leaves an inode twice on the disk.
BlocksNotShared == ~ shifted => Disjoint(inode_table) /\ Disjoint(disk.inodes)

\* The blocks find_empty_data_block will never find: in use by no inode and
\* not empty.
Lost(table, blocks) ==
  {b \in Blocks : blocks[b] # Zero} \ UNION {Owned(table[i]) : i \in DOMAIN table}

\* No block is lost by a write, a delete or a change of attributes, only by a
\* create_file that finds no inode after it has written the metadata, or by
\* going back to an older disk.  After a flush of a shortened table a name may
\* be twice in the table, and delete then frees the blocks of one inode only.
OnlyCreateLosesBlocks ==
  [][shifted
     \/ Lost(inode_table', data_blocks') \subseteq Lost(inode_table, data_blocks)
     \/ (inode_table' = inode_table /\ \E f \in Names : Create(f))
     \/ Reboot]_vars

\* A file of direct blocks is always readable: read_file never indexes past
\* its list of addresses or the array of blocks.
DirectFilesReadable ==
  \A i \in DOMAIN inode_table :
    inode_table[i].num <= NumDirect => Readable(inode_table[i], data_blocks)

\* Documented and violated: test_write_file reads back what it has written,
\* `assert_eq!(&buf[..data.len()], data)` (fs.rs).  A file that needs its
\* indirect block does not.
ReadsBackWrites ==
  [][\A f \in Names, from \in 0 .. MaxBlocks - 1, n \in 0 .. MaxBlocks,
        v \in Values, aligned \in BOOLEAN :
       Write(f, from, n, v, aligned) /\ kernel' = "running" =>
         LET i == IndexOf(inode_table, f)
         IN /\ Readable(inode_table'[i], data_blocks')
            /\ Contents(inode_table'[i], data_blocks') =
                 Overlay(Contents(inode_table[i], data_blocks), from, n, v, aligned)]_vars
=============================================================================
