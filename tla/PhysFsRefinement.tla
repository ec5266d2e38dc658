-------------------------- MODULE PhysFsRefinement --------------------------
(* PhysFs, read through its inodes, implements FileStore. *)
EXTENDS PhysFs

\* The files that an inode table and an array of blocks represent.
FilesOf(table, blocks) ==
  [f \in {table[i].name : i \in DOMAIN table} \ {NoName} |->
     LET inode == table[IndexOf(table, f)]
     IN [attr |-> blocks[inode.direct[0]][1],
         data |-> Contents(inode, blocks)]]

Store == INSTANCE FileStore WITH
  Fillings <- {Data(v) : v \in Values}, NoBlock <- Zero, MaxLen <- MaxBlocks,
  files <- FilesOf(inode_table, data_blocks),
  stable <- FilesOf(disk.inodes, disk.blocks)

\* Through any sequence of creates, writes, attribute changes, deletes,
\* flushes and reboots, reading a file gives what was last written to it and
\* nothing an operation on another file did (fs.rs write_file, delete,
\* find_empty_data_block).
ImplementsStore == Store!Spec
=============================================================================
