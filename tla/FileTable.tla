------------------------------ MODULE FileTable ------------------------------
(***************************************************************************)
(* The file system calls and the descriptor table they share               *)
(* (kernel/src/internal/syscall/service.rs, io.rs, fs.rs FileHandle,       *)
(* devices/).  There is one table, FILES, for all processes and one errno.  *)
(* A call runs with interrupts off, so it is one action.                   *)
(*                                                                         *)
(* A regular file is its length in bytes; what the blocks behind it hold   *)
(* is left to PhysFs.                                                      *)
(***************************************************************************)
EXTENDS Integers, Sequences, FiniteSets

CONSTANTS
  Devices,     \* the devices in the order of their descriptors
  RegularFiles,\* names the file system may hold
  GoodProcs,   \* /proc paths that name a process and a known entry
  BadProcs,    \* /proc paths whose pid parses and whose entry is unknown
  NoPaths,     \* /dev and /proc paths that OPEN rejects
  FlagSets,    \* the flag combinations programs pass to OPEN
  BlockSize,   \* 512 in the code
  Sizes,       \* lengths of the buffers given to READ and WRITE
  MaxLen,      \* bound: length at which the disk is full
  Positions,   \* positions given to SEEK
  MaxFds       \* bound: entries of FILES

NumDevices == Len(Devices)
DeviceNames == {Devices[i] : i \in 1 .. NumDevices}
DeviceFd(d) == CHOOSE i \in 0 .. NumDevices - 1 : Devices[i + 1] = d
Terminals == {"stdin", "stdout", "stderr"}
Fds == 0 .. MaxFds - 1
Paths == DeviceNames \cup RegularFiles \cup GoodProcs \cup BadProcs \cup NoPaths

\* A regular file is no path under /proc, and a disk has room for a block.
ASSUME FileTableAssumption ==
  /\ BlockSize \in Nat \ {0} /\ MaxLen \in Nat /\ BlockSize <= MaxLen
  /\ Sizes \subseteq Nat /\ Positions \subseteq Nat
  /\ Devices \in Seq(Terminals \cup {"null", "zero", "random"})
  /\ MaxFds \in Nat /\ NumDevices <= MaxFds
  /\ RegularFiles \cap (GoodProcs \cup BadProcs) = {}
  /\ FlagSets \subseteq SUBSET {"read", "write", "append", "create", "truncate"}

\* errno values
ENOENT == 2
EIO    == 5
EBADF  == 9
EINVAL == 22
ENOSPC == 28

VARIABLES
  FILES,    \* descriptor -> resource
  ERRNO,    \* never cleared by a call that succeeds
  length,   \* length of each file, or Missing
  kernel,   \* "running", "panicked", or "hung" in a read of the console
  sought    \* history: the descriptors whose position SEEK has set

vars == <<FILES, ERRNO, length, kernel, sought>>

Missing == -1
Exists(f) == length[f] # Missing

Resource ==
  [kind : {"file", "device", "proc"},
   name : RegularFiles \cup DeviceNames \cup GoodProcs \cup BadProcs,
   flags : SUBSET {"read", "write", "append", "create", "truncate"},
   pos : Nat]

Opened(kind, name, flags) ==
  [kind |-> kind, name |-> name, flags |-> flags, pos |-> 0]

\* syscall::init opens every device, with no flags.
Init ==
  /\ FILES = [i \in 0 .. NumDevices - 1 |-> Opened("device", Devices[i + 1], {})]
  /\ ERRNO = 0
  /\ length \in [RegularFiles -> {Missing, BlockSize}]
  /\ kernel = "running"
  /\ sought = {}

\* ---- the table as a value ------------------------------------------------
Insert(files, fd, r) ==
  [i \in DOMAIN files \cup {fd} |-> IF i = fd THEN r ELSE files[i]]
Remove(files, fd) == [i \in DOMAIN files \ {fd} |-> files[i]]

\* Mutant: off by one.
NextFdTooLow(files) == Cardinality(DOMAIN files) - 1
\* The descriptor a new entry gets is the number of entries.
NextFd(files) == Cardinality(DOMAIN files)

\* ---- what a call reports -------------------------------------------------
\* A call that succeeds leaves errno alone; what it returns is a function of
\* the state it reads (NextFd, Transferred) and is not kept.
Succeeds == UNCHANGED <<ERRNO, kernel>>
Fails(errno) == ERRNO' = errno /\ UNCHANGED kernel
Stops(how) == kernel' = how /\ UNCHANGED ERRNO

\* ---- OPEN ----------------------------------------------------------------
\* new_with_likely_fs: the file must exist; of the flags only the read and
\* write bits are ever looked at again, and the position is 0.  Append, create
\* and truncate change nothing: OPEN makes no file and empties none.
OpenEntry(path, flags) ==
  IF path \in RegularFiles THEN Opened("file", path, flags)
                           ELSE Opened("proc", path, {})

\* Mutant: the pid in a /proc path is not parsed before the entry is made.
MakesEntryUnchecked(path) ==
  (path \in RegularFiles /\ Exists(path)) \/ path \in GoodProcs \cup BadProcs \cup NoPaths

MakesEntry(path) ==
  (path \in RegularFiles /\ Exists(path)) \/ path \in GoodProcs \cup BadProcs

Open(path, flags) ==
  /\ UNCHANGED length
  /\ \/ /\ path \in DeviceNames    \* a constant; FILES is not consulted
        /\ Succeeds
        /\ UNCHANGED <<FILES, sought>>
     \/ /\ MakesEntry(path)
        /\ LET fd == NextFd(FILES) IN
             /\ fd \in Fds
             /\ FILES' = Insert(FILES, fd, OpenEntry(path, flags))
             /\ sought' = sought \ {fd}
             /\ Succeeds
     \/ /\ path \notin DeviceNames /\ ~ MakesEntry(path)
        /\ Fails(ENOENT)
        /\ UNCHANGED <<FILES, sought>>

\* ---- CLOSE: the entry is removed before the resource is asked to close ----
Close(fd) ==
  /\ FILES' = Remove(FILES, fd)
  /\ sought' = sought \ {fd}
  /\ IF fd \in DOMAIN FILES THEN Succeeds
                            ELSE Fails(EBADF)
  /\ UNCHANGED length

\* ---- READ ----------------------------------------------------------------
MoveTo(fd, pos) == [FILES EXCEPT ![fd].pos = pos]
\* Mutant: the length of the buffer is taken, not what the file has left.
TransferredAll(n, left) == n
Transferred(n, left) == IF n <= left THEN n ELSE left

\* FileHandle::read: `data.len() - self.file_pos` underflows past the end.
ReadFile(fd, n) ==
  LET r == FILES[fd]
      left == length[r.name] - r.pos
  IN \/ /\ "read" \notin r.flags
        /\ Fails(EIO) /\ UNCHANGED FILES
     \/ /\ "read" \in r.flags /\ left < 0
        /\ Stops("panicked") /\ UNCHANGED FILES
     \/ /\ "read" \in r.flags /\ left >= 0
        /\ FILES' = MoveTo(fd, r.pos + Transferred(n, left))
        /\ Succeeds

\* The console answers when the whole buffer has been typed, and spins with
\* interrupts off when it has not.  The other devices have no flags and fail.
ReadDevice(fd, n) ==
  /\ UNCHANGED FILES
  /\ IF FILES[fd].name = "stdin"
     THEN Succeeds \/ (n > 0 /\ Stops("hung"))
     ELSE Fails(EIO)

\* ProcInfo::read formats the answer afresh; there is no position.
ReadProc(fd, n) ==
  /\ UNCHANGED FILES
  /\ \/ /\ FILES[fd].name \in GoodProcs
        /\ Succeeds
     \/ /\ FILES[fd].name \in BadProcs
        /\ \E e \in {EINVAL, EIO} : Fails(e)

Read(fd, n) ==
  /\ UNCHANGED <<length, sought>>
  /\ \/ fd \notin DOMAIN FILES /\ Fails(EBADF) /\ UNCHANGED FILES
     \/ fd \in DOMAIN FILES /\ FILES[fd].kind = "file" /\ ReadFile(fd, n)
     \/ fd \in DOMAIN FILES /\ FILES[fd].kind = "device" /\ ReadDevice(fd, n)
     \/ fd \in DOMAIN FILES /\ FILES[fd].kind = "proc" /\ ReadProc(fd, n)

\* ---- WRITE ---------------------------------------------------------------
\* Mutant: the last block is not padded.
PaddedNot(len) == len
\* write_file pads with BlockSize - (len % BlockSize) zeros, which is a whole
\* block when the data is aligned; read_file returns the padding as data.
Padded(len) == len + (BlockSize - (len % BlockSize))
LengthAfterWrite(len, pos, n) ==
  Padded(IF pos + n > len THEN pos + n ELSE len)

WriteFile(fd, n) ==
  LET r == FILES[fd]
      len == LengthAfterWrite(length[r.name], r.pos, n)
  IN \/ /\ "write" \notin r.flags
        /\ Fails(EIO) /\ UNCHANGED <<FILES, length>>
     \/ /\ "write" \in r.flags /\ len <= MaxLen
        /\ length' = [length EXCEPT ![r.name] = len]
        /\ FILES' = MoveTo(fd, r.pos + n)
        /\ Succeeds
     \/ /\ "write" \in r.flags /\ len > length[r.name]    \* DiskFull
        /\ Fails(ENOSPC) /\ UNCHANGED <<FILES, length>>

\* The console and the two output devices take everything.
WriteOther(fd, n) ==
  /\ UNCHANGED <<FILES, length>>
  /\ IF FILES[fd].name \in Terminals
     THEN Succeeds
     ELSE Fails(EIO)

Write(fd, n) ==
  /\ UNCHANGED sought
  /\ \/ /\ fd \notin DOMAIN FILES
        /\ Fails(EBADF) /\ UNCHANGED <<FILES, length>>
     \/ fd \in DOMAIN FILES /\ FILES[fd].kind = "file" /\ WriteFile(fd, n)
     \/ fd \in DOMAIN FILES /\ FILES[fd].kind # "file" /\ WriteOther(fd, n)

\* ---- SEEK, POLL, FLUSH ---------------------------------------------------
Seek(fd, pos) ==
  /\ UNCHANGED length
  /\ \/ /\ fd \notin DOMAIN FILES
        /\ Fails(EBADF) /\ UNCHANGED <<FILES, sought>>
     \/ /\ fd \in DOMAIN FILES /\ FILES[fd].kind = "file"
        /\ FILES' = MoveTo(fd, pos) /\ sought' = sought \cup {fd}
        /\ Succeeds
     \/ /\ fd \in DOMAIN FILES /\ FILES[fd].kind = "device"
        /\ Succeeds /\ UNCHANGED <<FILES, sought>>
     \/ /\ fd \in DOMAIN FILES /\ FILES[fd].kind = "proc"
        /\ Fails(EIO) /\ UNCHANGED <<FILES, sought>>

Events == {"read", "write"}

\* The event is checked before the descriptor.  The answer of the resource
\* changes nothing.
Poll(fd, event) ==
  /\ UNCHANGED <<FILES, length, sought>>
  /\ \/ event \notin Events /\ Fails(EINVAL)
     \/ event \in Events /\ fd \notin DOMAIN FILES /\ Fails(EBADF)
     \/ /\ event \in Events /\ fd \in DOMAIN FILES
        /\ Succeeds

\* A regular file writes the whole file system out, which the disk may refuse.
Flush(fd) ==
  /\ UNCHANGED <<FILES, length, sought>>
  /\ \/ fd \notin DOMAIN FILES /\ Fails(EBADF)
     \/ fd \in DOMAIN FILES /\ Succeeds
     \/ /\ fd \in DOMAIN FILES /\ FILES[fd].kind = "file"
        /\ Fails(EIO)

\* ---- EXEC: spawn opens, reads and closes its file around the loader -------
\* A device has a descriptor but no size on the disk: its descriptor is closed.
Exec(path) ==
  LET fd == IF path \in DeviceNames THEN DeviceFd(path) ELSE NextFd(FILES)
  IN
  /\ UNCHANGED length
  /\ \/ /\ path \in DeviceNames \/ MakesEntry(path)
        /\ FILES' = Remove(FILES, fd)
        /\ sought' = sought \ {fd}
        /\ IF path \in RegularFiles
           THEN Succeeds
           ELSE Fails(EINVAL)
     \/ /\ path \notin DeviceNames /\ ~ MakesEntry(path)
        /\ Fails(ENOENT)
        /\ UNCHANGED <<FILES, sought>>

Next ==
  /\ kernel = "running"
  /\ \/ \E path \in Paths, flags \in FlagSets : Open(path, flags)
     \/ \E fd \in Fds : Close(fd)
     \/ \E fd \in Fds, n \in Sizes : Read(fd, n)
     \/ \E fd \in Fds, n \in Sizes : Write(fd, n)
     \/ \E fd \in Fds, pos \in Positions : Seek(fd, pos)
     \/ \E fd \in Fds, event \in Events \cup {"other"} : Poll(fd, event)
     \/ \E fd \in Fds : Flush(fd)
     \/ \E path \in Paths : Exec(path)

Spec == Init /\ [][Next]_vars

\* ---- properties ----------------------------------------------------------

\* Types: the table maps descriptors to resources and each regular file has a
\* length; nothing in the system calls removes or empties a file.
TypeOK ==
  /\ DOMAIN FILES \subseteq Fds
  /\ \A fd \in DOMAIN FILES : FILES[fd] \in Resource
  /\ ERRNO \in {0, ENOENT, EIO, EBADF, EINVAL, ENOSPC}
  /\ length \in [RegularFiles -> {Missing} \cup 0 .. MaxLen]
  /\ kernel \in {"running", "panicked", "hung"}
  /\ sought \subseteq DOMAIN FILES

Dense == DOMAIN FILES = 0 .. Cardinality(DOMAIN FILES) - 1

SameEntry(fd) ==
  /\ fd \in DOMAIN FILES'
  /\ FILES'[fd].kind = FILES[fd].kind
  /\ FILES'[fd].name = FILES[fd].name
  /\ FILES'[fd].flags = FILES[fd].flags

\* As long as the descriptors in use are exactly 0 .. n - 1, no call disturbs a
\* descriptor it was not given: OPEN and EXEC take the number of entries as
\* the new descriptor (service.rs open, spawn).  EXEC of a device path is the
\* exception: it closes that device.
DenseKeepsDescriptors ==
  [][Dense => \A fd \in DOMAIN FILES :
       \/ SameEntry(fd)
       \/ Close(fd)
       \/ \E d \in DeviceNames : fd = DeviceFd(d) /\ Exec(d)]_vars

\* A position that SEEK has not set is never past the end of its file, whatever
\* the other descriptors of the file do; so FileHandle::read, which subtracts
\* the position from the length, cannot underflow without a SEEK.
PositionsWithinFile ==
  \A fd \in DOMAIN FILES \ sought :
    FILES[fd].kind = "file" => FILES[fd].pos <= length[FILES[fd].name]

\* The comment in FileHandle::read, "we know data will be a multiple of 512
\* bytes", holds after any sequence of writes.
LengthsAligned ==
  \A f \in RegularFiles : Exists(f) => length[f] % BlockSize = 0
=============================================================================
