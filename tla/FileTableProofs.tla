--------------------------- MODULE FileTableProofs ---------------------------
(***************************************************************************)
(* Proofs about FileTable: the type invariant, the two invariants about    *)
(* positions and lengths, and the two action properties, for any devices,  *)
(* files, block size and table size.                                       *)
(***************************************************************************)
EXTENDS FileTable, FiniteSetTheorems, TLAPS

\* ---- arithmetic of whole blocks ------------------------------------------

\* The padding of write_file is at least one byte, so the padded length is
\* past the data (fs.rs write_file).
LEMMA PaddedGrows ==
  ASSUME NEW len \in Nat
  PROVE  Padded(len) \in Nat /\ Padded(len) > len
<1>1. len % BlockSize \in 0 .. BlockSize - 1
  BY FileTableAssumption
<1>2. BlockSize \in Nat
  BY FileTableAssumption
<1> QED
  BY <1>1, <1>2 DEF Padded

\* A multiple of the block size leaves no remainder.
LEMMA MultipleAligned ==
  ASSUME NEW k \in Nat
  PROVE  (BlockSize * k) % BlockSize = 0
BY FileTableAssumption

\* The padded length is a whole number of blocks (fs.rs write_file).
LEMMA PaddedAligned ==
  ASSUME NEW len \in Nat
  PROVE  Padded(len) % BlockSize = 0
<1> DEFINE q == len \div BlockSize
<1>1. q \in Nat /\ len = BlockSize * q + (len % BlockSize)
  BY FileTableAssumption
<1>2. len % BlockSize \in Int /\ BlockSize \in Nat
  BY FileTableAssumption
<1>3. Padded(len) = BlockSize * (q + 1)
  BY <1>1, <1>2 DEF Padded
<1> HIDE DEF q
<1> QED
  BY <1>1, <1>3, MultipleAligned

\* A write never leaves the file shorter than it was, nor shorter than the
\* position it moves to, and leaves it a whole number of blocks
\* (io.rs FileHandle::write, fs.rs write_file).
LEMMA LengthAfterWriteFacts ==
  ASSUME NEW len \in Nat, NEW pos \in Nat, NEW n \in Nat
  PROVE  LET new == LengthAfterWrite(len, pos, n)
         IN new \in Nat /\ new >= len /\ new >= pos + n /\ new % BlockSize = 0
<1> DEFINE top == IF pos + n > len THEN pos + n ELSE len
<1>1. top \in Nat /\ top >= len /\ top >= pos + n
  OBVIOUS
<1> HIDE DEF top
<1>2. Padded(top) \in Nat /\ Padded(top) > top
  BY <1>1, PaddedGrows
<1>3. Padded(top) % BlockSize = 0
  BY <1>1, PaddedAligned
<1>4. LengthAfterWrite(len, pos, n) = Padded(top)
  BY DEF LengthAfterWrite, top
<1> QED
  BY <1>1, <1>2, <1>3, <1>4

-----------------------------------------------------------------------------
\* ---- the inductive invariant ---------------------------------------------

\* An entry of kind "file" was made by an open that found the file, and no
\* call removes one; so its name has a length.
EntriesNameFiles ==
  \A fd \in DOMAIN FILES :
    FILES[fd].kind = "file" => FILES[fd].name \in RegularFiles /\ Exists(FILES[fd].name)

IInv ==
  /\ TypeOK
  /\ FILES = [fd \in DOMAIN FILES |-> FILES[fd]]
  /\ EntriesNameFiles
  /\ PositionsWithinFile
  /\ LengthsAligned

\* The parts of IInv that speak of one entry.
Good(fd, r, len, seeks) ==
  /\ r \in Resource
  /\ r.kind = "file" =>
       /\ r.name \in RegularFiles
       /\ len[r.name] # Missing
       /\ fd \in seeks \/ r.pos <= len[r.name]

LEMMA EntriesGood ==
  ASSUME IInv, NEW fd \in DOMAIN FILES
  PROVE  Good(fd, FILES[fd], length, sought)
BY DEF IInv, TypeOK, EntriesNameFiles, PositionsWithinFile, Good, Exists

\* The table and the lengths separately: what a call has to show.
TableGood ==
  /\ DOMAIN FILES \subseteq Fds
  /\ FILES = [fd \in DOMAIN FILES |-> FILES[fd]]
  /\ \A fd \in DOMAIN FILES : Good(fd, FILES[fd], length, sought)
  /\ sought \subseteq DOMAIN FILES

LengthsGood ==
  /\ length \in [RegularFiles -> {Missing} \cup 0 .. MaxLen]
  /\ LengthsAligned

Flags ==
  /\ ERRNO \in {0, ENOENT, EIO, EBADF, EINVAL, ENOSPC}
  /\ kernel \in {"running", "panicked", "hung"}

LEMMA Parts == IInv <=> TableGood /\ LengthsGood /\ Flags
BY DEF IInv, TypeOK, EntriesNameFiles, PositionsWithinFile, Good, Exists,
       TableGood, LengthsGood, Flags

LEMMA PartsNext == (IInv <=> TableGood /\ LengthsGood /\ Flags)'
BY Parts, PTL

\* Every way a call ends reports a known errno and a known kernel state.
LEMMA ReportsKeepFlags ==
  ASSUME Flags,
         \/ Succeeds
         \/ \E e \in {ENOENT, EIO, EBADF, EINVAL, ENOSPC} : Fails(e)
         \/ \E how \in {"panicked", "hung"} : Stops(how)
  PROVE  Flags'
BY DEF Flags, Succeeds, Fails, Stops

\* A call that leaves the table and the lengths alone keeps the invariant.
LEMMA SameTable ==
  ASSUME IInv, UNCHANGED <<FILES, length, sought>>, Flags'
  PROVE  IInv'
<1>1. TableGood' /\ LengthsGood'
  BY Parts DEF TableGood, LengthsGood, LengthsAligned, Exists
<1> QED
  BY <1>1, PartsNext

\* So does one that removes an entry.
LEMMA Removed ==
  ASSUME IInv, NEW fd, FILES' = Remove(FILES, fd), sought' = sought \ {fd},
         UNCHANGED length, Flags'
  PROVE  IInv'
<1>1. TableGood'
  BY Parts DEF TableGood, Remove, Good
<1>2. LengthsGood'
  BY Parts DEF LengthsGood, LengthsAligned, Exists
<1> QED
  BY <1>1, <1>2, PartsNext

\* And one that moves the position of an entry to a place it may have.
LEMMA Moved ==
  ASSUME IInv, NEW fd \in DOMAIN FILES, NEW pos \in Nat,
         FILES' = MoveTo(fd, pos),
         LengthsGood',
         sought \subseteq sought', sought' \subseteq sought \cup {fd},
         \A f \in RegularFiles : Exists(f) => length'[f] # Missing /\ length'[f] >= length[f],
         FILES[fd].kind = "file",
         fd \in sought' \/ pos <= length'[FILES[fd].name],
         Flags'
  PROVE  IInv'
<1>1. /\ DOMAIN FILES' = DOMAIN FILES
      /\ FILES' = [g \in DOMAIN FILES' |-> FILES'[g]]
      /\ FILES'[fd] = [FILES[fd] EXCEPT !.pos = pos]
      /\ \A g \in DOMAIN FILES \ {fd} : FILES'[g] = FILES[g]
  BY Parts, Zenon DEF MoveTo, TableGood
<1>2. Good(fd, FILES'[fd], length', sought')
  <2>1. FILES[fd] \in Resource /\ FILES[fd].name \in RegularFiles /\ length[FILES[fd].name] # Missing
    BY EntriesGood DEF Good
  <2>2. FILES'[fd] \in Resource /\ FILES'[fd].name = FILES[fd].name /\ FILES'[fd].pos = pos
    BY <1>1, <2>1 DEF Resource
  <2> QED
    BY <2>1, <2>2 DEF Good, Exists
<1>3. ASSUME NEW g \in DOMAIN FILES, g # fd
      PROVE  Good(g, FILES'[g], length', sought')
  <2>1. Good(g, FILES[g], length, sought) /\ FILES'[g] = FILES[g]
    BY <1>1, <1>3, EntriesGood
  <2> DEFINE r == FILES[g]
  <2>2. CASE r.kind = "file"
    <3>1. r.name \in RegularFiles /\ length[r.name] # Missing /\ r.pos \in Nat
      BY <2>1, <2>2 DEF Good, Resource
    <3>2. length'[r.name] # Missing /\ length'[r.name] >= length[r.name]
      BY <3>1 DEF Exists
    <3>3. length[r.name] \in Int /\ length'[r.name] \in Int
      BY <3>1, Parts DEF LengthsGood, Missing
    <3>4. g \in sought \/ r.pos <= length[r.name]
      BY <2>1, <2>2 DEF Good
    <3>5. g \in sought' \/ r.pos <= length'[r.name]
      <4> HIDE DEF r
      <4> QED BY <3>1, <3>2, <3>3, <3>4
    <3> QED
      BY <2>1, <3>1, <3>2, <3>5 DEF Good
  <2>3. CASE r.kind # "file"
    BY <2>1, <2>3 DEF Good
  <2> QED
    BY <2>2, <2>3
<1>4. TableGood'
  <2>1. DOMAIN FILES \subseteq Fds /\ sought \subseteq DOMAIN FILES
    BY Parts DEF TableGood
  <2>2. DOMAIN FILES' \subseteq Fds /\ sought' \subseteq DOMAIN FILES'
    BY <1>1, <2>1
  <2> QED
    BY <1>1, <1>2, <1>3, <2>2 DEF TableGood
<1> QED
  BY <1>4, PartsNext

-----------------------------------------------------------------------------
\* ---- the calls, one by one -----------------------------------------------

\* The number of entries is a number, whatever the holes in the table.
LEMMA NextFdNat ==
  ASSUME DOMAIN FILES \subseteq Fds
  PROVE  NextFd(FILES) \in Nat
<1>1. IsFiniteSet(Fds)
  BY FileTableAssumption, FS_Interval DEF Fds
<1>2. IsFiniteSet(DOMAIN FILES)
  BY <1>1, FS_Subset
<1> QED
  BY <1>2, FS_CardinalityType DEF NextFd

\* A new entry is of a regular file that exists, at position 0, or of a path
\* under /proc (service.rs open).
LEMMA NewEntryGood ==
  ASSUME LengthsGood, NEW path, MakesEntry(path),
         NEW flags \in SUBSET {"read", "write", "append", "create", "truncate"},
         NEW fd, NEW seeks
  PROVE  Good(fd, OpenEntry(path, flags), length, seeks)
<1>1. CASE path \in RegularFiles
  <2>1. Exists(path)
    BY <1>1, FileTableAssumption DEF MakesEntry
  <2>2. length[path] \in {Missing} \cup 0 .. MaxLen
    BY <1>1 DEF LengthsGood
  <2>3. length[path] # Missing /\ 0 <= length[path]
    BY <2>1, <2>2, FileTableAssumption DEF Exists, Missing
  <2>4. OpenEntry(path, flags) = Opened("file", path, flags)
    BY <1>1 DEF OpenEntry
  <2> QED
    BY <1>1, <2>3, <2>4 DEF Opened, Good, Resource
<1>2. CASE path \notin RegularFiles
  BY <1>2 DEF MakesEntry, OpenEntry, Opened, Good, Resource
<1> QED
  BY <1>1, <1>2

\* OPEN (service.rs open).
LEMMA OpenInv ==
  ASSUME IInv, NEW path, NEW flags \in FlagSets, Open(path, flags)
  PROVE  IInv'
<1>1. CASE UNCHANGED <<FILES, sought>> /\ (Succeeds \/ Fails(ENOENT))
  BY <1>1, Parts, ReportsKeepFlags, SameTable DEF Open
<1>2. CASE /\ MakesEntry(path)
           /\ NextFd(FILES) \in Fds
           /\ FILES' = Insert(FILES, NextFd(FILES), OpenEntry(path, flags))
           /\ sought' = sought \ {NextFd(FILES)}
           /\ Succeeds
  <2> DEFINE new == NextFd(FILES)
             r == OpenEntry(path, flags)
  <2>1. UNCHANGED length
    BY DEF Open
  <2>2. LengthsGood'
    BY <2>1, Parts DEF LengthsGood, LengthsAligned, Exists
  <2>3. Flags'
    BY <1>2, Parts, ReportsKeepFlags
  <2>4. Good(new, r, length', sought')
    <3>1. Good(new, r, length, sought')
      BY <1>2, Parts, NewEntryGood, FileTableAssumption
    <3> QED
      BY <2>1, <3>1
  <2>5. /\ DOMAIN FILES' = DOMAIN FILES \cup {new}
        /\ FILES' = [i \in DOMAIN FILES' |-> FILES'[i]]
        /\ FILES'[new] = r
        /\ \A i \in DOMAIN FILES \ {new} : FILES'[i] = FILES[i]
    BY <1>2 DEF Insert
  <2>6. TableGood
    BY Parts
  <2>7. \A i \in DOMAIN FILES \ {new} : Good(i, FILES'[i], length', sought')
    BY <1>2, <2>1, <2>5, <2>6 DEF TableGood, Good
  <2>8. DOMAIN FILES' \subseteq Fds /\ sought' \subseteq DOMAIN FILES'
    BY <1>2, <2>5, <2>6 DEF TableGood
  <2>9. TableGood'
    <3> HIDE DEF new, r
    <3> QED BY <2>4, <2>5, <2>7, <2>8 DEF TableGood
  <2> QED
    BY <2>2, <2>3, <2>9, PartsNext
<1> QED
  BY <1>1, <1>2 DEF Open

\* CLOSE (service.rs close).
LEMMA CloseInv ==
  ASSUME IInv, NEW fd, Close(fd)
  PROVE  IInv'
<1>1. Flags'
  BY Parts, ReportsKeepFlags DEF Close
<1> QED
  BY <1>1, Removed DEF Close

\* READ moves the position by what the file has left at most
\* (io.rs FileHandle::read).
LEMMA ReadInv ==
  ASSUME IInv, NEW fd, NEW n \in Sizes, Read(fd, n)
  PROVE  IInv'
<1>1. UNCHANGED <<length, sought>>
  BY DEF Read
<1>2. Flags'
  BY Parts, ReportsKeepFlags DEF Read, ReadFile, ReadDevice, ReadProc
<1>3. CASE UNCHANGED FILES
  BY <1>1, <1>2, <1>3, SameTable
<1>4. CASE /\ fd \in DOMAIN FILES /\ FILES[fd].kind = "file"
           /\ length[FILES[fd].name] - FILES[fd].pos >= 0
           /\ FILES' = MoveTo(fd, FILES[fd].pos
                              + Transferred(n, length[FILES[fd].name] - FILES[fd].pos))
  <2> DEFINE len == length[FILES[fd].name]
             pos == FILES[fd].pos
             to == pos + Transferred(n, len - pos)
  <2>1. Good(fd, FILES[fd], length, sought)
    BY <1>4, EntriesGood
  <2>2. FILES[fd].name \in RegularFiles /\ pos \in Nat
    BY <1>4, <2>1 DEF Good, Resource
  <2>3. len \in Int /\ n \in Nat
    BY <2>2, Parts, FileTableAssumption DEF LengthsGood, Missing
  <2>4. len - pos >= 0
    BY <1>4
  <2>5. to \in Nat /\ to <= len
    <3> HIDE DEF len, pos
    <3> QED BY <2>2, <2>3, <2>4 DEF Transferred
  <2>6. LengthsGood'
    BY <1>1, Parts DEF LengthsGood, LengthsAligned, Exists
  <2>7. \A f \in RegularFiles : Exists(f) => length'[f] # Missing /\ length'[f] >= length[f]
    BY <1>1, Parts DEF Exists, LengthsGood, Missing
  <2>8. FILES' = MoveTo(fd, to)
    BY <1>4
  <2>9. to <= length'[FILES[fd].name]
    BY <1>1, <2>5
  <2> HIDE DEF to
  <2> QED
    BY <1>1, <1>2, <1>4, <2>5, <2>6, <2>7, <2>8, <2>9, Moved
<1> QED
  BY <1>3, <1>4 DEF Read, ReadFile, ReadDevice, ReadProc

\* WRITE (io.rs FileHandle::write, fs.rs write_file).
LEMMA WriteInv ==
  ASSUME IInv, NEW fd, NEW n \in Sizes, Write(fd, n)
  PROVE  /\ IInv'
         /\ \A f \in RegularFiles : Exists(f) => length'[f] >= length[f]
<1>1. UNCHANGED sought
  BY DEF Write
<1>2. Flags'
  BY Parts, ReportsKeepFlags DEF Write, WriteFile, WriteOther
<1>3. CASE UNCHANGED <<FILES, length>>
  BY <1>1, <1>2, <1>3, SameTable, Parts DEF LengthsGood, Missing
<1>4. CASE /\ fd \in DOMAIN FILES /\ FILES[fd].kind = "file"
           /\ LengthAfterWrite(length[FILES[fd].name], FILES[fd].pos, n) <= MaxLen
           /\ length' = [length EXCEPT ![FILES[fd].name] =
                           LengthAfterWrite(length[FILES[fd].name], FILES[fd].pos, n)]
           /\ FILES' = MoveTo(fd, FILES[fd].pos + n)
  <2> DEFINE name == FILES[fd].name
             len == length[name]
             pos == FILES[fd].pos
             new == LengthAfterWrite(len, pos, n)
  <2>1. Good(fd, FILES[fd], length, sought)
    BY <1>4, EntriesGood
  <2>2. name \in RegularFiles /\ pos \in Nat /\ len # Missing
    BY <1>4, <2>1 DEF Good, Resource
  <2>3. len \in Nat /\ n \in Nat /\ MaxLen \in Nat
    BY <2>2, Parts, FileTableAssumption DEF LengthsGood, Missing
  <2>4. new \in Nat /\ new >= len /\ new >= pos + n /\ new % BlockSize = 0 /\ new <= MaxLen
    BY <1>4, <2>2, <2>3, LengthAfterWriteFacts, Zenon
  <2>5. length \in [RegularFiles -> {Missing} \cup 0 .. MaxLen] /\ LengthsAligned
    BY Parts DEF LengthsGood
  <2>6. length' = [length EXCEPT ![name] = new] /\ FILES' = MoveTo(fd, pos + n)
    BY <1>4
  <2>7. pos + n \in Nat
    BY <2>2, <2>3
  <2> HIDE DEF name, len, pos, new
  <2>8. /\ length' \in [RegularFiles -> {Missing} \cup 0 .. MaxLen]
        /\ length'[name] = new
        /\ \A f \in RegularFiles \ {name} : length'[f] = length[f]
    BY <2>2, <2>3, <2>4, <2>5, <2>6
  <2>9. LengthsGood'
    BY <2>4, <2>5, <2>8 DEF LengthsGood, LengthsAligned, Exists
  <2>10. \A f \in RegularFiles : Exists(f) => length'[f] # Missing /\ length'[f] >= length[f]
    <3>1. new # Missing /\ length[name] = len
      BY <2>4 DEF Missing, len
    <3>2. \A f \in RegularFiles : length[f] \in Int
      BY <2>5 DEF Missing
    <3> QED
      BY <2>4, <2>8, <3>1, <3>2 DEF Exists
  <2>11. pos + n <= length'[FILES[fd].name]
    BY <2>4, <2>2, <2>3, <2>8 DEF name
  <2> QED
    BY <1>1, <1>2, <1>4, <2>6, <2>7, <2>9, <2>10, <2>11, Moved
<1> QED
  BY <1>3, <1>4 DEF Write, WriteFile, WriteOther

\* SEEK, which may put a position anywhere and is remembered for it
\* (io.rs FileHandle::seek).
LEMMA SeekInv ==
  ASSUME IInv, NEW fd, NEW pos \in Positions, Seek(fd, pos)
  PROVE  IInv'
<1>1. UNCHANGED length
  BY DEF Seek
<1>2. Flags'
  BY Parts, ReportsKeepFlags DEF Seek
<1>3. CASE UNCHANGED <<FILES, sought>>
  BY <1>1, <1>2, <1>3, SameTable
<1>4. CASE /\ fd \in DOMAIN FILES /\ FILES[fd].kind = "file"
           /\ FILES' = MoveTo(fd, pos) /\ sought' = sought \cup {fd}
  <2>1. LengthsGood'
    BY <1>1, Parts DEF LengthsGood, LengthsAligned, Exists
  <2>2. \A f \in RegularFiles : Exists(f) => length'[f] # Missing /\ length'[f] >= length[f]
    BY <1>1, Parts DEF Exists, LengthsGood, Missing
  <2>3. pos \in Nat
    BY FileTableAssumption
  <2> QED
    BY <1>2, <1>4, <2>1, <2>2, <2>3, Moved
<1> QED
  BY <1>3, <1>4 DEF Seek

\* POLL and FLUSH change no entry and no length.
LEMMA PollInv ==
  ASSUME IInv, NEW fd, NEW event, Poll(fd, event)
  PROVE  IInv'
BY Parts, ReportsKeepFlags, SameTable DEF Poll

LEMMA FlushInv ==
  ASSUME IInv, NEW fd, Flush(fd)
  PROVE  IInv'
BY Parts, ReportsKeepFlags, SameTable DEF Flush

\* EXEC leaves an entry less, or the table as it was (service.rs spawn).
LEMMA ExecInv ==
  ASSUME IInv, NEW path, Exec(path)
  PROVE  IInv'
<1> DEFINE fd == IF path \in DeviceNames THEN DeviceFd(path) ELSE NextFd(FILES)
<1>1. UNCHANGED length /\ Flags'
  BY Parts, ReportsKeepFlags DEF Exec
<1>2. \/ FILES' = Remove(FILES, fd) /\ sought' = sought \ {fd}
      \/ UNCHANGED <<FILES, sought>>
  BY DEF Exec
<1> HIDE DEF fd
<1> QED
  BY <1>1, <1>2, Removed, SameTable

-----------------------------------------------------------------------------
\* ---- the theorems --------------------------------------------------------

LEMMA InitIInv == Init => IInv
<1> SUFFICES ASSUME Init PROVE IInv
  OBVIOUS
<1>1. NumDevices \in Nat /\ DOMAIN Devices = 1 .. NumDevices
  BY FileTableAssumption DEF NumDevices
<1>2. ASSUME NEW fd \in 0 .. NumDevices - 1
      PROVE  Good(fd, Opened("device", Devices[fd + 1], {}), length, sought)
  <2>1. fd + 1 \in 1 .. NumDevices
    BY <1>1
  <2>2. Devices[fd + 1] \in DeviceNames
    BY <2>1 DEF DeviceNames
  <2> QED
    BY <2>2 DEF Good, Opened, Resource
<1>3. TableGood
  <2>1. 0 .. NumDevices - 1 \subseteq Fds
    BY <1>1, FileTableAssumption DEF Fds
  <2> QED
    BY <1>2, <2>1 DEF Init, TableGood
<1>4. LengthsGood
  <2>1. BlockSize \in 0 .. MaxLen /\ BlockSize % BlockSize = 0
    BY FileTableAssumption
  <2> QED
    BY <2>1 DEF Init, LengthsGood, LengthsAligned, Exists
<1>5. Flags
  BY DEF Init, Flags
<1> QED
  BY <1>3, <1>4, <1>5, Parts

\* Every call keeps the invariant.
LEMMA NextIInv == IInv /\ [Next]_vars => IInv'
<1> SUFFICES ASSUME IInv, [Next]_vars PROVE IInv'
  OBVIOUS
<1>1. CASE UNCHANGED vars
  <2>1. Flags'
    BY <1>1, Parts DEF vars, Flags
  <2> QED
    BY <1>1, <2>1, SameTable DEF vars
<1>2. CASE Next
  BY <1>2, OpenInv, CloseInv, ReadInv, WriteInv, SeekInv, PollInv, FlushInv, ExecInv DEF Next
<1> QED
  BY <1>1, <1>2

\* The inductive invariant holds of every reachable table and disk.
THEOREM TableInvariance == Spec => []IInv
BY InitIInv, NextIInv, PTL DEF Spec

\* The table maps descriptors below the bound to well-formed resources and
\* every length fits the disk (service.rs FILES).
THEOREM TableTypeCorrect == Spec => []TypeOK
<1>1. IInv => TypeOK
  BY DEF IInv
<1> QED
  BY <1>1, TableInvariance, PTL

\* Without a SEEK on it no descriptor's position is past the end of its file,
\* so the subtraction in FileHandle::read cannot underflow, whatever other
\* descriptors of the file do.
THEOREM PositionsStayInside == Spec => []PositionsWithinFile
<1>1. IInv => PositionsWithinFile
  BY DEF IInv
<1> QED
  BY <1>1, TableInvariance, PTL

\* The comment "we know data will be a multiple of 512 bytes" of
\* FileHandle::read holds for every block size and after any calls.
THEOREM LengthsStayAligned == Spec => []LengthsAligned
<1>1. IInv => LengthsAligned
  BY DEF IInv
<1> QED
  BY <1>1, TableInvariance, PTL

\* In a table without holes the next descriptor is a new one.
LEMMA DenseNextFree ==
  ASSUME IInv, Dense
  PROVE  NextFd(FILES) \notin DOMAIN FILES
<1>1. NextFd(FILES) \in Nat
  BY Parts, NextFdNat DEF TableGood
<1> QED
  BY <1>1 DEF Dense, NextFd

\* Moving a position leaves every entry what it was.
LEMMA MovesKeepEntries ==
  ASSUME IInv, NEW fd \in DOMAIN FILES, NEW pos, FILES' = MoveTo(fd, pos),
         NEW g \in DOMAIN FILES
  PROVE  SameEntry(g)
<1>1. FILES[fd] \in Resource
  BY DEF IInv, TypeOK
<1>2. FILES'[fd] = [FILES[fd] EXCEPT !.pos = pos] /\ g \in DOMAIN FILES'
  BY DEF MoveTo
<1>3. CASE g = fd
  BY <1>1, <1>2, <1>3 DEF SameEntry, Resource
<1>4. CASE g # fd
  BY <1>4 DEF SameEntry, MoveTo
<1> QED
  BY <1>3, <1>4

\* While the descriptors in use are 0 .. n - 1, a call disturbs none but the
\* one it closes, or the device it was asked to run (service.rs open, spawn).
THEOREM DenseTablesSafe == Spec => DenseKeepsDescriptors
<1> DEFINE Kept(fd) == \/ SameEntry(fd)
                       \/ Close(fd)
                       \/ \E d \in DeviceNames : fd = DeviceFd(d) /\ Exec(d)
           A == Dense => \A fd \in DOMAIN FILES : Kept(fd)
<1>1. IInv /\ [Next]_vars => [A]_vars
  <2> SUFFICES ASSUME IInv, Next, Dense, NEW fd \in DOMAIN FILES PROVE Kept(fd)
    OBVIOUS
  <2>1. CASE UNCHANGED FILES
    BY <2>1 DEF SameEntry
  <2>2. CASE \E path \in Paths, flags \in FlagSets : Open(path, flags)
    <3>1. PICK path \in Paths, flags \in FlagSets : Open(path, flags)
      BY <2>2
    <3>2. CASE FILES' = Insert(FILES, NextFd(FILES), OpenEntry(path, flags))
      BY <3>2, DenseNextFree DEF Insert, SameEntry
    <3> QED
      BY <2>1, <3>1, <3>2 DEF Open
  <2>3. CASE \E g \in Fds : Close(g)
    <3>1. PICK g \in Fds : Close(g)
      BY <2>3
    <3>2. CASE g = fd
      BY <3>1, <3>2
    <3>3. CASE g # fd
      BY <3>1, <3>3 DEF Close, Remove, SameEntry
    <3> QED
      BY <3>2, <3>3
  <2>4. CASE \E g \in DOMAIN FILES : \E pos : FILES' = MoveTo(g, pos)
    BY <2>4, MovesKeepEntries
  <2>5. CASE \E path \in Paths : Exec(path)
    <3>1. PICK path \in Paths : Exec(path)
      BY <2>5
    <3>2. CASE path \in DeviceNames /\ fd = DeviceFd(path)
      BY <3>1, <3>2
    <3>3. CASE path \in DeviceNames /\ fd # DeviceFd(path)
      BY <3>1, <3>3 DEF Exec, Remove, SameEntry
    <3>4. CASE path \notin DeviceNames
      BY <3>1, <3>4, DenseNextFree DEF Exec, Remove, SameEntry
    <3> QED
      BY <3>2, <3>3, <3>4
  <2> HIDE DEF Kept
  <2>6. CASE \E g \in Fds, n \in Sizes : Read(g, n)
    BY <2>1, <2>4, <2>6 DEF Read, ReadFile, ReadDevice, ReadProc
  <2>7. CASE \E g \in Fds, n \in Sizes : Write(g, n)
    BY <2>1, <2>4, <2>7 DEF Write, WriteFile, WriteOther
  <2>8. CASE \E g \in Fds, pos \in Positions : Seek(g, pos)
    BY <2>1, <2>4, <2>8 DEF Seek
  <2> QED
    BY <2>1, <2>2, <2>3, <2>5, <2>6, <2>7, <2>8 DEF Next, Poll, Flush
<1> QED
  BY <1>1, TableInvariance, PTL DEF Spec, DenseKeepsDescriptors
=============================================================================
