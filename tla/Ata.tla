-------------------------------- MODULE Ata ---------------------------------
(***************************************************************************)
(* The disk driver (kernel/src/internal/ata.rs) and the drives behind it:  *)
(* two buses of two drives, one status and one drive register per bus.     *)
(* Drives work on their own, finish a write after the driver has returned, *)
(* and may fail; the driver polls.  init probes all four places, then the  *)
(* kernel reads and writes sectors, first at boot, where timer interrupts  *)
(* count towards the time-out of poll, then in system calls, where         *)
(* interrupts are masked and the time-out never comes.  A logged error     *)
(* panics (SerialLogger), so no error return follows one.                  *)
(***************************************************************************)
EXTENDS Integers, Sequences, Functions

CONSTANTS
  Machines,    \* the sets of places <<bus, dsk>> that may have a drive
  BlockCount,  \* the size the drive at each place reports
  Blocks,      \* sectors
  Values,      \* what a sector may hold
  MaxFaults    \* bound: failures and delays of drives

Buses == {0, 1}
Places == Buses \X {0, 1}

ASSUME AtaAssumption ==
  /\ Machines \subseteq SUBSET Places
  /\ BlockCount \in [Places -> Nat \ {0}]
  /\ MaxFaults \in Nat

VARIABLES
  dev,             \* per drive: status bits, the command it works on, its operands
  media,           \* per drive: its sectors
  drive_register,  \* per bus: the drive selected
  LAST_SELECTED,   \* <<bus, dsk>>, or <<>> at first
  pc, req,         \* where the driver is, and for what request
  probe, found,    \* init: the call of Drive::open it has come to; the list so far
  masked,          \* interrupts are off: a system call
  reply,           \* what the last request returned
  faults,          \* failures, and delays of more than a second, so far
  acked, lost      \* history: the last write to each sector that returned Ok,
                   \* and the sectors where the drive then failed to store it

drives == <<dev, media, faults, lost>>
registers == <<drive_register, LAST_SELECTED>>
boot == <<probe, found, masked>>
vars == <<drives, registers, pc, req, boot, reply, acked>>

NoReply == [cmd |-> "none", ok |-> FALSE, val |-> 0]
Commands == {"Identify", "Read", "Write"}
Idle == [bits |-> {}, cmd |-> "none", block |-> 0, val |-> 0]

\* The places with a drive.
Present == DOMAIN dev

Init ==
  /\ \E m \in Machines : dev = [p \in m |-> Idle]
  /\ media = [p \in Present |-> [b \in Blocks |-> 0]]
  /\ drive_register = [b \in Buses |-> 0]
  /\ LAST_SELECTED = <<>>
  /\ pc = "idle" /\ req = [cmd |-> "none", place |-> <<0, 0>>, block |-> 0, val |-> 0]
  /\ probe = 0 /\ found = <<>>
  /\ masked = FALSE
  /\ reply = NoReply
  /\ faults = 0
  /\ acked = media /\ lost = {}

-----------------------------------------------------------------------------
(* The drives.                                                              *)

\* The alternate status register of a bus: all ones when nothing drives the
\* bus, zero when the selected drive does not exist.
Status(bus) ==
  LET p == <<bus, drive_register[bus]>>
  IN  IF p \in Present THEN dev[p].bits \cup {"DRDY"}
      ELSE IF \E q \in Present : q[1] = bus THEN {}
      ELSE {"BSY", "DRDY", "DRQ", "ERR"}

Busy(p) == "BSY" \in dev[p].bits /\ dev[p].cmd # "hung"

\* A drive is ready to transfer, or has stored the sector it was given.
Finish(p) ==
  /\ Busy(p)
  /\ IF dev[p].cmd = "Store"
     THEN /\ dev' = [dev EXCEPT ![p] = Idle]
          /\ media' = [media EXCEPT ![p][dev[p].block] = dev[p].val]
          /\ lost' = lost \ {<<p, dev[p].block>>}
     ELSE /\ dev' = [dev EXCEPT ![p].bits = {"DRQ"}]
          /\ UNCHANGED <<media, lost>>
  /\ UNCHANGED <<faults, registers, pc, req, boot, reply, acked>>

\* A drive reports an error; with a read it may offer (useless) data as well.
Fail(p) ==
  /\ Busy(p) /\ faults < MaxFaults
  /\ faults' = faults + 1
  /\ \E bits \in {{"ERR"}} \cup (IF dev[p].cmd = "Read" THEN {{"ERR", "DRQ"}} ELSE {}) :
       dev' = [dev EXCEPT ![p].bits = bits]
  /\ lost' = IF dev[p].cmd = "Store" THEN lost \cup {<<p, dev[p].block>>} ELSE lost
  /\ UNCHANGED <<media, registers, pc, req, boot, reply, acked>>

\* A drive stays busy for ever.
Hang(p) ==
  /\ Busy(p) /\ faults < MaxFaults
  /\ faults' = faults + 1
  /\ dev' = [dev EXCEPT ![p].cmd = "hung"]
  /\ lost' = IF dev[p].cmd = "Store" THEN lost \cup {<<p, dev[p].block>>} ELSE lost
  /\ UNCHANGED <<media, registers, pc, req, boot, reply, acked>>

-----------------------------------------------------------------------------
(* The driver.                                                              *)

bus == req.place[1]
dsk == req.place[2]

\* The place of the n-th call of Drive::open in list: bus by bus.
Nth(n) == << (n % 4) \div 2, n % 2 >>

\* likely_disk: the first of the drives found that have the most blocks.
LikelyDisk ==
  found[CHOOSE i \in 1 .. Len(found) :
          /\ \A j \in 1 .. Len(found) : BlockCount[found[j]] <= BlockCount[found[i]]
          /\ \A j \in 1 .. i - 1 : BlockCount[found[j]] < BlockCount[found[i]]]

\* Mutant: the second list is appended to the first.
OpenedAppends(p, ok) ==
  /\ reply' = NoReply
  /\ IF probe = 8 /\ ~ ok
     THEN pc' = "panicked" /\ UNCHANGED <<probe, found>>
     ELSE /\ pc' = "idle"
          /\ probe' = probe + 1
          /\ found' = IF ok THEN Append(found, p) ELSE found

\* Drive::open returns: list goes on, or init unwraps the drive it prints.
Opened(p, ok) ==
  /\ reply' = NoReply
  /\ IF probe = 8 /\ ~ ok
     THEN pc' = "panicked" /\ UNCHANGED <<probe, found>>
     ELSE /\ pc' = "idle"
          /\ probe' = probe + 1
          /\ found' = IF probe = 3 \/ probe = 8 THEN <<>>
                      ELSE IF ok THEN Append(found, p) ELSE found

\* init calls Drive::open: twice for the whole list, then for the likely disk.
Open ==
  /\ pc = "idle" /\ probe < 9
  /\ LET p == IF probe < 8 THEN Nth(probe) ELSE LikelyDisk
     IN  IF probe = 8 /\ found = <<>>
         THEN probe' = 9 /\ UNCHANGED <<pc, req, found, reply>>
         ELSE /\ req' = [cmd |-> "Identify", place |-> p, block |-> 0, val |-> 0]
              /\ IF Status(p[1]) = {"BSY", "DRDY", "DRQ", "ERR"}   \* check_floating_bus
                 THEN Opened(p, FALSE)
                 ELSE pc' = "select" /\ reply' = NoReply /\ UNCHANGED <<probe, found>>
  /\ UNCHANGED <<drives, registers, masked, acked>>

\* A call of read or write; the file system is at <<0, 1>>, drive or not.
Request(cmd, p, b, v) ==
  /\ pc = "idle" /\ probe = 9
  /\ req' = [cmd |-> cmd, place |-> p, block |-> b, val |-> v]
  /\ reply' = NoReply
  /\ pc' = "select"
  /\ UNCHANGED <<drives, registers, boot, acked>>

\* The first process starts: from now on requests come from system calls.
StartProcesses ==
  /\ pc = "idle" /\ probe = 9 /\ ~ masked
  /\ masked' = TRUE
  /\ UNCHANGED <<drives, registers, pc, req, probe, found, reply, acked>>

\* poll(BSY, false) and poll(DRQ, false).
Settled == {"BSY", "DRQ"} \cap Status(bus) = {}

\* Mutant: the shortcut comes before the polls.
ShortcutFirst ==
  /\ pc = "select"
  /\ IF LAST_SELECTED = req.place
     THEN pc' = "params" /\ UNCHANGED registers
     ELSE /\ Settled
          /\ LAST_SELECTED' = req.place
          /\ drive_register' = [drive_register EXCEPT ![bus] = dsk]
          /\ pc' = "selected"
  /\ UNCHANGED <<drives, req, boot, reply, acked>>

\* select_drive: its first two polls, which see the drive selected before, the
\* shortcut, and the switch to another drive.
SelectDrive ==
  /\ pc = "select" /\ Settled
  /\ IF LAST_SELECTED = req.place
     THEN pc' = "params" /\ UNCHANGED registers
     ELSE /\ LAST_SELECTED' = req.place
          /\ drive_register' = [drive_register EXCEPT ![bus] = dsk]
          /\ pc' = "selected"
  /\ UNCHANGED <<drives, req, boot, reply, acked>>

\* The last two polls of select_drive.
AwaitSelected ==
  /\ pc = "selected" /\ Settled
  /\ pc' = "params"
  /\ UNCHANGED <<drives, registers, req, boot, reply, acked>>

\* Mutant: the parameters select drive 0.
ParamsDropDrive ==
  /\ pc = "params"
  /\ drive_register' = [drive_register EXCEPT ![bus] = 0]
  /\ LET p == <<bus, 0>>
     IN  dev' = IF p \notin Present \/ "BSY" \in dev[p].bits THEN dev
                ELSE [dev EXCEPT ![p] = [bits |-> {"BSY"}, cmd |-> req.cmd,
                                         block |-> req.block, val |-> 0]]
  /\ pc' = "issued"
  /\ UNCHANGED <<media, faults, lost, LAST_SELECTED, req, boot, reply, acked>>

\* write_command_params and the first line of write_command.  A busy drive
\* would take no command.
WriteCommand ==
  /\ pc = "params"
  /\ drive_register' = [drive_register EXCEPT ![bus] = dsk]
  /\ LET p == req.place
     IN  dev' = IF p \notin Present \/ "BSY" \in dev[p].bits THEN dev
                ELSE [dev EXCEPT ![p] = [bits |-> {"BSY"}, cmd |-> req.cmd,
                                         block |-> req.block, val |-> 0]]
  /\ pc' = "issued"
  /\ UNCHANGED <<media, faults, lost, LAST_SELECTED, req, boot, reply, acked>>

\* A request returns Err, or identify_drive finds no drive.
ReturnErr ==
  /\ IF req.cmd = "Identify" THEN Opened(req.place, FALSE)
     ELSE /\ reply' = [cmd |-> req.cmd, ok |-> FALSE, val |-> 0]
          /\ pc' = "idle"
          /\ UNCHANGED <<probe, found>>
  /\ UNCHANGED <<drives, registers, req, masked, acked>>

\* Mutant: a drive that does not exist is polled.
CheckErrorOnly ==
  /\ pc = "issued"
  /\ IF "ERR" \in Status(bus) THEN ReturnErr
     ELSE pc' = "poll" /\ UNCHANGED <<drives, registers, req, boot, reply, acked>>

\* write_command: the drive may not exist or may have failed already.
CheckIssued ==
  /\ pc = "issued"
  /\ IF Status(bus) = {} \/ "ERR" \in Status(bus) THEN ReturnErr
     ELSE pc' = "poll" /\ UNCHANGED <<drives, registers, req, boot, reply, acked>>

\* Mutant: the drive is not polled for the data of a read.
ReadNotAwaited ==
  /\ pc = "poll"
  /\ req.cmd # "Read" => "BSY" \notin Status(bus) /\ "DRQ" \in Status(bus)
  /\ pc' = "data"
  /\ UNCHANGED <<drives, registers, req, boot, reply, acked>>

\* poll(BSY, false) and poll(DRQ, true).
AwaitData ==
  /\ pc = "poll"
  /\ "BSY" \notin Status(bus) /\ "DRQ" \in Status(bus)
  /\ pc' = "data"
  /\ UNCHANGED <<drives, registers, req, boot, reply, acked>>

\* The loop over the 256 words of a sector, or of the answer to Identify.
Transfer ==
  LET p == req.place
      valid == dev[p].bits = {"DRQ"}
  IN  /\ pc = "data"
      /\ IF req.cmd = "Identify" THEN Opened(p, TRUE)
         ELSE /\ pc' = "check"
              /\ \E v \in Values :
                   /\ req.cmd = "Read" /\ valid => v = media[p][dev[p].block]
                   /\ reply' = [cmd |-> req.cmd, ok |-> TRUE, val |-> v]
              /\ UNCHANGED <<probe, found>>
      /\ dev' = IF ~ valid THEN [dev EXCEPT ![p].bits = @ \ {"DRQ"}]
                ELSE IF req.cmd = "Write"
                THEN [dev EXCEPT ![p].bits = {"BSY"}, ![p].cmd = "Store", ![p].val = req.val]
                ELSE [dev EXCEPT ![p] = Idle]
      /\ UNCHANGED <<media, faults, lost, registers, req, masked, acked>>

\* is_error at the end of read and write.
CheckData ==
  /\ pc = "check"
  /\ IF "ERR" \in Status(bus)
     THEN pc' = "panicked" /\ UNCHANGED acked
     ELSE /\ pc' = "idle"
          /\ acked' = IF req.cmd = "Read" THEN acked
                      ELSE [acked EXCEPT ![req.place][req.block] = req.val]
  /\ UNCHANGED <<drives, registers, req, boot, reply>>

\* The driver is in the loop of poll.
Polling ==
  \/ pc \in {"select", "selected"} /\ ~ Settled
  \/ pc = "poll" /\ ~ ("BSY" \notin Status(bus) /\ "DRQ" \in Status(bus))

\* What poll waits for will not come: nothing is at work on it.
Stuck ==
  /\ Polling
  /\ ~ (<<bus, drive_register[bus]>> \in Present /\ Busy(<<bus, drive_register[bus]>>))

\* Mutant: poll never gives up.
NoTimeout == FALSE /\ UNCHANGED vars

\* poll gives up after a second of timer interrupts.  With interrupts masked
\* the timer stands still.
Timeout ==
  /\ Stuck /\ ~ masked
  /\ pc' = "panicked"
  /\ UNCHANGED <<drives, registers, req, boot, reply, acked>>

\* It also gives up on a drive that works but takes more than a second, which
\* counts as a fault of the drive.
TimeoutSlow ==
  /\ Polling /\ ~ Stuck /\ ~ masked
  /\ faults < MaxFaults /\ faults' = faults + 1
  /\ pc' = "panicked"
  /\ UNCHANGED <<dev, media, lost, registers, req, boot, reply, acked>>

Driver ==
  \/ Open \/ SelectDrive \/ AwaitSelected \/ WriteCommand \/ CheckIssued
  \/ AwaitData \/ Transfer \/ CheckData \/ Timeout

Next ==
  \/ Driver
  \/ \E p \in Present : Finish(p) \/ Fail(p) \/ Hang(p)
  \/ TimeoutSlow
  \/ \E p \in Present \cup {<<0, 1>>}, b \in Blocks :
       \/ Request("Read", p, b, 0)
       \/ \E v \in Values : Request("Write", p, b, v)
  \/ StartProcesses

\* The processor goes on, and a drive that is not broken finishes.
Spec ==
  /\ Init /\ [][Next]_vars
  /\ WF_vars(Driver)
  /\ \A p \in Places : WF_vars(p \in Present /\ Finish(p))

-----------------------------------------------------------------------------
\* Types: the list of drives has at most four entries, all of real drives.
TypeOK ==
  /\ \A p \in Present :
       /\ dev[p].bits \subseteq {"BSY", "DRQ", "ERR"}
       /\ dev[p].cmd \in Commands \cup {"Store", "hung", "none"}
       /\ dev[p].block \in Blocks \cup {0}
  /\ drive_register \in [Buses -> {0, 1}]
  /\ LAST_SELECTED \in Places \cup {<<>>}
  /\ pc \in {"idle", "select", "selected", "params", "issued", "poll", "data", "check",
             "panicked"}
  /\ probe \in 0 .. 9 /\ Len(found) <= 4 /\ Range(found) \subseteq Present
  /\ faults \in 0 .. MaxFaults

\* A read that returns Ok has the value of the last write to that sector of
\* that drive that returned Ok, whatever other drives were used in between,
\* unless the drive failed to store it after write had returned.
ReadsLastWrite ==
  pc = "idle" /\ reply.cmd = "Read" /\ reply.ok /\ <<req.place, req.block>> \notin lost
    => reply.val = acked[req.place][req.block]

\* The drive of LAST_SELECTED is the one its bus has selected: the shortcut in
\* select_drive, and its two polls, are about the right drive.
SelectionCached ==
  LAST_SELECTED # <<>> => drive_register[LAST_SELECTED[1]] = LAST_SELECTED[2]

\* As long as no drive fails, hangs or keeps a poll waiting for more than a
\* second the driver does not panic, also at places without a drive and on a
\* second bus without any.  (On a first bus without any drive
\* the file system's read of <<0, 1>> polls a floating bus until it panics.)
PanicNeedsFault ==
  pc = "panicked" => faults > 0

\* A command is only written to a drive that is not busy and has no data
\* waiting, also when the last command to it was a write that is still being
\* stored.
CommandsToReadyDrives ==
  [][pc = "params" /\ pc' = "issued" =>
       (req.place \in Present => {"BSY", "DRQ"} \cap dev[req.place].bits = {})]_vars

\* Every request ends, if need be by a panic; only in a system call, where
\* poll has no time-out, a broken drive blocks it for ever.
RequestsEnd ==
  (pc \notin {"idle", "panicked"}) ~> (pc \in {"idle", "panicked"} \/ (masked /\ Stuck))
=============================================================================
