------------------------------ MODULE AtaProofs ------------------------------
(***************************************************************************)
(* Proofs about the disk driver, for any number of sectors, values and     *)
(* drive failures and any set of drives.                                   *)
(*                                                                         *)
(* The driver and the drives share status bits without a lock.  What makes *)
(* them safe is that a drive changes them only while it is busy, and the   *)
(* driver writes a command only to a drive it has seen settle.  The        *)
(* inductive invariant spells that out per program point (Phases), adds    *)
(* what a sector will hold once the drive has stored it (Stores), and what *)
(* the buffer of a read holds (Replies).                                   *)
(***************************************************************************)
EXTENDS Ata, SequenceTheorems, TLAPS

Device ==
  [bits : SUBSET {"BSY", "DRQ", "ERR"}, cmd : Commands \cup {"Store", "hung", "none"},
   block : Blocks \cup {0}, val : Values \cup {0}]
Sectors == [Blocks -> Values \cup {0}]

PastSelect == {"selected", "params", "issued", "poll", "data", "check"}

Types ==
  /\ Present \subseteq Places
  /\ dev \in [Present -> Device]
  /\ media \in [Present -> Sectors] /\ acked \in [Present -> Sectors]
  /\ drive_register \in [Buses -> {0, 1}]
  /\ LAST_SELECTED \in Places \cup {<<>>}
  /\ pc \in PastSelect \cup {"idle", "select", "panicked"}
  /\ req \in [cmd : Commands \cup {"none"}, place : Places, block : Blocks \cup {0},
              val : Values \cup {0}]
  /\ probe \in 0 .. 9 /\ found \in Seq(Present)
  /\ Len(found) <= (IF probe < 4 THEN probe ELSE IF probe < 9 THEN probe - 4 ELSE 0)
  /\ faults \in 0 .. MaxFaults

\* What is known at each program point of the driver.
Phases ==
  /\ pc \notin {"idle", "panicked"} =>
       /\ req.cmd \in Commands
       /\ req.cmd = "Identify" <=> probe # 9
       /\ req.cmd # "Identify" => req.block \in Blocks
       /\ probe = 8 => req.place \in Present
  /\ pc \in PastSelect => LAST_SELECTED = req.place
  /\ pc \in {"poll", "data", "check"} => req.place \in Present
  /\ pc = "check" => req.cmd # "Identify"
  /\ pc = "params" /\ req.place \in Present =>
       {"BSY", "DRQ"} \cap dev[req.place].bits = {}
  /\ pc \in {"issued", "poll", "data"} /\ req.place \in Present =>
       dev[req.place].cmd \in {req.cmd, "hung"} /\ dev[req.place].block = req.block
  /\ pc = "data" => "BSY" \notin dev[req.place].bits /\ "DRQ" \in dev[req.place].bits
  /\ \A p \in Present :
       /\ {"ERR", "DRQ"} \subseteq dev[p].bits => dev[p].cmd = "Read"
       /\ dev[p].cmd = "hung" => "BSY" \in dev[p].bits
       /\ "BSY" \in dev[p].bits => dev[p].bits = {"BSY"}
       /\ dev[p].cmd = "Store" => dev[p].block \in Blocks

\* What a sector should hold: the write that is about to return Ok counts.
Target(p, b) ==
  IF pc = "check" /\ req.cmd = "Write" /\ p = req.place /\ b = req.block
  THEN req.val ELSE acked[p][b]

Storing(p) == dev[p].cmd = "Store" /\ "BSY" \in dev[p].bits

Stores ==
  pc # "panicked" =>
    \A p \in Present :
      /\ Storing(p) => dev[p].val = Target(p, dev[p].block)
      /\ \A b \in Blocks :
           <<p, b>> \notin lost /\ ~ (Storing(p) /\ dev[p].block = b)
             => media[p][b] = Target(p, b)

Replies ==
  /\ pc = "check" => reply.cmd = req.cmd
  /\ pc = "check" /\ req.cmd = "Read" =>
       /\ "BSY" \notin dev[req.place].bits
       /\ "ERR" \notin dev[req.place].bits => reply.val = media[req.place][req.block]
  /\ pc = "idle" /\ reply.cmd = "Read" /\ reply.ok =>
       /\ req.place \in Present /\ req.block \in Blocks
       /\ "BSY" \notin dev[req.place].bits
       /\ reply.val = media[req.place][req.block]

IInv == Types /\ SelectionCached /\ Phases /\ Stores /\ Replies

\* Some drive answers on the bus of the file system, so that it does not float.
BootBusPopulated == \A m \in Machines : \E p \in m : p[1] = 0

\* Without a failure a drive with a command of the driver is the one the driver
\* attends to, and no other has anything to report.
Healthy ==
  /\ \E p \in Present : p[1] = 0
  /\ pc \notin {"idle", "panicked"} => \E p \in Present : p[1] = bus
  /\ faults = 0 =>
       /\ pc # "panicked"
       /\ \A p \in Present :
            \/ dev[p].cmd = "none" /\ dev[p].bits = {}
            \/ dev[p].cmd = "Store" /\ dev[p].bits = {"BSY"}
            \/ /\ dev[p].cmd \in Commands /\ dev[p].bits \in {{"BSY"}, {"DRQ"}}
               /\ p = req.place /\ pc \in {"issued", "poll", "data"}

-----------------------------------------------------------------------------
(***************************************************************************)
(* Places and status registers.                                            *)
(***************************************************************************)
LEMMA PlaceShape ==
  \A p \in Places : p[1] \in Buses /\ p[2] \in {0, 1} /\ p = <<p[1], p[2]>>
BY DEF Places

\* Past select_drive the status register is the one of the drive asked for.
LEMMA SelectedStatus ==
  ASSUME Types, SelectionCached, LAST_SELECTED = req.place
  PROVE  /\ bus \in Buses /\ drive_register[bus] = dsk
         /\ <<bus, drive_register[bus]>> = req.place
         /\ req.place \in Present => Status(bus) = dev[req.place].bits \cup {"DRDY"}
         /\ req.place \notin Present /\ Status(bus) # {} => "ERR" \in Status(bus)
<1>1. req.place \in Places BY Zenon DEF Types
<1>2. bus \in Buses /\ <<bus, dsk>> = req.place BY <1>1, PlaceShape, Zenon DEF bus, dsk
<1>3. req.place # <<>> BY <1>2
<1>4. drive_register[bus] = dsk BY <1>3, Zenon DEF SelectionCached, bus, dsk
<1>5. <<bus, drive_register[bus]>> = req.place BY <1>2, <1>4, Zenon
<1> QED BY <1>2, <1>4, <1>5, Zenon DEF Status

-----------------------------------------------------------------------------
(***************************************************************************)
(* Steps of a drive: it is busy, and no driver variable changes.           *)
(***************************************************************************)
LEMMA DriveKeeps ==
  ASSUME IInv, NEW p \in Present, Busy(p), NEW d \in Device,
         dev' = [dev EXCEPT ![p] = d], media' \in [Present -> Sectors],
         faults' \in 0 .. MaxFaults,
         UNCHANGED <<registers, pc, req, boot, reply, acked>>,
         dev[p].cmd # "Store" => d.cmd \in {dev[p].cmd, "hung"} /\ d.block = dev[p].block,
         {"ERR", "DRQ"} \subseteq d.bits => d.cmd = "Read",
         d.cmd = "hung" => "BSY" \in d.bits,
         "BSY" \in d.bits => d.bits = {"BSY"},
         d.cmd = "Store" => d.block \in Blocks
  PROVE  Types' /\ SelectionCached' /\ Phases'
<1>1. /\ UNCHANGED <<drive_register, LAST_SELECTED, pc, req, probe, found, masked, reply, acked>>
      /\ Types /\ SelectionCached /\ Phases
  BY Zenon DEF registers, boot, IInv
<1>2. Present' = Present /\ dev' \in [Present -> Device] BY <1>1, Zenon DEF Types, Present
<1>3. dev'[p] = d /\ \A q \in Present : q # p => dev'[q] = dev[q]
  BY <1>1, Zenon DEF Types
<1>4. Types' BY <1>1, <1>2, Zenon DEF Types
<1>5. SelectionCached' BY <1>1, Zenon DEF SelectionCached
<1>6. "BSY" \in dev[p].bits BY Zenon DEF Busy
<1>7. Phases'
  <2>1. /\ pc \notin {"idle", "panicked"} =>
             /\ req.cmd \in Commands
             /\ req.cmd = "Identify" <=> probe # 9
             /\ req.cmd # "Identify" => req.block \in Blocks
             /\ probe = 8 => req.place \in Present
        /\ pc \in PastSelect => LAST_SELECTED = req.place
        /\ pc \in {"poll", "data", "check"} => req.place \in Present
        /\ pc = "check" => req.cmd # "Identify"
    BY <1>1, Zenon DEF Phases
  <2>2. pc = "params" /\ req.place \in Present => {"BSY", "DRQ"} \cap dev'[req.place].bits = {}
    BY <1>1, <1>3, <1>6, Zenon DEF Phases
  <2>3. pc \in {"issued", "poll", "data"} /\ req.place \in Present =>
          dev'[req.place].cmd \in {req.cmd, "hung"} /\ dev'[req.place].block = req.block
    <3> SUFFICES ASSUME pc \in {"issued", "poll", "data"}, req.place \in Present
                 PROVE  dev'[req.place].cmd \in {req.cmd, "hung"}
                        /\ dev'[req.place].block = req.block
      BY Zenon
    <3>1. /\ dev[req.place].cmd \in {req.cmd, "hung"} /\ dev[req.place].block = req.block
          /\ req.cmd \in Commands
      BY <1>1, <2>1, Zenon DEF Phases
    <3>2. dev[req.place].cmd # "Store" BY <3>1, Zenon DEF Commands
    <3> QED BY <1>3, <3>1, <3>2, Zenon
  <2>4. pc = "data" => "BSY" \notin dev'[req.place].bits /\ "DRQ" \in dev'[req.place].bits
    BY <1>1, <1>3, <1>6, <2>1, Zenon DEF Phases
  <2>5. \A q \in Present :
          /\ {"ERR", "DRQ"} \subseteq dev'[q].bits => dev'[q].cmd = "Read"
          /\ dev'[q].cmd = "hung" => "BSY" \in dev'[q].bits
          /\ "BSY" \in dev'[q].bits => dev'[q].bits = {"BSY"}
          /\ dev'[q].cmd = "Store" => dev'[q].block \in Blocks
    BY <1>1, <1>3 DEF Phases
  <2> QED BY <1>1, <1>2, <2>1, <2>2, <2>3, <2>4, <2>5 DEF Phases
<1> QED BY <1>4, <1>5, <1>7, Zenon

\* A step of a drive keeps what the sectors will hold and what was read.
LEMMA DriveStores ==
  ASSUME IInv, NEW p \in Present, Busy(p), NEW d \in Device,
         dev' = [dev EXCEPT ![p] = d],
         UNCHANGED <<registers, pc, req, boot, reply, acked>>,
         ~ (d.cmd = "Store" /\ "BSY" \in d.bits),
         \A q \in Present : q # p => media'[q] = media[q],
         \A q \in Present, b \in Blocks : <<q, b>> \notin lost' =>
           \/ <<q, b>> \notin lost /\ media'[q][b] = media[q][b]
              /\ ~ (q = p /\ Storing(p) /\ dev[p].block = b)
           \/ q = p /\ Storing(p) /\ dev[p].block = b /\ media'[p][b] = dev[p].val
  PROVE  Stores' /\ Replies'
<1>1. /\ UNCHANGED <<pc, req, reply, acked>> /\ Types /\ Stores /\ Replies /\ Phases
  BY Zenon DEF IInv
<1>2. Present' = Present BY <1>1, Zenon DEF Types, Present
<1>3. dev'[p] = d /\ \A q \in Present : q # p => dev'[q] = dev[q]
  BY <1>1 DEF Types
<1>4. "BSY" \in dev[p].bits BY Zenon DEF Busy
<1>5. \A q, b : Target(q, b)' = Target(q, b) BY <1>1, Zenon DEF Target
<1>6. Stores'
  <2> SUFFICES ASSUME pc # "panicked", NEW q \in Present
               PROVE  /\ Storing(q)' => dev'[q].val = Target(q, dev'[q].block)
                      /\ \A b \in Blocks :
                           <<q, b>> \notin lost' /\ ~ (Storing(q)' /\ dev'[q].block = b)
                             => media'[q][b] = Target(q, b)
    BY <1>1, <1>2, <1>5 DEF Stores
  <2>1. CASE q = p
    <3>1. ~ Storing(q)' BY <1>3, <2>1, Zenon DEF Storing
    <3>2. ASSUME NEW b \in Blocks, <<q, b>> \notin lost' PROVE media'[q][b] = Target(q, b)
      BY <1>1, <2>1, <3>2 DEF Stores
    <3> QED BY <3>1, <3>2, Zenon
  <2>2. CASE q # p
    <3>1. Storing(q)' <=> Storing(q) BY <1>3, <2>2, Zenon DEF Storing
    <3>2. media'[q] = media[q] /\ dev'[q] = dev[q] BY <1>3, <2>2, Zenon
    <3>3. \A b \in Blocks : <<q, b>> \notin lost' => <<q, b>> \notin lost BY <2>2, Zenon
    <3> QED BY <1>1, <3>1, <3>2, <3>3 DEF Stores
  <2> QED BY <2>1, <2>2, Zenon
<1>7. Replies'
  <2>1. ASSUME req.place \in Present, "BSY" \notin dev[req.place].bits
        PROVE  dev'[req.place] = dev[req.place] /\ media'[req.place] = media[req.place]
    BY <1>3, <1>4, <2>1, Zenon
  <2>2. pc = "check" => req.place \in Present BY <1>1, Zenon DEF Phases
  <2> QED BY <1>1, <1>2, <2>1, <2>2 DEF Replies
<1> QED BY <1>6, <1>7, Zenon

LEMMA FinishPreserves ==
  ASSUME IInv, NEW p \in Present, Finish(p)
  PROVE  IInv'
<1> DEFINE d == IF dev[p].cmd = "Store" THEN Idle ELSE [dev[p] EXCEPT !.bits = {"DRQ"}]
<1>1. /\ Types /\ Phases /\ Busy(p) /\ dev[p] \in Device /\ media[p] \in Sectors
      /\ faults' \in 0 .. MaxFaults
      /\ UNCHANGED <<registers, pc, req, boot, reply, acked>>
  BY Zenon DEF IInv, Types, Finish
<1>2. dev' = [dev EXCEPT ![p] = d] BY Zenon DEF Finish
<1>3. /\ d \in Device /\ d.cmd # "Store" /\ d.cmd # "hung" /\ d.bits \in {{}, {"DRQ"}}
      /\ dev[p].cmd # "Store" => d.cmd = dev[p].cmd /\ d.block = dev[p].block
  BY <1>1, Zenon DEF Device, Idle, Busy
<1> HIDE DEF d
<1>4. /\ media' \in [Present -> Sectors]
      /\ \A q \in Present : q # p => media'[q] = media[q]
      /\ \A q \in Present, b \in Blocks : <<q, b>> \notin lost' =>
           \/ <<q, b>> \notin lost /\ media'[q][b] = media[q][b]
              /\ ~ (q = p /\ Storing(p) /\ dev[p].block = b)
           \/ q = p /\ Storing(p) /\ dev[p].block = b /\ media'[p][b] = dev[p].val
  <2>1. CASE dev[p].cmd = "Store"
    <3>1. /\ media' = [media EXCEPT ![p][dev[p].block] = dev[p].val]
          /\ lost' = lost \ {<<p, dev[p].block>>}
      BY <2>1, Zenon DEF Finish
    <3>2. dev[p].block \in Blocks /\ dev[p].val \in Values \cup {0} /\ Storing(p)
      BY <1>1, <2>1, Zenon DEF Phases, Device, Busy, Storing
    <3>3. /\ media' \in [Present -> Sectors]
          /\ \A q \in Present : q # p => media'[q] = media[q]
          /\ \A b \in Blocks : media'[p][b] = IF b = dev[p].block THEN dev[p].val ELSE media[p][b]
      BY <1>1, <3>1, <3>2, Zenon DEF Types, Sectors
    <3> QED BY <3>1, <3>2, <3>3, Zenon
  <2>2. CASE dev[p].cmd # "Store"
    <3>1. media' = media /\ lost' = lost BY <2>2, Zenon DEF Finish
    <3>2. ~ Storing(p) BY <2>2, Zenon DEF Storing
    <3> QED BY <1>1, <3>1, <3>2, Zenon DEF Types
  <2> QED BY <2>1, <2>2, Zenon
<1>5. Types' /\ SelectionCached' /\ Phases'
  <2>1. "BSY" \notin d.bits /\ ~ ({"ERR", "DRQ"} \subseteq d.bits) BY <1>3, Zenon
  <2> QED BY <1>1, <1>2, <1>3, <1>4, <2>1, DriveKeeps, Zenon
<1>6. Stores' /\ Replies' BY <1>1, <1>2, <1>3, <1>4, DriveStores, Zenon
<1> QED BY <1>5, <1>6, Zenon DEF IInv

LEMMA FaultPreserves ==
  ASSUME IInv, NEW p \in Present, Fail(p) \/ Hang(p)
  PROVE  IInv'
<1>1. /\ Types /\ Phases /\ Busy(p) /\ dev[p] \in Device /\ media' = media
      /\ faults' \in 0 .. MaxFaults
      /\ lost' = IF dev[p].cmd = "Store" THEN lost \cup {<<p, dev[p].block>>} ELSE lost
      /\ UNCHANGED <<registers, pc, req, boot, reply, acked>>
  BY AtaAssumption DEF IInv, Types, Fail, Hang
<1>2. PICK d \in Device :
        /\ dev' = [dev EXCEPT ![p] = d] /\ d.block = dev[p].block
        /\ \/ d.cmd = dev[p].cmd /\ "BSY" \notin d.bits
              /\ ("DRQ" \in d.bits => dev[p].cmd = "Read")
           \/ d.cmd = "hung" /\ d.bits = dev[p].bits
  <2>1. ASSUME NEW bits \in SUBSET {"BSY", "DRQ", "ERR"}
        PROVE  /\ [dev[p] EXCEPT !.bits = bits] \in Device
               /\ [dev[p] EXCEPT !.bits = bits].bits = bits
               /\ [dev[p] EXCEPT !.bits = bits].cmd = dev[p].cmd
               /\ [dev[p] EXCEPT !.bits = bits].block = dev[p].block
    BY <1>1, Zenon DEF Device
  <2>2. /\ [dev[p] EXCEPT !.cmd = "hung"] \in Device
        /\ [dev[p] EXCEPT !.cmd = "hung"].bits = dev[p].bits
        /\ [dev[p] EXCEPT !.cmd = "hung"].cmd = "hung"
        /\ [dev[p] EXCEPT !.cmd = "hung"].block = dev[p].block
    BY <1>1, Zenon DEF Device
  <2>3. CASE Fail(p)
    <3>1. PICK bits \in {{"ERR"}} \cup (IF dev[p].cmd = "Read" THEN {{"ERR", "DRQ"}} ELSE {}) :
            dev' = [dev EXCEPT ![p].bits = bits]
      BY <2>3, Zenon DEF Fail
    <3>2. dev' = [dev EXCEPT ![p] = [dev[p] EXCEPT !.bits = bits]] BY <3>1, Zenon
    <3>3. bits \in SUBSET {"BSY", "DRQ", "ERR"} /\ "BSY" \notin bits
          /\ ("DRQ" \in bits => dev[p].cmd = "Read")
      BY <3>1
    <3> DEFINE d == [dev[p] EXCEPT !.bits = bits]
    <3>4. d \in Device /\ d.bits = bits /\ d.cmd = dev[p].cmd /\ d.block = dev[p].block
          /\ dev' = [dev EXCEPT ![p] = d]
      BY <2>1, <3>2, <3>3, Zenon
    <3> HIDE DEF d
    <3> QED BY <3>3, <3>4, Zenon
  <2>4. CASE Hang(p)
    <3>1. dev' = [dev EXCEPT ![p] = [dev[p] EXCEPT !.cmd = "hung"]] BY <2>4, Zenon DEF Hang
    <3> DEFINE d == [dev[p] EXCEPT !.cmd = "hung"]
    <3>2. d \in Device /\ d.bits = dev[p].bits /\ d.cmd = "hung" /\ d.block = dev[p].block
          /\ dev' = [dev EXCEPT ![p] = d]
      BY <2>2, <3>1, Zenon
    <3> HIDE DEF d
    <3> QED BY <3>2, Zenon
  <2> QED BY <2>3, <2>4, Zenon
<1>3. "BSY" \in dev[p].bits /\ (dev[p].cmd = "Store" => dev[p].block \in Blocks)
      /\ (dev[p].cmd = "Store" <=> Storing(p))
  BY <1>1, Zenon DEF Busy, Phases, Storing
<1>4. Types' /\ SelectionCached' /\ Phases'
  <2>1. dev[p].bits = {"BSY"} BY <1>1, <1>3, Zenon DEF Phases
  <2>2. /\ {"ERR", "DRQ"} \subseteq d.bits => d.cmd = "Read"
        /\ "BSY" \in d.bits => d.bits = {"BSY"}
        /\ d.cmd = "hung" => "BSY" \in d.bits
        /\ d.cmd = "Store" => d.block \in Blocks
    BY <1>1, <1>2, <1>3, <2>1 DEF Busy
  <2>3. media' \in [Present -> Sectors] BY <1>1, Zenon DEF Types
  <2> QED BY <1>1, <1>2, <2>2, <2>3, DriveKeeps, Zenon
<1>5. Stores' /\ Replies' BY <1>1, <1>2, <1>3, DriveStores, Zenon
<1> QED BY <1>4, <1>5, Zenon DEF IInv

-----------------------------------------------------------------------------
(***************************************************************************)
(* Steps of the driver that leave the drives alone.                        *)
(***************************************************************************)

\* The driver comes to a point before the transfer.
LEMMA SameDrivesStores ==
  ASSUME IInv, UNCHANGED <<dev, media, lost, acked>>,
         pc \notin {"check", "panicked"}, pc' # "check"
  PROVE  Stores'
<1>1. Stores /\ Present' = Present BY Zenon DEF IInv, Present
<1>2. \A p, b : Target(p, b) = acked[p][b] /\ Target(p, b)' = acked[p][b] BY Zenon DEF Target
<1>3. \A p : Storing(p)' <=> Storing(p) BY Zenon DEF Storing
<1> QED BY <1>1, <1>2, <1>3, Zenon DEF Stores

\* The request ends: nothing is known of it any more.
LEMMA EndedPhases ==
  ASSUME Phases, pc' \in {"idle", "panicked"},
         Present' = Present,
         \A p \in Present :
            /\ {"ERR", "DRQ"} \subseteq dev'[p].bits => dev'[p].cmd = "Read"
            /\ dev'[p].cmd = "hung" => "BSY" \in dev'[p].bits
            /\ "BSY" \in dev'[p].bits => dev'[p].bits = {"BSY"}
            /\ dev'[p].cmd = "Store" => dev'[p].block \in Blocks
  PROVE  Phases'
BY Zenon DEF Phases, PastSelect

\* Drive::open returns.
LEMMA OpenedTypes ==
  ASSUME Types, NEW p \in Places, probe # 9,
         Opened(p, FALSE) \/ (p \in Present /\ Opened(p, TRUE))
  PROVE  /\ pc' \in {"idle", "panicked"} /\ reply' = NoReply
         /\ probe' \in 0 .. 9 /\ found' \in Seq(Present)
         /\ Len(found') <= (IF probe' < 4 THEN probe' ELSE IF probe' < 9 THEN probe' - 4 ELSE 0)
<1>1. found \in Seq(Present) /\ Len(found) \in Nat /\ probe \in 0 .. 8
      /\ Len(found) <= (IF probe < 4 THEN probe ELSE probe - 4)
  <2>1. found \in Seq(Present) /\ probe \in 0 .. 8 BY DEF Types
  <2>2. Len(found) \in Nat BY <2>1, LenProperties, Zenon
  <2> QED BY <2>1, <2>2 DEF Types
<1>2. CASE Opened(p, FALSE) /\ probe = 8 BY <1>1, <1>2 DEF Opened
<1>3. CASE ~ (Opened(p, FALSE) /\ probe = 8)
  <2>1. /\ pc' = "idle" /\ reply' = NoReply /\ probe' = probe + 1
        /\ \/ probe \in {3, 8} /\ found' = <<>>
           \/ probe \notin {3, 8} /\ found' = found
           \/ probe \notin {3, 8} /\ p \in Present /\ found' = Append(found, p)
    BY <1>3, Zenon DEF Opened
  <2>2. CASE probe \in {3, 8} /\ found' = <<>>
    <3>1. <<>> \in Seq(Present) /\ Len(<<>>) = 0 BY EmptySeq, Zenon
    <3> QED BY <1>1, <2>1, <2>2, <3>1
  <2>3. CASE probe \notin {3, 8} /\ p \in Present /\ found' = Append(found, p)
    <3>1. Append(found, p) \in Seq(Present) /\ Len(Append(found, p)) = Len(found) + 1
      BY <1>1, <2>3, AppendProperties
    <3> QED BY <1>1, <2>1, <2>3, <3>1
  <2>4. CASE probe \notin {3, 8} /\ found' = found BY <1>1, <2>1, <2>4
  <2> QED BY <2>1, <2>2, <2>3, <2>4, Zenon
<1> QED BY <1>2, <1>3, Zenon

\* A request ends with no data to return, and the drives are left alone.
LEMMA EndedPreserves ==
  ASSUME IInv, pc \notin {"check", "panicked"}, pc' \in {"idle", "panicked"},
         UNCHANGED <<drives, registers, acked>>,
         req' \in [cmd : Commands \cup {"none"}, place : Places, block : Blocks \cup {0},
                   val : Values \cup {0}],
         probe' \in 0 .. 9, found' \in Seq(Present),
         Len(found') <= (IF probe' < 4 THEN probe' ELSE IF probe' < 9 THEN probe' - 4 ELSE 0),
         reply'.cmd # "Read" \/ reply'.ok = FALSE
  PROVE  IInv'
<1>1. /\ Types /\ SelectionCached /\ Phases /\ Present' = Present
      /\ UNCHANGED <<dev, media, faults, lost, drive_register, LAST_SELECTED, acked>>
  BY Zenon DEF IInv, drives, registers, Present
<1>2. Types' BY <1>1, Zenon DEF Types, PastSelect
<1>3. SelectionCached' BY <1>1, Zenon DEF SelectionCached
<1>4. Phases' BY <1>1, EndedPhases, Zenon DEF Phases
<1>5. Stores' BY <1>1, SameDrivesStores, Zenon
<1>6. Replies' BY Zenon DEF Replies
<1> QED BY <1>2, <1>3, <1>4, <1>5, <1>6, Zenon DEF IInv

\* The driver goes on with its request, before the transfer.
LEMMA MovePreserves ==
  ASSUME IInv, pc \notin {"check", "panicked"},
         pc' \in {"select", "selected", "params", "issued", "poll", "data"},
         UNCHANGED <<drives, boot, acked>>,
         req' \in [cmd : Commands \cup {"none"}, place : Places, block : Blocks \cup {0},
                   val : Values \cup {0}],
         drive_register' \in [Buses -> {0, 1}], LAST_SELECTED' \in Places \cup {<<>>},
         SelectionCached', Phases'
  PROVE  IInv'
<1>1. /\ Types /\ Present' = Present
      /\ UNCHANGED <<dev, media, faults, lost, probe, found, acked>>
  BY Zenon DEF IInv, drives, boot, Present
<1>2. Types' BY <1>1, Zenon DEF Types, PastSelect
<1>3. Stores' BY <1>1, SameDrivesStores, Zenon
<1>4. Replies' BY Zenon DEF Replies
<1> QED BY <1>2, <1>3, <1>4, Zenon DEF IInv

\* The loop of likely_disk, one drive further: the first of the largest of n
\* numbers, or the next number if it is larger.
IsFirstLargest(f, n, i) ==
  /\ i \in 1 .. n
  /\ \A j \in 1 .. n : f[j] <= f[i]
  /\ \A j \in 1 .. i - 1 : f[j] < f[i]

LEMMA LargestStep ==
  ASSUME NEW n \in Nat \ {0}, NEW f, \A j \in 1 .. n + 1 : f[j] \in Nat,
         \E i \in 1 .. n : IsFirstLargest(f, n, i)
  PROVE  \E i \in 1 .. n + 1 : IsFirstLargest(f, n + 1, i)
<1>1. PICK i \in 1 .. n : IsFirstLargest(f, n, i) BY Zenon
<1>2. CASE f[n + 1] > f[i]
  <2>1. \A j \in 1 .. n : f[j] < f[n + 1] BY <1>1, <1>2 DEF IsFirstLargest
  <2>2. IsFirstLargest(f, n + 1, n + 1) BY <2>1 DEF IsFirstLargest
  <2> QED BY <2>2
<1>3. CASE ~ (f[n + 1] > f[i])
  <2>1. IsFirstLargest(f, n + 1, i) BY <1>1, <1>3 DEF IsFirstLargest
  <2> QED BY <2>1
<1> QED BY <1>2, <1>3, Zenon

LEMMA LargestOfFour ==
  ASSUME NEW n \in 1 .. 4, NEW f, \A j \in 1 .. n : f[j] \in Nat
  PROVE  \E i \in 1 .. n : IsFirstLargest(f, n, i)
<1>1. \E i \in 1 .. 1 : IsFirstLargest(f, 1, i) BY DEF IsFirstLargest
<1>2. n >= 2 => \E i \in 1 .. 2 : IsFirstLargest(f, 2, i)
  <2>1. n >= 2 => \A j \in 1 .. 1 + 1 : f[j] \in Nat OBVIOUS
  <2>2. n >= 2 => \E i \in 1 .. 1 + 1 : IsFirstLargest(f, 1 + 1, i) BY <1>1, <2>1, LargestStep
  <2> QED BY <2>2
<1>3. n >= 3 => \E i \in 1 .. 3 : IsFirstLargest(f, 3, i)
  <2>1. n >= 3 => \A j \in 1 .. 2 + 1 : f[j] \in Nat OBVIOUS
  <2>2. n >= 3 => \E i \in 1 .. 2 + 1 : IsFirstLargest(f, 2 + 1, i) BY <1>2, <2>1, LargestStep
  <2> QED BY <2>2
<1>4. n >= 4 => \E i \in 1 .. 4 : IsFirstLargest(f, 4, i)
  <2>1. n >= 4 => \A j \in 1 .. 3 + 1 : f[j] \in Nat OBVIOUS
  <2>2. n >= 4 => \E i \in 1 .. 3 + 1 : IsFirstLargest(f, 3 + 1, i) BY <1>3, <2>1, LargestStep
  <2> QED BY <2>2
<1>5. n = 1 \/ n = 2 \/ n = 3 \/ n = 4 OBVIOUS
<1> QED BY <1>1, <1>2, <1>3, <1>4, <1>5

\* likely_disk returns a drive of the list.
LEMMA LikelyDiskFound ==
  ASSUME Types, probe = 8, found # <<>>
  PROVE  LikelyDisk \in Present
<1> DEFINE n == Len(found)
           f == [j \in 1 .. n |-> BlockCount[found[j]]]
           is(i) == /\ \A j \in 1 .. n : BlockCount[found[j]] <= BlockCount[found[i]]
                    /\ \A j \in 1 .. i - 1 : BlockCount[found[j]] < BlockCount[found[i]]
<1>1. found \in Seq(Present) /\ Present \subseteq Places /\ n <= 4 BY DEF Types
<1>2. n \in 1 .. 4
  <2>1. n \in Nat \ {0} BY <1>1, EmptySeq, Zenon
  <2>2. n <= 4 BY <1>1, Zenon
  <2> HIDE DEF n
  <2> QED BY ONLY <2>1, <2>2
<1>3. \A j \in 1 .. n : found[j] \in Present BY <1>1, ElementOfSeq, Zenon
<1>4. \A j \in 1 .. n : f[j] = BlockCount[found[j]] /\ f[j] \in Nat
  BY <1>1, <1>3, AtaAssumption, Zenon
<1> HIDE DEF n, f
<1>5. PICK i \in 1 .. n : IsFirstLargest(f, n, i) BY <1>2, <1>4, LargestOfFour, Zenon
<1>6. is(i)
  <2>1. \A j \in 1 .. i - 1 : j \in 1 .. n BY <1>2, <1>5
  <2> QED BY <1>4, <1>5, <2>1, Zenon DEF IsFirstLargest
<1>7. (CHOOSE k \in 1 .. n : is(k)) \in 1 .. n BY <1>5, <1>6, Zenon
<1>8. LikelyDisk = found[CHOOSE k \in 1 .. n : is(k)] BY Zenon DEF LikelyDisk, n
<1> HIDE DEF is
<1> QED BY <1>3, <1>7, <1>8, Zenon

-----------------------------------------------------------------------------
(***************************************************************************)
(* The steps of the driver.                                                *)
(***************************************************************************)
LEMMA OpenPreserves ==
  ASSUME IInv, Open
  PROVE  IInv'
<1> DEFINE p == IF probe < 8 THEN Nth(probe) ELSE LikelyDisk
<1>1. /\ Types /\ SelectionCached /\ Phases /\ Replies
      /\ pc = "idle" /\ probe < 9 /\ UNCHANGED <<drives, registers, masked, acked>>
  BY Zenon DEF IInv, Open
<1>2. probe \in 0 .. 8 BY <1>1 DEF Types
<1>3. CASE probe = 8 /\ found = <<>>
  <2>1. probe' = 9 /\ UNCHANGED <<pc, req, found, reply>> BY <1>3, Zenon DEF Open
  <2>2. /\ UNCHANGED <<dev, media, faults, lost, drive_register, LAST_SELECTED>>
        /\ Present' = Present
    BY <1>1, Zenon DEF drives, registers, Present
  <2>3. Len(found) = 0 BY <1>3, Zenon
  <2>4. Types' BY <1>1, <2>1, <2>2, <2>3 DEF Types, PastSelect
  <2>5. SelectionCached' BY <1>1, <2>2, Zenon DEF SelectionCached
  <2>6. Phases' BY <1>1, <2>1, <2>2, EndedPhases, Zenon DEF Phases
  <2>7. Stores' BY <1>1, <2>1, <2>2, SameDrivesStores, Zenon
  <2>8. Replies' BY <1>1, <2>1, <2>2, Zenon DEF Replies
  <2> QED BY <2>4, <2>5, <2>6, <2>7, <2>8, Zenon DEF IInv
<1>4. CASE ~ (probe = 8 /\ found = <<>>)
  <2>1. p \in Places /\ (probe = 8 => p \in Present)
    <3>1. CASE probe < 8
      <4>1. (probe % 4) \div 2 \in {0, 1} /\ probe % 2 \in {0, 1} BY <1>2
      <4> QED BY <3>1, <4>1 DEF Nth, Places, Buses
    <3>2. CASE probe = 8
      <4>1. LikelyDisk \in Present BY <1>1, <1>4, <3>2, LikelyDiskFound, Zenon
      <4> QED BY <1>1, <3>2, <4>1 DEF Types
    <3> QED BY <1>2, <3>1, <3>2
  <2>2. /\ req' = [cmd |-> "Identify", place |-> p, block |-> 0, val |-> 0]
        /\ \/ Opened(p, FALSE)
           \/ pc' = "select" /\ reply' = NoReply /\ UNCHANGED <<probe, found>>
    BY <1>4, Zenon DEF Open
  <2> HIDE DEF p
  <2>3. /\ req' \in [cmd : Commands \cup {"none"}, place : Places, block : Blocks \cup {0},
                     val : Values \cup {0}]
        /\ req'.cmd = "Identify" /\ req'.place = p
    BY <2>1, <2>2, Zenon DEF Commands
  <2>4. CASE Opened(p, FALSE)
    <3>1. /\ pc' \in {"idle", "panicked"} /\ reply' = NoReply
          /\ probe' \in 0 .. 9 /\ found' \in Seq(Present)
          /\ Len(found') <= (IF probe' < 4 THEN probe' ELSE IF probe' < 9 THEN probe' - 4 ELSE 0)
      <4>1. Types /\ p \in Places /\ probe # 9 BY <1>1, <1>2, <2>1
      <4> QED BY ONLY <4>1, <2>4, OpenedTypes, Zenon
    <3>2. reply'.cmd # "Read" BY <3>1, Zenon DEF NoReply
    <3> QED BY <1>1, <2>3, <3>1, <3>2, EndedPreserves, Zenon
  <2>5. CASE pc' = "select" /\ reply' = NoReply /\ UNCHANGED <<probe, found>>
    <3>1. /\ UNCHANGED <<dev, media, faults, lost, drive_register, LAST_SELECTED>>
          /\ Present' = Present /\ UNCHANGED boot
      BY <1>1, <2>5, Zenon DEF drives, registers, boot, Present
    <3>2. SelectionCached' BY <1>1, <3>1, Zenon DEF SelectionCached
    <3>3. Phases' BY <1>1, <1>2, <2>1, <2>3, <2>5, <3>1 DEF Phases, PastSelect, Commands
    <3>4. drive_register' \in [Buses -> {0, 1}] /\ LAST_SELECTED' \in Places \cup {<<>>}
      BY <1>1, <3>1, Zenon DEF Types
    <3> QED BY <1>1, <2>3, <2>5, <3>1, <3>2, <3>3, <3>4, MovePreserves, Zenon
  <2> QED BY <2>2, <2>4, <2>5, Zenon
<1> QED BY <1>3, <1>4, Zenon

LEMMA RequestPreserves ==
  ASSUME IInv, NEW cmd \in {"Read", "Write"}, NEW p \in Places, NEW b \in Blocks,
         NEW v \in Values \cup {0}, Request(cmd, p, b, v)
  PROVE  IInv'
<1>1. /\ Types /\ SelectionCached /\ Phases
      /\ pc = "idle" /\ probe = 9 /\ pc' = "select"
      /\ req' = [cmd |-> cmd, place |-> p, block |-> b, val |-> v]
      /\ UNCHANGED <<drives, registers, boot, acked>>
  BY Zenon DEF IInv, Request
<1>2. /\ UNCHANGED <<dev, media, faults, lost, drive_register, LAST_SELECTED, probe, found>>
      /\ Present' = Present
  BY <1>1, Zenon DEF drives, registers, boot, Present
<1>3. /\ req' \in [cmd : Commands \cup {"none"}, place : Places, block : Blocks \cup {0},
                   val : Values \cup {0}]
      /\ req'.cmd \in Commands /\ req'.cmd # "Identify" /\ req'.block \in Blocks
  BY <1>1, Zenon DEF Commands
<1>4. SelectionCached' BY <1>1, <1>2, Zenon DEF SelectionCached
<1>5. Phases' BY <1>1, <1>2, <1>3 DEF Phases, PastSelect
<1>6. drive_register' \in [Buses -> {0, 1}] /\ LAST_SELECTED' \in Places \cup {<<>>}
  BY <1>1, <1>2, Zenon DEF Types
<1> QED BY <1>1, <1>3, <1>4, <1>5, <1>6, MovePreserves, Zenon

\* The settled drive is the one asked for: with the shortcut because the bus
\* still has it selected, otherwise because the polls come after the switch.
LEMMA SettledReady ==
  ASSUME Types, SelectionCached, LAST_SELECTED = req.place, Settled, req.place \in Present
  PROVE  {"BSY", "DRQ"} \cap dev[req.place].bits = {}
<1>1. Status(bus) = dev[req.place].bits \cup {"DRDY"} BY SelectedStatus, Zenon
<1> QED BY <1>1, Zenon DEF Settled

LEMMA SelectDrivePreserves ==
  ASSUME IInv, SelectDrive
  PROVE  IInv'
<1>1. /\ Types /\ SelectionCached /\ Phases
      /\ pc = "select" /\ Settled /\ UNCHANGED <<drives, req, boot, reply, acked>>
  BY Zenon DEF IInv, SelectDrive
<1>2. UNCHANGED <<dev, media, faults, lost, probe, found>> /\ Present' = Present
  BY <1>1, Zenon DEF drives, boot, Present
<1>3. /\ req.place \in Places /\ bus \in Buses /\ dsk \in {0, 1} /\ req.place # <<>>
      /\ req.place[1] = bus /\ req.place[2] = dsk
  <2>1. req.place \in Places BY <1>1, Zenon DEF Types
  <2> QED BY <2>1, PlaceShape DEF bus, dsk
<1>4. CASE LAST_SELECTED = req.place
  <2>1. pc' = "params" /\ UNCHANGED <<drive_register, LAST_SELECTED>>
    BY <1>4, Zenon DEF SelectDrive, registers
  <2>2. SelectionCached' BY <1>1, <2>1, Zenon DEF SelectionCached
  <2>3. Phases'
    BY <1>1, <1>2, <1>4, <2>1, SettledReady, Zenon DEF Phases, PastSelect
  <2> QED BY <1>1, <2>1, <2>2, <2>3, MovePreserves, Zenon DEF Types
<1>5. CASE LAST_SELECTED # req.place
  <2>1. /\ pc' = "selected" /\ LAST_SELECTED' = req.place
        /\ drive_register' = [drive_register EXCEPT ![bus] = dsk]
    BY <1>5, Zenon DEF SelectDrive
  <2>2. drive_register' \in [Buses -> {0, 1}] /\ drive_register'[bus] = dsk
    BY <1>1, <1>3, <2>1, Zenon DEF Types
  <2>3. SelectionCached' BY <1>3, <2>1, <2>2, Zenon DEF SelectionCached
  <2>4. Phases' BY <1>1, <1>2, <2>1, Zenon DEF Phases, PastSelect
  <2> QED BY <1>1, <1>3, <2>1, <2>2, <2>3, <2>4, MovePreserves, Zenon DEF Types
<1> QED BY <1>4, <1>5, Zenon

LEMMA AwaitSelectedPreserves ==
  ASSUME IInv, AwaitSelected
  PROVE  IInv'
<1>1. /\ Types /\ SelectionCached /\ Phases
      /\ pc = "selected" /\ Settled /\ pc' = "params" /\ LAST_SELECTED = req.place
      /\ UNCHANGED <<drives, registers, req, boot, reply, acked>>
  BY Zenon DEF IInv, AwaitSelected, Phases, PastSelect
<1>2. /\ UNCHANGED <<dev, media, faults, lost, drive_register, LAST_SELECTED, probe, found>>
      /\ Present' = Present
  BY <1>1, Zenon DEF drives, registers, boot, Present
<1>3. SelectionCached' BY <1>1, <1>2, Zenon DEF SelectionCached
<1>4. Phases' BY <1>1, <1>2, SettledReady, Zenon DEF Phases, PastSelect
<1> QED BY <1>1, <1>2, <1>3, <1>4, MovePreserves, Zenon DEF Types

\* A command makes the drive busy; it was settled, so nothing was being stored.
LEMMA WriteCommandPreserves ==
  ASSUME IInv, WriteCommand
  PROVE  IInv'
<1> DEFINE d == [bits |-> {"BSY"}, cmd |-> req.cmd, block |-> req.block, val |-> 0]
<1>1. /\ Types /\ SelectionCached /\ Phases /\ Stores
      /\ pc = "params" /\ pc' = "issued" /\ LAST_SELECTED = req.place
      /\ drive_register' = [drive_register EXCEPT ![bus] = dsk]
      /\ UNCHANGED <<media, faults, lost, LAST_SELECTED, req, probe, found, masked, reply, acked>>
  BY Zenon DEF IInv, WriteCommand, Phases, PastSelect, boot
<1>2. drive_register' = drive_register
  BY <1>1, SelectedStatus, Zenon DEF Types
<1>3. /\ req.cmd \in Commands /\ req.cmd # "Store" /\ req.cmd # "hung"
      /\ req.block \in Blocks \cup {0}
  BY <1>1, Zenon DEF Phases, Types, Commands
<1>4. d \in Device /\ d.bits = {"BSY"} /\ d.cmd = req.cmd /\ d.block = req.block
  BY <1>3, Zenon DEF Device
<1>5. req.place \in Present => "BSY" \notin dev[req.place].bits BY <1>1, Zenon DEF Phases
<1>6. /\ Present' = Present /\ dev' \in [Present -> Device]
      /\ req.place \in Present => dev'[req.place] = d
      /\ \A q \in Present : q # req.place => dev'[q] = dev[q]
  <2>1. CASE req.place \in Present
    <3>1. dev' = [dev EXCEPT ![req.place] = d] BY <1>5, <2>1, Zenon DEF WriteCommand
    <3> HIDE DEF d
    <3> QED BY <1>1, <1>4, <2>1, <3>1, Zenon DEF Types, Present
  <2>2. CASE req.place \notin Present
    <3>1. dev' = dev BY <2>2, Zenon DEF WriteCommand
    <3> QED BY <1>1, <2>2, <3>1, Zenon DEF Types, Present
  <2> QED BY <2>1, <2>2, Zenon
<1> HIDE DEF d
<1>7. Types' BY <1>1, <1>2, <1>6, Zenon DEF Types, PastSelect
<1>8. SelectionCached' BY <1>1, <1>2, Zenon DEF SelectionCached
<1>9. Phases'
  <2>1. \A q \in Present :
          /\ {"ERR", "DRQ"} \subseteq dev'[q].bits => dev'[q].cmd = "Read"
          /\ dev'[q].cmd = "hung" => "BSY" \in dev'[q].bits
          /\ "BSY" \in dev'[q].bits => dev'[q].bits = {"BSY"}
          /\ dev'[q].cmd = "Store" => dev'[q].block \in Blocks
    BY <1>1, <1>3, <1>4, <1>6 DEF Phases
  <2> QED BY <1>1, <1>4, <1>6, <2>1, Zenon DEF Phases, PastSelect
<1>10. Stores'
  <2>1. \A q \in Present : Storing(q)' <=> Storing(q)
    BY <1>3, <1>4, <1>5, <1>6, Zenon DEF Storing
  <2>2. \A q \in Present : Storing(q) => dev'[q] = dev[q] BY <1>5, <1>6, Zenon DEF Storing
  <2>3. \A q, b : Target(q, b) = acked[q][b] /\ Target(q, b)' = acked[q][b] BY <1>1, Zenon DEF Target
  <2> QED BY <1>1, <1>6, <2>1, <2>2, <2>3 DEF Stores
<1>11. Replies' BY <1>1, Zenon DEF Replies
<1> QED BY <1>7, <1>8, <1>9, <1>10, <1>11, Zenon DEF IInv

LEMMA CheckIssuedPreserves ==
  ASSUME IInv, CheckIssued
  PROVE  IInv'
<1>1. Types /\ SelectionCached /\ Phases /\ pc = "issued" /\ LAST_SELECTED = req.place
  BY Zenon DEF IInv, CheckIssued, Phases, PastSelect
<1>2. req \in [cmd : Commands \cup {"none"}, place : Places, block : Blocks \cup {0},
               val : Values \cup {0}]
  BY <1>1, Zenon DEF Types
<1>3. CASE Status(bus) = {} \/ "ERR" \in Status(bus)
  <2>1. ReturnErr BY <1>3, Zenon DEF CheckIssued
  <2>2. UNCHANGED <<drives, registers, req, masked, acked>> BY <2>1, Zenon DEF ReturnErr
  <2>3. CASE req.cmd = "Identify"
    <3>1. Opened(req.place, FALSE) BY <2>1, <2>3, Zenon DEF ReturnErr
    <3>2. probe # 9 /\ req.place \in Places BY <1>1, <1>2, <2>3, Zenon DEF Phases
    <3>3. /\ pc' \in {"idle", "panicked"} /\ reply' = NoReply
          /\ probe' \in 0 .. 9 /\ found' \in Seq(Present)
          /\ Len(found') <= (IF probe' < 4 THEN probe' ELSE IF probe' < 9 THEN probe' - 4 ELSE 0)
      BY ONLY <1>1, <3>1, <3>2, OpenedTypes, Zenon
    <3>4. reply'.cmd # "Read" BY <3>3, Zenon DEF NoReply
    <3> QED BY <1>1, <1>2, <2>2, <3>3, <3>4, EndedPreserves, Zenon
  <2>4. CASE req.cmd # "Identify"
    <3>1. /\ pc' = "idle" /\ UNCHANGED <<probe, found>>
          /\ reply' = [cmd |-> req.cmd, ok |-> FALSE, val |-> 0]
      BY <2>1, <2>4, Zenon DEF ReturnErr
    <3>2. reply'.ok = FALSE BY <3>1, Zenon
    <3>3. /\ probe' \in 0 .. 9 /\ found' \in Seq(Present)
          /\ Len(found') <= (IF probe' < 4 THEN probe' ELSE IF probe' < 9 THEN probe' - 4 ELSE 0)
      BY <1>1, <3>1, Zenon DEF Types
    <3> QED BY <1>1, <1>2, <2>2, <3>1, <3>2, <3>3, EndedPreserves, Zenon
  <2> QED BY <2>3, <2>4, Zenon
<1>4. CASE ~ (Status(bus) = {} \/ "ERR" \in Status(bus))
  <2>1. pc' = "poll" /\ UNCHANGED <<drives, registers, req, boot, reply, acked>>
    BY <1>4, Zenon DEF CheckIssued
  <2>2. req.place \in Present BY <1>1, <1>4, SelectedStatus, Zenon
  <2>3. /\ UNCHANGED <<dev, drive_register, LAST_SELECTED, probe, found>> /\ Present' = Present
    BY <2>1, Zenon DEF drives, registers, boot, Present
  <2>4. SelectionCached' BY <1>1, <2>3, Zenon DEF SelectionCached
  <2>5. Phases' BY <1>1, <2>1, <2>2, <2>3, Zenon DEF Phases, PastSelect
  <2> QED BY <1>1, <1>2, <2>1, <2>3, <2>4, <2>5, MovePreserves, Zenon DEF Types
<1> QED BY <1>3, <1>4, Zenon

LEMMA AwaitDataPreserves ==
  ASSUME IInv, AwaitData
  PROVE  IInv'
<1>1. /\ Types /\ SelectionCached /\ Phases /\ pc = "poll" /\ LAST_SELECTED = req.place
      /\ req.place \in Present
      /\ "BSY" \notin Status(bus) /\ "DRQ" \in Status(bus)
      /\ pc' = "data" /\ UNCHANGED <<drives, registers, req, boot, reply, acked>>
  BY Zenon DEF IInv, AwaitData, Phases, PastSelect
<1>2. Status(bus) = dev[req.place].bits \cup {"DRDY"} BY <1>1, SelectedStatus, Zenon
<1>3. "BSY" \notin dev[req.place].bits /\ "DRQ" \in dev[req.place].bits BY <1>1, <1>2, Zenon
<1>4. /\ UNCHANGED <<dev, drive_register, LAST_SELECTED, probe, found>> /\ Present' = Present
  BY <1>1, Zenon DEF drives, registers, boot, Present
<1>5. SelectionCached' BY <1>1, <1>4, Zenon DEF SelectionCached
<1>6. Phases' BY <1>1, <1>3, <1>4, Zenon DEF Phases, PastSelect
<1> QED BY <1>1, <1>4, <1>5, <1>6, MovePreserves, Zenon DEF Types

\* At the transfer the drive has the command of the request and offers data; with
\* an error only to a read.
LEMMA DataReady ==
  ASSUME IInv, pc = "data"
  PROVE  /\ req.place \in Present /\ dev[req.place] \in Device
         /\ dev[req.place].cmd = req.cmd /\ dev[req.place].block = req.block
         /\ \/ dev[req.place].bits = {"DRQ"}
            \/ req.cmd = "Read" /\ dev[req.place].bits = {"DRQ", "ERR"}
<1>1. Types /\ Phases BY Zenon DEF IInv
<1>2. req.place \in Present BY <1>1, Zenon DEF Phases
<1>3. dev[req.place] \in Device BY <1>1, <1>2, Zenon DEF Types
<1>4. /\ dev[req.place].cmd \in {req.cmd, "hung"} /\ dev[req.place].block = req.block
      /\ "BSY" \notin dev[req.place].bits /\ "DRQ" \in dev[req.place].bits
  BY <1>1, <1>2, Zenon DEF Phases
<1>5. dev[req.place].cmd = req.cmd BY <1>1, <1>2, <1>4, Zenon DEF Phases
<1>6. dev[req.place].bits = {"DRQ"} \/ dev[req.place].bits = {"DRQ", "ERR"}
  BY <1>3, <1>4 DEF Device
<1>7. {"ERR", "DRQ"} \subseteq dev[req.place].bits => req.cmd = "Read"
  BY <1>1, <1>2, <1>5, Zenon DEF Phases
<1> QED BY <1>2, <1>3, <1>4, <1>5, <1>6, <1>7, Zenon

\* What the transfer leaves of the drive.
LEMMA TransferDrive ==
  ASSUME IInv, Transfer
  PROVE  \E d \in Device :
           /\ dev' = [dev EXCEPT ![req.place] = d]
           /\ \/ req.cmd # "Write" /\ d = Idle /\ dev[req.place].bits = {"DRQ"}
              \/ req.cmd = "Read" /\ d.cmd = "Read" /\ d.bits = {"ERR"}
                 /\ dev[req.place].bits # {"DRQ"}
              \/ req.cmd = "Write" /\ d.cmd = "Store" /\ d.bits = {"BSY"}
                 /\ d.block = req.block /\ d.val = req.val
<1> DEFINE p == req.place
           e == dev[p]
<1>1. pc = "data" BY Zenon DEF Transfer
<1>2. /\ p \in Present /\ e \in Device /\ e.cmd = req.cmd /\ e.block = req.block
      /\ e.bits = {"DRQ"} \/ (req.cmd = "Read" /\ e.bits = {"DRQ", "ERR"})
  BY <1>1, DataReady, Zenon
<1>3. req.val \in Values \cup {0} BY Zenon DEF IInv, Types
<1>4. CASE e.bits = {"DRQ"} /\ req.cmd # "Write"
  <2>1. dev' = [dev EXCEPT ![p] = Idle] BY <1>4, Zenon DEF Transfer
  <2>2. Idle \in Device BY Zenon DEF Idle, Device
  <2> QED BY <1>4, <2>1, <2>2, Zenon
<1>5. CASE e.bits = {"DRQ"} /\ req.cmd = "Write"
  <2> DEFINE d == [[[e EXCEPT !.bits = {"BSY"}] EXCEPT !.cmd = "Store"] EXCEPT !.val = req.val]
  <2>1. dev' = [dev EXCEPT ![p].bits = {"BSY"}, ![p].cmd = "Store", ![p].val = req.val]
    BY <1>5, Zenon DEF Transfer
  <2>2. dev' = [dev EXCEPT ![p] = d] BY <1>2, <2>1, Zenon DEF IInv, Types
  <2>3. d \in Device /\ d.cmd = "Store" /\ d.bits = {"BSY"} /\ d.block = e.block /\ d.val = req.val
    BY <1>2, <1>3, Zenon DEF Device
  <2> HIDE DEF d
  <2> QED BY <1>2, <1>5, <2>2, <2>3, Zenon
<1>6. CASE e.bits = {"DRQ", "ERR"} /\ req.cmd = "Read"
  <2> DEFINE d == [e EXCEPT !.bits = e.bits \ {"DRQ"}]
  <2>1. e.bits # {"DRQ"} BY <1>6
  <2>2. dev' = [dev EXCEPT ![p] = d] BY <2>1, Zenon DEF Transfer
  <2>3. d \in Device /\ d.bits = {"ERR"} /\ d.cmd = e.cmd BY <1>2, <1>6, Zenon DEF Device
  <2> HIDE DEF d
  <2> QED BY <1>2, <1>6, <2>1, <2>2, <2>3, Zenon
<1> QED BY <1>2, <1>4, <1>5, <1>6, Zenon

LEMMA TransferPreserves ==
  ASSUME IInv, Transfer
  PROVE  IInv'
<1>1. /\ Types /\ SelectionCached /\ Phases /\ Stores /\ pc = "data"
      /\ UNCHANGED <<media, faults, lost, drive_register, LAST_SELECTED, req, masked, acked>>
  BY Zenon DEF IInv, Transfer, registers
<1>2. PICK p \in Present :
        /\ p = req.place /\ dev[p].cmd = req.cmd /\ dev[p].block = req.block
        /\ "BSY" \notin dev[p].bits /\ ~ Storing(p)
  BY <1>1, DataReady, Zenon DEF Storing
<1>3. PICK d \in Device :
        /\ dev' = [dev EXCEPT ![p] = d]
        /\ \/ req.cmd # "Write" /\ d = Idle /\ dev[p].bits = {"DRQ"}
           \/ req.cmd = "Read" /\ d.cmd = "Read" /\ d.bits = {"ERR"} /\ dev[p].bits # {"DRQ"}
           \/ req.cmd = "Write" /\ d.cmd = "Store" /\ d.bits = {"BSY"}
              /\ d.block = req.block /\ d.val = req.val
  BY <1>2, TransferDrive, Zenon
<1>4. /\ Present' = Present /\ dev' \in [Present -> Device]
      /\ dev'[p] = d /\ \A q \in Present : q # p => dev'[q] = dev[q]
  BY <1>1, <1>2, <1>3, Zenon DEF Types, Present
<1>5. Idle.cmd = "none" /\ Idle.bits = {} BY Zenon DEF Idle
<1>6. req.cmd \in Commands /\ (req.cmd # "Identify" => req.block \in Blocks)
  BY <1>1, Zenon DEF Phases
<1>7. \A q \in Present :
        /\ {"ERR", "DRQ"} \subseteq dev'[q].bits => dev'[q].cmd = "Read"
        /\ dev'[q].cmd = "hung" => "BSY" \in dev'[q].bits
        /\ "BSY" \in dev'[q].bits => dev'[q].bits = {"BSY"}
        /\ dev'[q].cmd = "Store" => dev'[q].block \in Blocks
  <2> SUFFICES ASSUME NEW q \in Present
               PROVE  /\ {"ERR", "DRQ"} \subseteq dev'[q].bits => dev'[q].cmd = "Read"
                      /\ dev'[q].cmd = "hung" => "BSY" \in dev'[q].bits
                      /\ "BSY" \in dev'[q].bits => dev'[q].bits = {"BSY"}
                      /\ dev'[q].cmd = "Store" => dev'[q].block \in Blocks
    BY Zenon
  <2>1. CASE q # p BY <1>1, <1>4, <2>1 DEF Phases
  <2>2. CASE q = p BY <1>3, <1>4, <1>5, <1>6, <2>2, Zenon
  <2> QED BY <2>1, <2>2, Zenon
<1>8. SelectionCached' BY <1>1, Zenon DEF SelectionCached
<1>9. CASE req.cmd = "Identify"
  <2>1. Opened(p, TRUE) BY <1>2, <1>9, Zenon DEF Transfer
  <2>2. Types /\ p \in Places /\ p \in Present /\ probe # 9
    BY <1>1, <1>2, <1>9, Zenon DEF Types, Phases
  <2>3. /\ pc' \in {"idle", "panicked"} /\ reply' = NoReply
        /\ probe' \in 0 .. 9 /\ found' \in Seq(Present)
        /\ Len(found') <= (IF probe' < 4 THEN probe' ELSE IF probe' < 9 THEN probe' - 4 ELSE 0)
    BY ONLY <2>1, <2>2, OpenedTypes, Zenon
  <2>4. Types' BY <1>1, <1>4, <2>3, Zenon DEF Types, PastSelect
  <2>5. Phases' BY <1>1, <1>4, <1>7, <2>3, EndedPhases, Zenon
  <2>6. Stores'
    <3>1. \A q, b : Target(q, b) = acked[q][b] /\ Target(q, b)' = acked[q][b]
      BY <1>1, <2>3, Zenon DEF Target
    <3>2. ~ Storing(p)' BY <1>3, <1>4, <1>5, <1>9, Zenon DEF Storing
    <3>3. \A q \in Present : q # p => (Storing(q)' <=> Storing(q)) BY <1>4, Zenon DEF Storing
    <3> QED BY <1>1, <1>2, <1>4, <3>1, <3>2, <3>3 DEF Stores
  <2>7. Replies' BY <2>3, Zenon DEF Replies, NoReply
  <2> QED BY <1>8, <2>4, <2>5, <2>6, <2>7, Zenon DEF IInv
<1>10. CASE req.cmd # "Identify"
  <2>1. PICK v \in Values :
          /\ req.cmd = "Read" /\ dev[p].bits = {"DRQ"} => v = media[p][dev[p].block]
          /\ reply' = [cmd |-> req.cmd, ok |-> TRUE, val |-> v]
    BY <1>2, <1>10, Zenon DEF Transfer
  <2>2. pc' = "check" /\ UNCHANGED <<probe, found>> BY <1>10, Zenon DEF Transfer
  <2>3. Types' BY <1>1, <1>4, <2>2, Zenon DEF Types, PastSelect
  <2>4. Phases' BY <1>1, <1>2, <1>4, <1>7, <1>10, <2>2, Zenon DEF Phases, PastSelect
  <2>5. Stores'
    <3>1. \A q, b : Target(q, b) = acked[q][b] BY <1>1, Zenon DEF Target
    <3> DEFINE new(q, b) == IF req.cmd = "Write" /\ q = p /\ b = req.block
                            THEN req.val ELSE acked[q][b]
    <3>2. \A q, b : Target(q, b)' = new(q, b)
      BY <1>1, <1>2, <2>2, Zenon DEF Target
    <3>3. Storing(p)' <=> req.cmd = "Write" BY <1>2, <1>3, <1>4, <1>5, Zenon DEF Storing
    <3>4. \A q \in Present : q # p => (Storing(q)' <=> Storing(q)) BY <1>4, Zenon DEF Storing
    <3> SUFFICES ASSUME NEW q \in Present
                 PROVE  /\ Storing(q)' => dev'[q].val = new(q, dev'[q].block)
                        /\ \A b \in Blocks :
                             <<q, b>> \notin lost /\ ~ (Storing(q)' /\ dev'[q].block = b)
                               => media[q][b] = new(q, b)
      BY <1>1, <1>4, <3>2, Zenon DEF Stores
    <3>5. CASE q # p
      <4>1. \A b : new(q, b) = Target(q, b) BY <3>1, <3>5, Zenon
      <4>2. dev'[q] = dev[q] /\ (Storing(q)' <=> Storing(q)) BY <1>4, <3>4, <3>5, Zenon
      <4> HIDE DEF new
      <4> QED BY <1>1, <4>1, <4>2 DEF Stores
    <3>6. CASE q = p /\ req.cmd = "Write"
      <4>1. dev'[q].val = req.val /\ dev'[q].block = req.block BY <1>3, <1>4, <1>5, <3>6, Zenon
      <4>2. \A b \in Blocks : b # req.block /\ <<q, b>> \notin lost => media[q][b] = acked[q][b]
        BY <1>1, <1>2, <3>1, <3>6, Zenon DEF Stores
      <4> QED BY <1>1, <3>3, <3>6, <4>1, <4>2, Zenon
    <3>7. CASE q = p /\ req.cmd # "Write"
      <4>1. \A b \in Blocks : <<q, b>> \notin lost => media[q][b] = acked[q][b]
        BY <1>1, <1>2, <3>1, <3>7, Zenon DEF Stores
      <4> QED BY <1>1, <3>3, <3>7, <4>1, Zenon
    <3> QED BY <3>5, <3>6, <3>7, Zenon
  <2>6. Replies'
    <3>1. reply'.cmd = req.cmd /\ reply'.val = v BY <2>1, Zenon
    <3>2. req.cmd = "Read" => "BSY" \notin dev'[p].bits BY <1>3, <1>4, <1>5, Zenon
    <3>3. req.cmd = "Read" /\ "ERR" \notin dev'[p].bits => v = media[p][req.block]
      BY <1>2, <1>3, <1>4, <2>1, Zenon
    <3> QED BY <1>1, <1>2, <2>2, <3>1, <3>2, <3>3, Zenon DEF Replies
  <2> QED BY <1>8, <2>3, <2>4, <2>5, <2>6, Zenon DEF IInv
<1> QED BY <1>9, <1>10, Zenon

\* read and write return: the write counts from now on.
LEMMA CheckDataPreserves ==
  ASSUME IInv, CheckData
  PROVE  IInv'
<1>1. /\ Types /\ SelectionCached /\ Phases /\ Stores /\ Replies /\ pc = "check"
      /\ req.place \in Present /\ req.cmd \in {"Read", "Write"} /\ req.block \in Blocks
      /\ LAST_SELECTED = req.place /\ req.val \in Values \cup {0}
      /\ UNCHANGED <<drives, registers, req, boot, reply>>
  BY Zenon DEF IInv, CheckData, Phases, PastSelect, Commands, Types
<1>2. /\ UNCHANGED <<dev, media, faults, lost, drive_register, LAST_SELECTED, probe, found>>
      /\ Present' = Present
  BY <1>1, Zenon DEF drives, registers, boot, Present
<1>3. /\ pc' \in {"idle", "panicked"} /\ acked' \in [Present -> Sectors]
      /\ pc' # "panicked" => \A q \in Present, b \in Blocks : acked'[q][b] = Target(q, b)
  <2>1. CASE "ERR" \in Status(bus) BY <1>1, <2>1, Zenon DEF CheckData, Types
  <2>2. CASE "ERR" \notin Status(bus) /\ req.cmd = "Read"
    BY <1>1, <2>2, Zenon DEF CheckData, Types, Target
  <2>3. CASE "ERR" \notin Status(bus) /\ req.cmd = "Write"
    <3>1. pc' = "idle" /\ acked' = [acked EXCEPT ![req.place][req.block] = req.val]
      BY <2>3, Zenon DEF CheckData
    <3>2. acked \in [Present -> Sectors] BY <1>1, Zenon DEF Types
    <3>3. acked' \in [Present -> Sectors] BY <1>1, <3>1, <3>2, Zenon DEF Sectors
    <3>4. \A q \in Present, b \in Blocks :
            acked'[q][b] = IF q = req.place /\ b = req.block THEN req.val ELSE acked[q][b]
      BY <1>1, <3>1, <3>2, Zenon DEF Sectors
    <3> QED BY <1>1, <2>3, <3>1, <3>3, <3>4 DEF Target
  <2> QED BY <1>1, <2>1, <2>2, <2>3, Zenon
<1>4. Types' BY <1>1, <1>2, <1>3, Zenon DEF Types, PastSelect
<1>5. SelectionCached' BY <1>1, <1>2, Zenon DEF SelectionCached
<1>6. Phases' BY <1>1, <1>2, <1>3, EndedPhases, Zenon DEF Phases
<1>7. Stores'
  <2> SUFFICES ASSUME pc' # "panicked", NEW q \in Present
               PROVE  /\ Storing(q) => dev[q].val = acked'[q][dev[q].block]
                      /\ \A b \in Blocks :
                           <<q, b>> \notin lost /\ ~ (Storing(q) /\ dev[q].block = b)
                             => media[q][b] = acked'[q][b]
    <3>1. \A q, b : Target(q, b)' = acked'[q][b] BY <1>3, Zenon DEF Target
    <3>2. \A q : Storing(q)' <=> Storing(q) BY <1>2, Zenon DEF Storing
    <3> QED BY <1>2, <3>1, <3>2, Zenon DEF Stores
  <2>1. Storing(q) => dev[q].block \in Blocks BY <1>1, Zenon DEF Phases, Storing
  <2> QED BY <1>1, <1>3, <2>1, SMTT(30) DEF Stores
<1>8. Replies'
  <2> SUFFICES ASSUME pc' = "idle", req.cmd = "Read"
               PROVE  /\ "BSY" \notin dev[req.place].bits
                      /\ reply.val = media[req.place][req.block]
    BY <1>1, <1>2, <1>3, Zenon DEF Replies
  <2>1. "ERR" \notin Status(bus) BY Zenon DEF CheckData
  <2>2. "ERR" \notin dev[req.place].bits BY <1>1, <2>1, SelectedStatus, Zenon
  <2> QED BY <1>1, <2>2, Zenon DEF Replies
<1> QED BY <1>4, <1>5, <1>6, <1>7, <1>8, Zenon DEF IInv

\* poll gives up: the kernel panics.
LEMMA TimeoutPreserves ==
  ASSUME IInv, Timeout \/ TimeoutSlow
  PROVE  IInv'
<1>0. /\ MaxFaults \in Nat /\ faults \in 0 .. MaxFaults
      /\ faults' = faults \/ (faults < MaxFaults /\ faults' = faults + 1)
  BY AtaAssumption, Zenon DEF IInv, Types, Timeout, TimeoutSlow, drives
<1>1. /\ Types /\ SelectionCached /\ Phases /\ pc' = "panicked"
      /\ UNCHANGED <<dev, media, lost, drive_register, LAST_SELECTED, req, probe,
                     found, masked, reply, acked>>
      /\ Present' = Present
  BY Zenon DEF IInv, Timeout, TimeoutSlow, drives, registers, boot, Present
<1>2. Types'
  <2>1. faults' \in 0 .. MaxFaults BY ONLY <1>0
  <2> QED BY <1>1, <2>1, Zenon DEF Types
<1>3. SelectionCached' BY <1>1, Zenon DEF SelectionCached
<1>4. Phases' BY <1>1, EndedPhases, Zenon DEF Phases
<1>5. Stores' BY <1>1, Zenon DEF Stores
<1>6. Replies' BY <1>1, Zenon DEF Replies
<1> QED BY <1>2, <1>3, <1>4, <1>5, <1>6, Zenon DEF IInv

\* Interrupts are masked, or nothing happens.
LEMMA SamePreserves ==
  ASSUME IInv, UNCHANGED <<drives, registers, pc, req, probe, found, reply, acked>>
  PROVE  IInv'
<1>1. /\ UNCHANGED <<dev, media, faults, lost, drive_register, LAST_SELECTED, pc, req, probe,
                     found, reply, acked>>
      /\ Present' = Present
  BY Zenon DEF drives, registers, Present
<1>2. Types' BY <1>1, Zenon DEF IInv, Types
<1>3. SelectionCached' BY <1>1, Zenon DEF IInv, SelectionCached
<1>4. Phases' BY <1>1, Zenon DEF IInv, Phases
<1>5. Stores' BY <1>1 DEF IInv, Stores, Storing, Target
<1>6. Replies' BY <1>1, Zenon DEF IInv, Replies
<1> QED BY <1>2, <1>3, <1>4, <1>5, <1>6, Zenon DEF IInv

-----------------------------------------------------------------------------
(***************************************************************************)
(* The invariant.                                                          *)
(***************************************************************************)
LEMMA InitIInv == Init => IInv
<1> SUFFICES ASSUME Init PROVE IInv BY Zenon
<1>1. PICK m \in Machines : dev = [p \in m |-> Idle] BY Zenon DEF Init
<1>2. m \subseteq Places /\ Present = m BY <1>1, AtaAssumption, Zenon DEF Present
<1>3. Idle \in Device /\ Idle.bits = {} /\ Idle.cmd = "none" BY Zenon DEF Idle, Device
<1>4. /\ media = [p \in Present |-> [b \in Blocks |-> 0]] /\ acked = media
      /\ drive_register = [b \in Buses |-> 0] /\ LAST_SELECTED = <<>> /\ pc = "idle"
      /\ req = [cmd |-> "none", place |-> <<0, 0>>, block |-> 0, val |-> 0]
      /\ probe = 0 /\ found = <<>> /\ faults = 0 /\ reply = NoReply
  BY Zenon DEF Init
<1>5. media \in [Present -> Sectors] BY <1>4, Zenon DEF Sectors
<1>6. /\ found \in Seq(Present) /\ Len(found) = 0
  BY <1>4, EmptySeq, Zenon
<1>7. dev \in [Present -> Device] BY <1>1, <1>2, <1>3, Zenon
<1>8. <<0, 0>> \in Places BY Zenon DEF Places, Buses
<1>9. req \in [cmd : Commands \cup {"none"}, place : Places, block : Blocks \cup {0},
               val : Values \cup {0}]
  BY <1>4, <1>8, Zenon
<1>10. Types
  <2>1. probe \in 0 .. 9 /\ faults \in 0 .. MaxFaults BY <1>4, AtaAssumption
  <2>2. Len(found) <= (IF probe < 4 THEN probe ELSE IF probe < 9 THEN probe - 4 ELSE 0)
    BY <1>4, <1>6
  <2>3. drive_register \in [Buses -> {0, 1}] BY <1>4, Zenon
  <2>4. /\ LAST_SELECTED \in Places \cup {<<>>}
        /\ pc \in PastSelect \cup {"idle", "select", "panicked"}
    BY <1>4, Zenon
  <2> QED BY <1>2, <1>4, <1>5, <1>6, <1>7, <1>9, <2>1, <2>2, <2>3, <2>4, Zenon DEF Types
<1>11. SelectionCached BY <1>4, Zenon DEF SelectionCached
<1>12. \A p \in Present : dev[p].bits = {} /\ dev[p].cmd = "none" BY <1>1, <1>2, <1>3, Zenon
<1>13. Phases BY <1>4, <1>12, Zenon DEF Phases, PastSelect
<1>14. Stores BY <1>4, <1>12, Zenon DEF Stores, Storing, Target
<1>15. Replies BY <1>4, Zenon DEF Replies, NoReply
<1> QED BY <1>10, <1>11, <1>13, <1>14, <1>15, Zenon DEF IInv

LEMMA NextIInv == IInv /\ [Next]_vars => IInv'
<1> SUFFICES ASSUME IInv, [Next]_vars PROVE IInv' BY Zenon
<1>1. CASE Driver
  BY <1>1, OpenPreserves, SelectDrivePreserves, AwaitSelectedPreserves, WriteCommandPreserves,
     CheckIssuedPreserves, AwaitDataPreserves, TransferPreserves, CheckDataPreserves,
     TimeoutPreserves, Zenon
     DEF Driver
<1>2. ASSUME NEW p \in Present, Finish(p) \/ Fail(p) \/ Hang(p) PROVE IInv'
  BY <1>2, FinishPreserves, FaultPreserves, Zenon
<1>3. ASSUME NEW p \in Present \cup {<<0, 1>>}, NEW b \in Blocks,
             \/ Request("Read", p, b, 0)
             \/ \E v \in Values : Request("Write", p, b, v)
      PROVE  IInv'
  <2>1. p \in Places BY DEF IInv, Types, Places, Buses
  <2>2. CASE Request("Read", p, b, 0) BY <2>1, <2>2, RequestPreserves, Zenon
  <2>3. ASSUME NEW v \in Values, Request("Write", p, b, v) PROVE IInv'
    BY <2>1, <2>3, RequestPreserves, Zenon
  <2> QED BY <1>3, <2>2, <2>3, Zenon
<1>4. CASE StartProcesses BY <1>4, SamePreserves, Zenon DEF StartProcesses
<1>5. CASE UNCHANGED vars BY <1>5, SamePreserves, Zenon DEF vars, boot
<1>6. CASE TimeoutSlow BY <1>6, TimeoutPreserves, Zenon
<1> QED BY <1>1, <1>2, <1>3, <1>4, <1>5, <1>6, Zenon DEF Next

\* The driver's invariant, for any drives, sectors, values and failures.
THEOREM DriverInvariance == Spec => []IInv
BY InitIInv, NextIInv, PTL DEF Spec

\* The lists of init never hold more than four drives, all of them present, and
\* the registers and program points keep their types.
THEOREM DriverTypeCorrect == Spec => []TypeOK
<1>1. IInv => TypeOK
  <2> SUFFICES ASSUME Types PROVE TypeOK BY Zenon DEF IInv
  <2>1. \A p \in Present :
          /\ dev[p].bits \subseteq {"BSY", "DRQ", "ERR"}
          /\ dev[p].cmd \in Commands \cup {"Store", "hung", "none"}
          /\ dev[p].block \in Blocks \cup {0}
    BY Zenon DEF Types, Device
  <2>2. found \in Seq(Present) BY Zenon DEF Types
  <2>3. Len(found) \in Nat /\ DOMAIN found = 1 .. Len(found)
        /\ \A i \in 1 .. Len(found) : found[i] \in Present
    BY <2>2, LenProperties, ElementOfSeq, Zenon
  <2>4. Range(found) \subseteq Present BY <2>3, Zenon DEF Range
  <2>5. probe \in 0 .. 9 /\ Len(found) <= 4
    BY <2>3 DEF Types
  <2>6. /\ drive_register \in [Buses -> {0, 1}]
        /\ LAST_SELECTED \in Places \cup {<<>>} /\ faults \in 0 .. MaxFaults
    BY Zenon DEF Types
  <2>7. pc \in {"idle", "select", "selected", "params", "issued", "poll", "data", "check",
                "panicked"}
    BY Zenon DEF Types, PastSelect
  <2> QED BY <2>1, <2>4, <2>5, <2>6, <2>7, Zenon DEF TypeOK
<1> QED BY <1>1, DriverInvariance, PTL

\* LAST_SELECTED always names the drive its bus has selected, so that select_drive
\* may skip the switch.
THEOREM SelectionRight == Spec => []SelectionCached
<1>1. IInv => SelectionCached BY Zenon DEF IInv
<1> QED BY <1>1, DriverInvariance, PTL

\* A read that returns Ok has the value of the last write to the sector that
\* returned Ok, unless the drive lost it after write had returned.
THEOREM ReadsRight == Spec => []ReadsLastWrite
<1>1. IInv => ReadsLastWrite
  <2> SUFFICES ASSUME IInv, pc = "idle", reply.cmd = "Read", reply.ok,
                      <<req.place, req.block>> \notin lost
               PROVE  reply.val = acked[req.place][req.block]
    BY Zenon DEF ReadsLastWrite
  <2>1. /\ req.place \in Present /\ req.block \in Blocks
        /\ "BSY" \notin dev[req.place].bits
        /\ reply.val = media[req.place][req.block]
    BY Zenon DEF IInv, Replies
  <2>2. ~ Storing(req.place) BY <2>1, Zenon DEF Storing
  <2>3. media[req.place][req.block] = Target(req.place, req.block)
    BY <2>1, <2>2, Zenon DEF IInv, Stores
  <2> QED BY <2>1, <2>3, Zenon DEF Target
<1> QED BY <1>1, DriverInvariance, PTL

\* A command is never written to a drive that is busy or has data waiting.
THEOREM CommandsWait == Spec => CommandsToReadyDrives
<1>1. IInv /\ [Next]_vars =>
        [pc = "params" /\ pc' = "issued" =>
           (req.place \in Present => {"BSY", "DRQ"} \cap dev[req.place].bits = {})]_vars
  BY Zenon DEF IInv, Phases
<1> QED BY <1>1, DriverInvariance, PTL DEF Spec, CommandsToReadyDrives

-----------------------------------------------------------------------------
(***************************************************************************)
(* Without a failure.                                                      *)
(***************************************************************************)

\* A bus with a drive does not float.
LEMMA DrivenBus ==
  ASSUME IInv, NEW b \in Buses
  PROVE  (\E q \in Present : q[1] = b) <=> Status(b) # {"BSY", "DRDY", "DRQ", "ERR"}
<1> DEFINE p == <<b, drive_register[b]>>
<1>1. CASE p \in Present
  <2>1. Status(b) = dev[p].bits \cup {"DRDY"} BY <1>1, Zenon DEF Status
  <2>2. "BSY" \in dev[p].bits => dev[p].bits = {"BSY"} BY <1>1, Zenon DEF IInv, Phases
  <2>3. p[1] = b BY Zenon
  <2> QED BY <1>1, <2>1, <2>2, <2>3
<1>2. CASE p \notin Present BY <1>2, Zenon DEF Status
<1> QED BY <1>1, <1>2, Zenon

\* Only the bus of a request and the drives matter to Healthy.
LEMMA SameDrivesHealthy ==
  ASSUME Healthy, UNCHANGED <<dev, faults>>,
         pc' \notin {"idle", "panicked"} => \E p \in Present : p[1] = bus',
         faults = 0 => pc' # "panicked",
         \/ pc \notin {"issued", "poll", "data"}
         \/ req.place \notin Present
         \/ pc' \in {"issued", "poll", "data"} /\ req' = req
  PROVE  Healthy'
<1>1. Present' = Present BY Zenon DEF Present
<1>2. \A p \in Present : p[1] = 0 => \E q \in Present' : q[1] = 0 BY <1>1, Zenon
<1> QED BY <1>1, <1>2 DEF Healthy

LEMMA DriveHealthy ==
  ASSUME IInv, Healthy, NEW p \in Present, Finish(p) \/ Fail(p) \/ Hang(p)
  PROVE  Healthy'
<1>1. Present' = Present /\ pc' = pc /\ req' = req /\ bus' = bus
  BY Zenon DEF Finish, Fail, Hang, Present, bus, boot, registers
<1>2. CASE Finish(p)
  <2>1. faults' = faults /\ "BSY" \in dev[p].bits BY <1>2, Zenon DEF Finish, Busy
  <2>2. \A q \in Present : q # p => dev'[q] = dev[q] BY <1>2, Zenon DEF Finish, Present
  <2>3. dev[p] \in Device BY Zenon DEF IInv, Types
  <2>4. \/ dev'[p].cmd = "none" /\ dev'[p].bits = {}
        \/ dev'[p].cmd = dev[p].cmd /\ dev'[p].bits = {"DRQ"} /\ dev[p].cmd # "Store"
    BY <1>2, <2>3 DEF Finish, Idle, Device, Present
  <2> QED BY <1>1, <2>1, <2>2, <2>4 DEF Healthy
<1>3. CASE Fail(p) \/ Hang(p)
  <2>1. faults \in Nat /\ faults' = faults + 1 BY <1>3 DEF Fail, Hang, IInv, Types
  <2>2. faults' # 0 BY <2>1
  <2> QED BY <1>1, <2>2, Zenon DEF Healthy
<1> QED BY <1>2, <1>3, Zenon

LEMMA OpenHealthy ==
  ASSUME IInv, Healthy, Open
  PROVE  Healthy'
<1>1. /\ UNCHANGED <<dev, faults>> /\ pc = "idle"
  BY Zenon DEF Open, drives
<1>2. CASE probe = 8 /\ found = <<>>
  BY <1>1, <1>2, SameDrivesHealthy, Zenon DEF Open
<1>3. CASE ~ (probe = 8 /\ found = <<>>)
  <2> DEFINE p == IF probe < 8 THEN Nth(probe) ELSE LikelyDisk
  <2>1. PICK r \in Places :
          /\ r = p /\ req'.place = r /\ (probe = 8 => r \in Present)
          /\ IF Status(r[1]) = {"BSY", "DRDY", "DRQ", "ERR"}
             THEN Opened(r, FALSE) ELSE pc' = "select"
    <3>1. req' = [cmd |-> "Identify", place |-> p, block |-> 0, val |-> 0]
      BY <1>3, Zenon DEF Open
    <3>2. IF Status(p[1]) = {"BSY", "DRDY", "DRQ", "ERR"}
          THEN Opened(p, FALSE) ELSE pc' = "select"
      BY <1>3, Zenon DEF Open
    <3>3. probe \in 0 .. 8 BY DEF IInv, Types, Open
    <3>4. p \in Places /\ (probe = 8 => p \in Present)
      <4>1. CASE probe < 8
        <5>1. Nth(probe) \in Places BY <3>3 DEF Nth, Places, Buses
        <5> QED BY <3>3, <4>1, <5>1
      <4>2. CASE probe = 8
        <5>1. LikelyDisk \in Present BY <1>3, <4>2, LikelyDiskFound, Zenon DEF IInv
        <5>2. LikelyDisk \in Places BY <5>1, Zenon DEF IInv, Types
        <5> QED BY <4>2, <5>1, <5>2
      <4> QED BY <3>3, <4>1, <4>2
    <3>5. req'.place = p BY <3>1, Zenon
    <3> HIDE DEF p
    <3> QED BY <3>2, <3>4, <3>5, Zenon
  <2> HIDE DEF p
  <2>2. r[1] \in Buses BY PlaceShape, Zenon
  <2>3. bus' = r[1] BY <2>1, Zenon DEF bus
  <2>4. CASE Status(r[1]) = {"BSY", "DRDY", "DRQ", "ERR"}
    <3>1. ~ \E q \in Present : q[1] = r[1] BY <2>2, <2>4, DrivenBus, Zenon
    <3>2. probe # 8 BY <2>1, <3>1, Zenon
    <3>3. pc' = "idle" BY <2>1, <2>4, <3>2, Zenon DEF Opened
    <3> QED BY <1>1, <3>3, SameDrivesHealthy, Zenon
  <2>5. CASE Status(r[1]) # {"BSY", "DRDY", "DRQ", "ERR"}
    <3>1. \E q \in Present : q[1] = bus' BY <2>2, <2>3, <2>5, DrivenBus, Zenon
    <3>2. pc' = "select" BY <2>1, <2>5, Zenon
    <3> QED BY <1>1, <3>1, <3>2, SameDrivesHealthy, Zenon
  <2> QED BY <2>4, <2>5, Zenon
<1> QED BY <1>2, <1>3, Zenon

LEMMA RequestHealthy ==
  ASSUME Healthy, NEW cmd, NEW p \in Present \cup {<<0, 1>>}, NEW b, NEW v,
         Request(cmd, p, b, v)
  PROVE  Healthy'
<1>1. /\ UNCHANGED <<dev, faults>> /\ pc = "idle" /\ pc' = "select" /\ bus' = p[1]
  BY Zenon DEF Request, drives, bus
<1>2. \E q \in Present : q[1] = 0 BY Zenon DEF Healthy
<1>3. \E q \in Present : q[1] = bus'
  <2>1. CASE p \in Present BY <1>1, <2>1, Zenon
  <2>2. CASE p = <<0, 1>> BY <1>1, <1>2, <2>2, Zenon
  <2> QED BY <2>1, <2>2, Zenon
<1> QED BY <1>1, <1>3, SameDrivesHealthy, Zenon

\* The steps of a request that leave the drives alone, but for its end.
LEMMA SelectHealthy ==
  ASSUME Healthy, SelectDrive \/ AwaitSelected \/ AwaitData
  PROVE  Healthy'
<1>1. /\ UNCHANGED <<dev, faults, req>> /\ bus' = bus
      /\ pc \in {"select", "selected", "poll"}
      /\ pc' \in {"selected", "params", "data"}
      /\ pc = "poll" => pc' = "data"
  BY Zenon DEF SelectDrive, AwaitSelected, AwaitData, drives, bus
<1>2. \E p \in Present : p[1] = bus BY <1>1, Zenon DEF Healthy
<1> QED BY <1>1, <1>2, SameDrivesHealthy, Zenon

LEMMA WriteCommandHealthy ==
  ASSUME IInv, Healthy, WriteCommand
  PROVE  Healthy'
<1>1. /\ UNCHANGED <<faults, req>> /\ bus' = bus /\ pc = "params" /\ pc' = "issued"
      /\ req.cmd \in Commands
  BY Zenon DEF WriteCommand, bus, IInv, Phases
<1>2. PICK p \in Places : p = req.place BY Zenon DEF IInv, Types
<1>3. \/ dev' = dev
      \/ /\ p \in Present
         /\ dev' = [dev EXCEPT ![p] = [bits |-> {"BSY"}, cmd |-> req.cmd,
                                       block |-> req.block, val |-> 0]]
  BY <1>2, Zenon DEF WriteCommand
<1>4. Present' = Present BY <1>3, Zenon DEF Present
<1>5. \A q \in Present :
        \/ dev'[q] = dev[q]
        \/ q = req.place /\ dev'[q].cmd = req.cmd /\ dev'[q].bits = {"BSY"}
  BY <1>2, <1>3 DEF Present
<1> QED BY <1>1, <1>4, <1>5 DEF Healthy

LEMMA CheckIssuedHealthy ==
  ASSUME IInv, Healthy, CheckIssued
  PROVE  Healthy'
<1>1. /\ pc = "issued" /\ LAST_SELECTED = req.place
      /\ probe = 8 => req.place \in Present
  BY Zenon DEF CheckIssued, IInv, Phases, PastSelect
<1>2. UNCHANGED <<dev, faults, req>> /\ bus' = bus
  BY Zenon DEF CheckIssued, ReturnErr, drives, bus
<1>3. \E p \in Present : p[1] = bus BY <1>1, Zenon DEF Healthy
<1>4. CASE faults # 0
  <2>1. Present' = Present BY <1>2, Zenon DEF Present
  <2> QED BY <1>2, <1>3, <1>4, <2>1, Zenon DEF Healthy
<1>5. CASE faults = 0 /\ req.place \in Present
  <2>1. Status(bus) = dev[req.place].bits \cup {"DRDY"}
    BY <1>1, <1>5, SelectedStatus, Zenon DEF IInv
  <2>2. "ERR" \notin dev[req.place].bits BY <1>5 DEF Healthy
  <2>3. pc' = "poll" BY <2>1, <2>2, Zenon DEF CheckIssued
  <2> QED BY <1>2, <1>3, <2>3, SameDrivesHealthy, Zenon
<1>6. CASE faults = 0 /\ req.place \notin Present
  <2>1. Status(bus) = {} \/ "ERR" \in Status(bus)
    BY <1>1, <1>6, SelectedStatus, Zenon DEF IInv
  <2>2. ReturnErr BY <2>1, Zenon DEF CheckIssued
  <2>3. pc' = "idle" BY <1>1, <1>6, <2>2, Zenon DEF ReturnErr, Opened
  <2> QED BY <1>2, <1>6, <2>3, SameDrivesHealthy, Zenon
<1> QED BY <1>4, <1>5, <1>6, Zenon

LEMMA TransferHealthy ==
  ASSUME IInv, Healthy, Transfer
  PROVE  Healthy'
<1>1. PICK p \in Present : p = req.place BY Zenon DEF IInv, Phases, Transfer
<1>2. /\ UNCHANGED <<faults, req>> /\ bus' = bus /\ pc = "data"
      /\ dev[p] \in Device /\ dev \in [Present -> Device]
      /\ dev[p].cmd \in {req.cmd, "hung"} /\ "BSY" \notin dev[p].bits /\ "DRQ" \in dev[p].bits
  BY <1>1, Zenon DEF Transfer, bus, IInv, Types, Phases
<1>3. \E q \in Present : q[1] = bus BY <1>2, Zenon DEF Healthy
<1>4. pc' \in {"idle", "check"} BY Zenon DEF Transfer, Opened
<1>5. \A q \in Present : q # p => dev'[q] = dev[q]
  BY <1>1, <1>2, Zenon DEF Transfer
<1>6. Present' = Present BY <1>1, <1>2, Zenon DEF Transfer, Present
<1>7. ASSUME faults = 0
      PROVE  \/ dev'[p].cmd = "none" /\ dev'[p].bits = {}
             \/ dev'[p].cmd = "Store" /\ dev'[p].bits = {"BSY"}
  <2>1. dev[p].bits = {"DRQ"} BY <1>2, <1>7, Zenon DEF Healthy
  <2>2. dev' = IF req.cmd = "Write"
               THEN [dev EXCEPT ![p].bits = {"BSY"}, ![p].cmd = "Store", ![p].val = req.val]
               ELSE [dev EXCEPT ![p] = Idle]
    BY <1>1, <2>1, Zenon DEF Transfer
  <2> QED BY <1>2, <2>2, Zenon DEF Idle, Device
<1> QED BY <1>1, <1>2, <1>3, <1>4, <1>5, <1>6, <1>7 DEF Healthy

LEMMA CheckDataHealthy ==
  ASSUME IInv, Healthy, CheckData
  PROVE  Healthy'
<1>1. /\ pc = "check" /\ LAST_SELECTED = req.place /\ req.place \in Present
      /\ UNCHANGED <<dev, faults, req>> /\ pc' \in {"idle", "panicked"}
  BY Zenon DEF CheckData, IInv, Phases, PastSelect, drives
<1>2. Status(bus) = dev[req.place].bits \cup {"DRDY"} BY <1>1, SelectedStatus, Zenon DEF IInv
<1>3. faults = 0 => "ERR" \notin dev[req.place].bits BY <1>1 DEF Healthy
<1>4. faults = 0 => pc' # "panicked" BY <1>2, <1>3, Zenon DEF CheckData
<1> QED BY <1>1, <1>4, SameDrivesHealthy, Zenon

\* poll gives up only on a drive that failed.
LEMMA TimeoutHealthy ==
  ASSUME IInv, Healthy, Timeout
  PROVE  Healthy'
<1>1. /\ Stuck /\ UNCHANGED <<dev, faults, req>> /\ pc' = "panicked"
  BY Zenon DEF Timeout, drives
<1>2. pc \in {"select", "selected", "poll"} BY <1>1, Zenon DEF Stuck, Polling
<1>3. faults # 0
  <2> SUFFICES ASSUME faults = 0 PROVE FALSE BY Zenon
  <2> DEFINE s == <<bus, drive_register[bus]>>
  <2>1. \E p \in Present : p[1] = bus BY <1>2, Zenon DEF Healthy
  <2>2. s \in Present => Status(bus) = dev[s].bits \cup {"DRDY"} BY Zenon DEF Status
  <2>3. s \notin Present => Status(bus) = {} BY <2>1, Zenon DEF Status
  <2>4. s \in Present => ~ Busy(s) BY <1>1, Zenon DEF Stuck
  <2> HIDE DEF s
  <2>5. CASE pc # "poll"
    <3>1. {"BSY", "DRQ"} \cap Status(bus) # {} BY <1>1, <2>5, Zenon DEF Stuck, Polling, Settled
    <3>2. s \in Present /\ {"BSY", "DRQ"} \cap dev[s].bits # {} BY <2>2, <2>3, <3>1, Zenon
    <3>3. dev[s].cmd = "Store" /\ dev[s].bits = {"BSY"}
      BY <1>2, <2>5, <3>2, Zenon DEF Healthy
    <3> QED BY <2>4, <3>2, <3>3, Zenon DEF Busy
  <2>6. CASE pc = "poll"
    <3>1. req.place \in Present /\ LAST_SELECTED = req.place /\ req.cmd \in Commands
          /\ dev[req.place].cmd \in {req.cmd, "hung"}
      BY <2>6, Zenon DEF IInv, Phases, PastSelect
    <3>2. s = req.place BY <3>1, SelectedStatus, Zenon DEF IInv, s
    <3>3. dev[s].cmd \in Commands /\ dev[s].bits \in {{"BSY"}, {"DRQ"}}
      BY <3>1, <3>2, Zenon DEF Healthy, Commands
    <3>4. dev[s].bits = {"DRQ"} BY <2>4, <3>1, <3>2, <3>3, Zenon DEF Busy, Commands
    <3>5. "BSY" \notin Status(bus) /\ "DRQ" \in Status(bus) BY <2>2, <3>1, <3>2, <3>4, Zenon
    <3> QED BY <1>1, <2>6, <3>5, Zenon DEF Stuck, Polling
  <2> QED BY <2>5, <2>6, Zenon
<1>4. Present' = Present BY <1>1, Zenon DEF Present
<1> QED BY <1>1, <1>3, <1>4, Zenon DEF Healthy

\* A drive that takes more than a second is not healthy.
LEMMA TimeoutSlowHealthy ==
  ASSUME IInv, Healthy, TimeoutSlow
  PROVE  Healthy'
<1>1. faults \in Nat /\ faults' = faults + 1 BY DEF TimeoutSlow, IInv, Types
<1>2. faults' # 0 BY <1>1
<1>3. UNCHANGED <<dev, req>> /\ Present' = Present BY Zenon DEF TimeoutSlow, Present
<1> QED BY <1>2, <1>3, Zenon DEF Healthy, TimeoutSlow

LEMMA InitHealthy ==
  ASSUME BootBusPopulated, Init
  PROVE  Healthy
<1>1. PICK m \in Machines : dev = [p \in m |-> Idle] BY Zenon DEF Init
<1>2. Present = m BY <1>1, Zenon DEF Present
<1>3. \A p \in Present : dev[p].cmd = "none" /\ dev[p].bits = {} BY <1>1, <1>2, Zenon DEF Idle
<1> QED BY <1>2, <1>3, Zenon DEF BootBusPopulated, Healthy, Init

LEMMA NextHealthy == IInv /\ Healthy /\ [Next]_vars => Healthy'
<1> SUFFICES ASSUME IInv, Healthy, [Next]_vars PROVE Healthy' BY Zenon
<1>1. CASE Driver
  BY <1>1, OpenHealthy, SelectHealthy, WriteCommandHealthy, CheckIssuedHealthy,
     TransferHealthy, CheckDataHealthy, TimeoutHealthy, Zenon
     DEF Driver
<1>2. ASSUME NEW p \in Present, Finish(p) \/ Fail(p) \/ Hang(p) PROVE Healthy'
  BY <1>2, DriveHealthy, Zenon
<1>3. ASSUME NEW p \in Present \cup {<<0, 1>>}, NEW b \in Blocks,
             \/ Request("Read", p, b, 0)
             \/ \E v \in Values : Request("Write", p, b, v)
      PROVE  Healthy'
  BY <1>3, RequestHealthy, Zenon
<1>5. CASE TimeoutSlow BY <1>5, TimeoutSlowHealthy, Zenon
<1>4. CASE StartProcesses \/ UNCHANGED vars
  <2>1. UNCHANGED <<dev, faults, pc, req>> BY <1>4, Zenon DEF StartProcesses, vars, drives
  <2> QED BY <2>1, Zenon DEF Healthy, Present, bus
<1> QED BY <1>1, <1>2, <1>3, <1>4, <1>5, Zenon DEF Next

\* On a machine with a drive on the first bus, where the kernel keeps its file
\* system, the driver panics only after a drive has failed or kept a poll waiting
\* for more than a second, and never for a place without a drive.
THEOREM NoPanicWithoutFault ==
  ASSUME BootBusPopulated
  PROVE  Spec => []PanicNeedsFault
<1>1. Init => Healthy BY InitHealthy, Zenon
<1>2. IInv /\ Healthy => PanicNeedsFault
  BY DEF IInv, Types, Healthy, PanicNeedsFault
<1> QED BY <1>1, <1>2, NextHealthy, DriverInvariance, PTL DEF Spec
=============================================================================
