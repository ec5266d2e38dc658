---------------------------- MODULE MachineProofs ----------------------------
(***************************************************************************)
(* Proofs about the processor, its interrupts and the console, for any     *)
(* screen, keyboard queue, keys and lengths of sleeps and reads.           *)
(*                                                                         *)
(* The inductive invariant adds to the properties: which lock the          *)
(* interrupted code holds and that it masks interrupts for all of them but *)
(* the heap's (Locks); that a call that halts goes back to masked          *)
(* interrupts (Calls); that a request of the keyboard stands for a byte    *)
(* and a shift key that went down in the queue also comes up (Bytes); and  *)
(* that the ticks counted, with the one that waits, are at most one ahead  *)
(* of the periods passed (Ticks).                                          *)
(***************************************************************************)
EXTENDS Machine, SequenceTheorems, FiniteSetTheorems, Induction, TLAPS

-----------------------------------------------------------------------------
(***************************************************************************)
(* The console.                                                            *)
(***************************************************************************)
Columns == 0 .. BUF_WIDTH

ConsoleType ==
  { con \in [SHIFT : BOOLEAN, CTRL : BOOLEAN, ALT : BOOLEAN, STDIN : Seq(Chars),
             capacity : Nat, col_pos : Columns] : Len(con.STDIN) <= con.capacity }

\* write_byte keeps the cursor on the line or just behind it.
LEMMA WriteByteBounds ==
  ASSUME NEW col \in Columns, NEW c
  PROVE  WriteByte(col, c) \in Columns
BY ConsoleAssumption DEF WriteByte, Columns

\* What the loop of write_str computes, byte by byte.
LEMMA WriteStrSteps ==
  ASSUME NEW col, NEW s, Len(s) \in Nat
  PROVE  \E at : /\ at[0] = col
                 /\ \A i \in 1 .. Len(s) : at[i] = WriteByte(at[i - 1], s[i])
                 /\ WriteStr(col, s) = at[Len(s)]
<1> DEFINE n == Len(s)
           Is(f, k) == f = [i \in 0 .. k |-> IF i = 0 THEN col ELSE WriteByte(f[i - 1], s[i])]
           Upto == {k \in Nat : \E f : Is(f, k)}
<1>1. 0 \in Upto
  <2> DEFINE f == [i \in 0 .. 0 |-> col]
  <2>1. Is(f, 0) OBVIOUS
  <2> QED BY <2>1, Zenon
<1>2. ASSUME NEW k \in Nat, k \in Upto PROVE k + 1 \in Upto
  <2>1. PICK f : Is(f, k) BY <1>2, Zenon
  <2> DEFINE g == [i \in 0 .. k + 1 |-> IF i = k + 1 THEN WriteByte(f[k], s[k + 1]) ELSE f[i]]
  <2>2. \A i \in 0 .. k + 1 : g[i] = IF i = 0 THEN col ELSE WriteByte(g[i - 1], s[i])
    BY <2>1
  <2>3. Is(g, k + 1) BY <2>2, Zenon
  <2>4. \E h : Is(h, k + 1)
    <3> HIDE DEF g
    <3> QED BY <2>3, Zenon
  <2>5. k + 1 \in Nat OBVIOUS
  <2> HIDE DEF Is
  <2> QED BY <2>4, <2>5, Zenon
<1>3. n \in Upto
  <2> HIDE DEF Upto
  <2> QED BY <1>1, <1>2, SetInduction, Zenon
<1>4. PICK at : at = [i \in 0 .. n |-> IF i = 0 THEN col ELSE WriteByte(at[i - 1], s[i])]
                /\ WriteStr(col, s) = at[n]
  <2>1. \E f : Is(f, n) BY <1>3, Zenon
  <2> DEFINE at == CHOOSE f : Is(f, n)
  <2>2. Is(at, n) BY <2>1, Zenon
  <2>3. WriteStr(col, s) = at[n] BY Zenon DEF WriteStr
  <2> HIDE DEF at
  <2> QED BY <2>2, <2>3, Zenon
<1>5. at[0] = col /\ \A i \in 1 .. n : at[i] = WriteByte(at[i - 1], s[i]) BY <1>4
<1> QED BY <1>4, <1>5, Zenon

\* No string moves the cursor off the screen.
LEMMA WriteStrBounds ==
  ASSUME NEW col \in Columns, NEW s, Len(s) \in Nat
  PROVE  WriteStr(col, s) \in Columns
<1>1. PICK at : /\ at[0] = col
                /\ \A i \in 1 .. Len(s) : at[i] = WriteByte(at[i - 1], s[i])
                /\ WriteStr(col, s) = at[Len(s)]
  BY WriteStrSteps
<1> DEFINE T == {k \in Nat : k <= Len(s) => at[k] \in Columns}
<1>2. 0 \in T BY <1>1, Zenon
<1>3. ASSUME NEW k \in Nat, k \in T PROVE k + 1 \in T
  <2> SUFFICES ASSUME k + 1 <= Len(s) PROVE at[k + 1] \in Columns OBVIOUS
  <2>1. at[k] \in Columns BY <1>3
  <2>2. at[k + 1] = WriteByte(at[k], s[k + 1]) BY <1>1
  <2> QED BY <2>1, <2>2, WriteByteBounds, Zenon
<1>4. Len(s) \in T
  <2> HIDE DEF T
  <2> QED BY <1>2, <1>3, SetInduction, Zenon
<1> QED BY <1>1, <1>4

\* Strings of one and two bytes.
LEMMA WriteOne ==
  ASSUME NEW col, NEW c
  PROVE  WriteStr(col, <<c>>) = WriteByte(col, c)
<1>1. PICK at : /\ at[0] = col
                /\ \A i \in 1 .. 1 : at[i] = WriteByte(at[i - 1], <<c>>[i])
                /\ WriteStr(col, <<c>>) = at[1]
  BY WriteStrSteps
<1> QED BY <1>1

LEMMA WriteTwo ==
  ASSUME NEW col, NEW c, NEW d
  PROVE  WriteStr(col, <<c, d>>) = WriteByte(WriteByte(col, c), d)
<1> DEFINE s == <<c, d>>
<1>1. Len(s) = 2 /\ s[1] = c /\ s[2] = d BY Zenon
<1> HIDE DEF s
<1>2. PICK at : /\ at[0] = col
                /\ \A i \in 1 .. Len(s) : at[i] = WriteByte(at[i - 1], s[i])
                /\ WriteStr(col, s) = at[Len(s)]
  <2>1. Len(s) \in Nat BY <1>1
  <2> QED BY ONLY <2>1, WriteStrSteps
<1>3. at[1] = WriteByte(at[0], c) /\ at[2] = WriteByte(at[1], d) BY <1>1, <1>2
<1> QED BY <1>1, <1>2, <1>3, Zenon DEF s

\* What handle_key and handle_csi do to the console: its type holds, and the
\* modifiers are left alone.
LEMMA EchoShape ==
  ASSUME NEW c
  PROVE  Len(EchoOf(c)) \in Nat
<1>1. Len(<<"^", "[">>) \in Nat /\ Len(<<c>>) \in Nat BY Zenon
<1> QED BY <1>1, Zenon DEF EchoOf

LEMMA HandleKeyType ==
  ASSUME NEW con \in ConsoleType, NEW c \in Chars \cup {"BS"}
  PROVE  /\ HandleKey(con, c) \in ConsoleType
         /\ HandleKey(con, c).SHIFT = con.SHIFT
<1>1. /\ con.STDIN \in Seq(Chars) /\ con.capacity \in Nat /\ con.col_pos \in Columns
      /\ Len(con.STDIN) <= con.capacity
  BY Zenon DEF ConsoleType
<1>2. CASE c = "BS" /\ con.STDIN = <<>> BY <1>2, Zenon DEF HandleKey
<1>3. CASE c = "BS" /\ con.STDIN # <<>>
  <2> DEFINE n == Backspaces(Popped(con.STDIN))
             col == WriteStr(con.col_pos, [i \in 1 .. n |-> "BS"])
             in == Rest(con.STDIN)
  <2>1. n \in Nat BY DEF Backspaces
  <2>2. Len([i \in 1 .. n |-> "BS"]) = n
    <3> HIDE DEF n
    <3> QED BY <2>1
  <2>3. col \in Columns BY <1>1, <2>1, <2>2, WriteStrBounds, Zenon
  <2>4. in \in Seq(Chars) /\ Len(in) <= con.capacity
    <3>1. Len(con.STDIN) \in Nat \ {0} BY <1>1, <1>3, EmptySeq, Zenon
    <3>2. in = SubSeq(con.STDIN, 1, Len(con.STDIN) - 1) BY Zenon DEF Rest
    <3>3. in \in Seq(Chars) /\ Len(in) = Len(con.STDIN) - 1
      BY <1>1, <3>1, <3>2, SubSeqProperties
    <3> QED BY <1>1, <3>1, <3>3
  <2>5. HandleKey(con, c) = [con EXCEPT !.STDIN = in, !.col_pos = col]
    BY <1>3, Zenon DEF HandleKey
  <2> HIDE DEF n, col, in
  <2> QED BY <2>3, <2>4, <2>5, Zenon DEF ConsoleType
<1>4. CASE c # "BS"
  <2> DEFINE in == Append(con.STDIN, c)
             cap == IF Allocates(con, c) THEN Grown(con.capacity) ELSE con.capacity
             col == WriteStr(con.col_pos, EchoOf(c))
  <2>1. col \in Columns BY <1>1, EchoShape, WriteStrBounds, Zenon
  <2>2. in \in Seq(Chars) /\ Len(in) = Len(con.STDIN) + 1 /\ Len(con.STDIN) \in Nat
    BY <1>1, <1>4, AppendProperties
  <2>3. cap \in Nat /\ Len(con.STDIN) < cap
    <3>1. CASE Len(con.STDIN) = con.capacity
      BY <1>1, <1>4, <2>2, <3>1, ConsoleAssumption DEF Allocates, Grown
    <3>2. CASE Len(con.STDIN) # con.capacity BY <1>1, <1>4, <2>2, <3>2 DEF Allocates
    <3> QED BY <3>1, <3>2, Zenon
  <2>4. HandleKey(con, c) = [con EXCEPT !.STDIN = in, !.capacity = cap, !.col_pos = col]
    BY <1>4, Zenon DEF HandleKey
  <2> HIDE DEF in, cap, col
  <2>5. Len(in) <= cap BY <2>2, <2>3
  <2> QED BY <2>1, <2>2, <2>3, <2>4, <2>5, Zenon DEF ConsoleType
<1> QED BY <1>2, <1>3, <1>4, Zenon

\* The first match of interrupt_handler.
LEMMA SetModifiersType ==
  ASSUME NEW con \in ConsoleType, NEW key, NEW down \in BOOLEAN
  PROVE  /\ SetModifiers(con, key, down) \in ConsoleType
         /\ SetModifiers(con, key, down).SHIFT =
              IF key \in {"LShift", "RShift"} THEN down ELSE con.SHIFT
<1>1. CASE key \in {"LShift", "RShift"} BY <1>1, Zenon DEF SetModifiers, ConsoleType
<1>2. CASE key = "LControl" BY <1>2, Zenon DEF SetModifiers, ConsoleType
<1>3. CASE key = "LAlt" BY <1>3, Zenon DEF SetModifiers, ConsoleType
<1>4. CASE key \notin {"LShift", "RShift", "LControl", "LAlt"} BY <1>4, Zenon DEF SetModifiers
<1> QED BY <1>1, <1>2, <1>3, <1>4, Zenon

LEMMA KeyboardInterruptType ==
  ASSUME NEW con \in ConsoleType, NEW key \in Printing \cup Modifiers, NEW down \in BOOLEAN
  PROVE  /\ KeyboardInterrupt(con, key, down) \in ConsoleType
         /\ KeyboardInterrupt(con, key, down).SHIFT =
              IF key \in {"LShift", "RShift"} THEN down ELSE con.SHIFT
<1> DEFINE set == SetModifiers(con, key, down)
           told == IF ShutdownAsked(con, key, down) THEN [set EXCEPT !.col_pos = 0] ELSE set
<1>1. set \in ConsoleType
      /\ set.SHIFT = IF key \in {"LShift", "RShift"} THEN down ELSE con.SHIFT
  BY SetModifiersType
<1>2. told \in ConsoleType /\ told.SHIFT = set.SHIFT
  <2> HIDE DEF set
  <2> QED BY <1>1, ConsoleAssumption DEF ConsoleType, Columns
<1>3. KeyboardInterrupt(con, key, down) =
        IF ~ down \/ key \in Modifiers THEN told
        ELSE IF Backtab(told, key) THEN HandleCsi(told, "Z")
        ELSE HandleKey(told, CharOf(key))
  BY Zenon DEF KeyboardInterrupt
<1> HIDE DEF told
<1>4. HandleCsi(told, "Z") \in ConsoleType /\ HandleCsi(told, "Z").SHIFT = told.SHIFT
  <2> DEFINE a == HandleKey(told, "ESC")
             b == HandleKey(a, "[")
  <2>1. a \in ConsoleType /\ a.SHIFT = told.SHIFT BY <1>2, HandleKeyType, Zenon DEF Chars
  <2> HIDE DEF a
  <2>2. b \in ConsoleType /\ b.SHIFT = told.SHIFT BY <2>1, HandleKeyType, Zenon DEF Chars
  <2>3. HandleCsi(told, "Z") = HandleKey(b, "Z") BY Zenon DEF HandleCsi, a
  <2> HIDE DEF b
  <2> QED BY <2>2, <2>3, HandleKeyType DEF Chars
<1>5. key \in Printing => /\ HandleKey(told, CharOf(key)) \in ConsoleType
                          /\ HandleKey(told, CharOf(key)).SHIFT = told.SHIFT
  <2>1. key \in Printing => CharOf(key) \in Chars \cup {"BS"} BY Zenon DEF Printing, CharOf, Chars
  <2> QED BY <1>2, <2>1, HandleKeyType, Zenon
<1> QED BY <1>1, <1>2, <1>3, <1>4, <1>5

-----------------------------------------------------------------------------
(***************************************************************************)
(* The invariant.                                                          *)
(***************************************************************************)
Held == {"heap", "IRQ_HANDLERS", "VGA_WRITER"}
Halting == {"halted", "woken"}
Lines == {Timer, Keyboard}

CpuTypes ==
  /\ IF_ \in BOOLEAN /\ saved \in BOOLEAN
  /\ stage \in 0 .. 4 /\ mode \in Alive \cup {"stuck", "off"}
  /\ act \in Held \cup Halting \cup {"run", "start", "sleep", "read", "write"}
  /\ handlers \subseteq Lines /\ irq \subseteq Lines

\* The code that runs holds at most the lock it is named after, and all but the
\* heap's with interrupts masked.
Locks ==
  /\ lock = IF act \in Held THEN act ELSE "none"
  /\ lock \in {"IRQ_HANDLERS", "VGA_WRITER"} => ~ IF_
  /\ act = "IRQ_HANDLERS" => stage \in {0, 2}

\* A call that halts will mask interrupts again.
Calls == mode = "call" => IF act \in Halting THEN ~ saved ELSE ~ IF_

Cpu == CpuTypes /\ Locks /\ Calls /\ OnlyHeapBlocksHandlers

ByteType == (Printing \cup Modifiers) \X BOOLEAN

KeyTypes ==
  /\ queue \in Seq(ByteType) /\ Len(queue) <= QueueSize
  /\ pressed \subseteq Modifiers
  /\ console \in ConsoleType

\* The bytes of a key that goes down and of one that comes up.
Down(k) == <<k, TRUE>>
Up(k) == <<k, FALSE>>

\* A request of the keyboard stands for a byte, and a shift key that goes down
\* in the queue is down or comes up further on.
Bytes ==
  /\ Keyboard \in irq => queue # <<>>
  /\ \A k \in {"LShift", "RShift"}, i \in 1 .. Len(queue) :
       queue[i] = Down(k) =>
         \/ k \in pressed \/ dropped
         \/ \E j \in 1 .. Len(queue) : i < j /\ queue[j] = Up(k)

\* The ticks counted and the one that waits are at most one ahead of the
\* periods that have passed.
Ticks ==
  /\ kind \in {"sleep", "wait"} /\ left \in Nat /\ asked \in {0} \cup SleepArgs
  /\ elapsed \in 0 .. SleepTicks /\ edges \in 0 .. SleepTicks
  /\ ~ Sleeping => elapsed = 0 /\ edges = 0
  /\ Sleeping /\ kind = "sleep" =>
       IF Timer \in irq THEN elapsed <= edges ELSE elapsed <= edges + 1

IInv == Cpu /\ KeyTypes /\ Bytes /\ KeyboardAlive /\ NoStuckShift /\ Ticks

-----------------------------------------------------------------------------
(***************************************************************************)
(* Locks and masks.                                                        *)
(***************************************************************************)

\* The end of a handler leaves the interrupted code as it was, or wakes it.
LEMMA ReturnCpu ==
  ASSUME Cpu, Return, handlers' \subseteq Lines, irq' \subseteq Lines
  PROVE  Cpu'
<1>1. CpuTypes' BY Zenon DEF Cpu, CpuTypes, Return, Halting
<1>2. Locks' BY Zenon DEF Cpu, Locks, Return, Held
<1>3. Calls' BY Zenon DEF Cpu, Calls, Return, Halting
<1>4. OnlyHeapBlocksHandlers' BY Zenon DEF Cpu, OnlyHeapBlocksHandlers, Return
<1> QED BY <1>1, <1>2, <1>3, <1>4, Zenon DEF Cpu

\* A handler that finds a lock held has interrupted an allocation.
LEMMA StuckCpu ==
  ASSUME Cpu, Stuck, lock = "heap", irq' \subseteq Lines
  PROVE  Cpu'
<1>0. IF_' \in BOOLEAN BY Zenon DEF Stuck
<1>1. CpuTypes' BY <1>0, Zenon DEF Cpu, CpuTypes, Stuck
<1>2. Locks' BY Zenon DEF Cpu, Locks, Stuck
<1>3. Calls' BY Zenon DEF Calls, Stuck
<1>4. OnlyHeapBlocksHandlers' BY Zenon DEF OnlyHeapBlocksHandlers, Stuck
<1> QED BY <1>1, <1>2, <1>3, <1>4, Zenon DEF Cpu

LEMMA InterruptCpu ==
  ASSUME Cpu, TimerInterrupt \/ KeyInterrupt
  PROVE  Cpu'
<1>1. IF_ /\ irq' \subseteq Lines /\ handlers' \subseteq Lines
  BY Zenon DEF TimerInterrupt, KeyInterrupt, Cpu, CpuTypes, Stuck
<1>2. lock \notin {"IRQ_HANDLERS", "VGA_WRITER"} BY <1>1, Zenon DEF Cpu, Locks
<1>3. lock # "STDIN" BY Zenon DEF Cpu, Locks, Held
<1>4. \A key, down : lock \in Needs(key, down) => lock = "heap" BY <1>2, <1>3, Zenon DEF Needs
<1>5. \/ Return
      \/ Stuck /\ lock = "heap"
      \/ mode' = "off" /\ IF_' = FALSE /\ UNCHANGED <<stage, act, lock, saved, handlers>>
  BY <1>2, <1>4, Zenon DEF TimerInterrupt, KeyInterrupt
<1>6. CASE mode' = "off" /\ IF_' = FALSE /\ UNCHANGED <<stage, act, lock, saved, handlers>>
  <2>0. IF_' \in BOOLEAN BY <1>6, Zenon
  <2>1. CpuTypes' BY <1>1, <1>6, <2>0, Zenon DEF Cpu, CpuTypes
  <2>2. Locks' BY <1>6, Zenon DEF Cpu, Locks
  <2>3. Calls' BY <1>6, Zenon DEF Calls
  <2>4. OnlyHeapBlocksHandlers' BY <1>6, Zenon DEF OnlyHeapBlocksHandlers
  <2> QED BY <2>1, <2>2, <2>3, <2>4, Zenon DEF Cpu
<1> QED BY <1>1, <1>5, <1>6, ReturnCpu, StuckCpu, Zenon

\* without_interrupts around a lock, at boot or in a write.
LEMMA MaskCpu ==
  ASSUME Cpu, NEW l \in {"IRQ_HANDLERS", "VGA_WRITER"}, Mask(l),
         l = "IRQ_HANDLERS" => stage \in {0, 2}, mode \in Alive,
         UNCHANGED <<stage, mode, handlers, irq>>
  PROVE  Cpu'
<1>0. IF_' \in BOOLEAN /\ saved' \in BOOLEAN BY Zenon DEF Mask, Cpu, CpuTypes
<1>1. CpuTypes' BY <1>0, Zenon DEF Cpu, CpuTypes, Mask, Held
<1>2. Locks' BY Zenon DEF Locks, Mask, Held
<1>3. Calls' BY Zenon DEF Calls, Mask, Halting
<1>4. OnlyHeapBlocksHandlers' BY Zenon DEF OnlyHeapBlocksHandlers, Alive
<1> QED BY <1>1, <1>2, <1>3, <1>4, Zenon DEF Cpu

\* A step to code that holds no lock, in the mode the interrupt flag asks for.
LEMMA FreeCpu ==
  ASSUME Cpu, mode' \in Alive, lock' = "none", stage' \in 0 .. 4,
         act' \in Halting \cup {"run", "start", "sleep", "read", "write"},
         IF_' \in BOOLEAN, saved' \in BOOLEAN,
         mode' = "call" => IF act' \in Halting THEN ~ saved' ELSE ~ IF_',
         handlers' \subseteq Lines, irq' = irq
  PROVE  Cpu'
<1>1. CpuTypes' BY Zenon DEF Cpu, CpuTypes
<1>2. Locks' BY Zenon DEF Locks, Held, Halting
<1>3. Calls' BY Zenon DEF Calls
<1>4. OnlyHeapBlocksHandlers' BY Zenon DEF OnlyHeapBlocksHandlers, Alive
<1> QED BY <1>1, <1>2, <1>3, <1>4, Zenon DEF Cpu

\* Boot: handlers are set, memory is allocated, lines are printed.
LEMMA BootCpu ==
  ASSUME Cpu,
         \/ SetIrqHandler \/ HandlerSet \/ Allocate \/ Allocated \/ Kprint \/ Printed
         \/ StartProcess
  PROVE  Cpu'
<1>0. IF_ \in BOOLEAN /\ saved \in BOOLEAN /\ stage \in 0 .. 4 /\ TRUE \in BOOLEAN
      /\ handlers \subseteq Lines
  BY Zenon DEF Cpu, CpuTypes
<1>1. CASE SetIrqHandler BY <1>1, MaskCpu, Zenon DEF SetIrqHandler, Runs
<1>2. CASE HandlerSet
  <2>1. stage \in {0, 2} BY <1>2, Zenon DEF HandlerSet, Runs, Cpu, Locks
  <2>2. stage' \in 0 .. 4 BY <1>2, <2>1 DEF HandlerSet
  <2>3. mode' = "boot" /\ lock' = "none" /\ act' = "run" /\ irq' = irq
        /\ IF_' \in BOOLEAN /\ saved' \in BOOLEAN
    BY <1>0, <1>2, Zenon DEF HandlerSet, Runs, Unmask
  <2>4. handlers' \subseteq Lines BY <1>0, <1>2, Zenon DEF HandlerSet, Lines
  <2> QED BY <2>2, <2>3, <2>4, FreeCpu, Zenon DEF Alive
<1>3. CASE Allocate
  <2>1. /\ mode = "boot" /\ act' = "heap" /\ lock' = "heap"
        /\ UNCHANGED <<IF_, stage, mode, saved, handlers, irq>>
    BY <1>3, Zenon DEF Allocate, Runs
  <2>2. CpuTypes' BY <2>1, Zenon DEF Cpu, CpuTypes, Held
  <2>3. Locks' BY <2>1, Zenon DEF Locks, Held
  <2>4. Calls' /\ OnlyHeapBlocksHandlers' BY <2>1, Zenon DEF Calls, OnlyHeapBlocksHandlers
  <2> QED BY <2>2, <2>3, <2>4, Zenon DEF Cpu
<1>4. CASE Allocated
  <2>1. /\ mode' = "boot" /\ act' = "run" /\ lock' = "none"
        /\ UNCHANGED <<IF_, stage, saved, handlers, irq>>
    BY <1>4, Zenon DEF Allocated, Runs
  <2> QED BY <1>0, <2>1, FreeCpu, Zenon DEF Alive
<1>5. CASE Kprint BY <1>5, MaskCpu, Zenon DEF Kprint, Runs
<1>6. CASE Printed
  <2>1. mode' \in {"boot", "user"} /\ lock' = "none" /\ act' = "run" /\ irq' = irq
        /\ UNCHANGED <<stage, handlers>>
    BY <1>6, Zenon DEF Printed, Unmask, Runs
  <2>2. IF_' \in BOOLEAN /\ saved' \in BOOLEAN BY <1>0, <1>6, Zenon DEF Printed, Unmask
  <2> QED BY <1>0, <2>1, <2>2, FreeCpu, Zenon DEF Alive
<1>7. CASE StartProcess
  <2>1. mode' = "user" /\ stage' = 4 /\ act' = "run"
        /\ UNCHANGED <<IF_, lock, saved, handlers, irq>>
    BY <1>7, Zenon DEF StartProcess, Runs
  <2>2. lock' = "none" BY <1>7, <2>1, Zenon DEF StartProcess, Runs, Cpu, Locks, Held
  <2> QED BY <1>0, <2>1, <2>2, FreeCpu DEF Alive
<1> QED BY <1>1, <1>2, <1>3, <1>4, <1>5, <1>6, <1>7

\* Sleeps and system calls.
LEMMA CallCpu ==
  ASSUME Cpu,
         \/ CalibrateTsc \/ Wait
         \/ \E n \in SleepArgs : Sleep(n)
         \/ ReadTicks \/ TryWake \/ Woken
         \/ \E n \in 1 .. MaxRead : Read(n)
         \/ Write
         \/ ReadSingleChar \/ ReadDone
  PROVE  Cpu'
<1>0. /\ IF_ \in BOOLEAN /\ saved \in BOOLEAN /\ stage \in 0 .. 4 /\ TRUE \in BOOLEAN
      /\ handlers \subseteq Lines /\ FALSE \in BOOLEAN
      /\ act \notin Held => lock = "none"
      /\ mode = "call" => IF act \in Halting THEN ~ saved ELSE ~ IF_
  BY Zenon DEF Cpu, CpuTypes, Locks, Calls
<1>1. ASSUME CalibrateTsc \/ Wait \/ (\E n \in SleepArgs : Sleep(n)) PROVE Cpu'
  <2>1. /\ mode' \in {"boot", "call"} /\ act' = "start" /\ act = "run"
        /\ UNCHANGED <<stage, lock, saved, handlers, irq>>
    BY <1>1, Zenon DEF CalibrateTsc, Wait, Sleep, Begins, Runs
  <2>2. IF_' \in BOOLEAN /\ (mode' = "call" => ~ IF_')
    BY <1>0, <1>1, Zenon DEF CalibrateTsc, Wait, Sleep, Runs
  <2> QED BY <1>0, <2>1, <2>2, FreeCpu, Zenon DEF Alive, Halting, Held
<1>2. CASE ReadTicks
  <2>1. /\ mode \in Alive /\ act' = "sleep" /\ act = "start"
        /\ UNCHANGED <<IF_, mode, stage, lock, saved, handlers, irq>>
    BY <1>2, Zenon DEF ReadTicks, Runs
  <2> QED BY <1>0, <2>1, FreeCpu, Zenon DEF Halting, Held
<1>3. CASE TryWake
  <2>1. /\ mode \in Alive /\ act = "sleep" /\ UNCHANGED <<handlers, irq>>
    BY <1>3, Zenon DEF TryWake, Runs
  <2>2. lock = "none" /\ (mode = "call" => ~ IF_) BY <1>0, <2>1, Zenon DEF Held, Halting
  <2>3. CASE Back
    <3>1. /\ mode' \in {"boot", "user"} /\ stage' \in 0 .. 4 /\ act' = "run" /\ lock' = lock
      BY <1>0, <2>3 DEF Back
    <3>2. IF_' \in BOOLEAN /\ saved' \in BOOLEAN BY <1>0, <2>3, Zenon DEF Back
    <3> QED BY <1>0, <2>1, <2>2, <3>1, <3>2, FreeCpu DEF Alive
  <2>4. CASE Hlt /\ UNCHANGED <<stage, mode>>
    <3>1. IF_' \in BOOLEAN /\ saved' \in BOOLEAN BY <1>0, <2>4, Zenon DEF Hlt
    <3>2. saved' = IF_ /\ act' = "halted" /\ lock' = lock BY <2>4, Zenon DEF Hlt
    <3>3. mode = "call" => ~ saved' BY <2>2, <3>2, Zenon
    <3> QED BY <1>0, <2>1, <2>2, <2>4, <3>1, <3>2, <3>3, FreeCpu DEF Halting
  <2> QED BY <1>3, <2>3, <2>4, Zenon DEF TryWake
<1>4. CASE Woken
  <2>1. /\ mode \in Alive /\ act = "woken" /\ act' = "sleep"
        /\ UNCHANGED <<mode, stage, lock, handlers, irq>>
    BY <1>4, Zenon DEF Woken, Runs
  <2>2. IF_' = saved /\ saved' = TRUE BY <1>4, Zenon DEF Woken
  <2>3. IF_' \in BOOLEAN /\ saved' \in BOOLEAN BY <1>0, <2>2, Zenon
  <2>4. mode = "call" => ~ saved BY <1>0, <2>1, Zenon DEF Halting
  <2>5. mode = "call" => ~ IF_' BY <2>2, <2>4, Zenon
  <2> QED BY <1>0, <2>1, <2>3, <2>5, FreeCpu, Zenon DEF Halting, Held
<1>5. ASSUME \/ \E n \in 1 .. MaxRead : Read(n)
             \/ Write
      PROVE  Cpu'
  <2>1. /\ mode' = "call" /\ act' \in {"read", "write"} /\ act = "run"
        /\ UNCHANGED <<stage, lock, saved, handlers, irq>>
    BY <1>5, Zenon DEF Read, Write, Runs
  <2>2. IF_' \in BOOLEAN /\ ~ IF_' BY <1>5, Zenon DEF Read, Write
  <2> QED BY <1>0, <2>1, <2>2, FreeCpu, Zenon DEF Alive, Halting, Held
<1>6. CASE ReadSingleChar
  <2>1. UNCHANGED <<IF_, stage, mode, act, lock, saved, handlers, irq>>
    BY <1>6, Zenon DEF ReadSingleChar, cpu
  <2> QED BY <2>1, Zenon DEF Cpu, CpuTypes, Locks, Calls, OnlyHeapBlocksHandlers
<1>7. CASE ReadDone
  <2>1. /\ mode = "call" /\ act = "read" /\ Back /\ UNCHANGED <<handlers, irq>>
    BY <1>7, Zenon DEF ReadDone, Runs
  <2>2. /\ mode' = "user" /\ stage' = stage /\ act' = "run" /\ lock' = lock
    BY <2>1, Zenon DEF Back
  <2>3. IF_' \in BOOLEAN /\ saved' \in BOOLEAN BY <2>1, Zenon DEF Back
  <2> QED BY <1>0, <2>1, <2>2, <2>3, FreeCpu, Zenon DEF Alive, Held
<1> QED BY <1>1, <1>2, <1>3, <1>4, <1>5, <1>6, <1>7

LEMMA CpuNext == Cpu /\ [Next]_vars => Cpu'
<1> SUFFICES ASSUME Cpu, [Next]_vars PROVE Cpu' BY Zenon
<1>1. CASE Code BY <1>1, BootCpu, CallCpu, Zenon DEF Code
<1>2. CASE TimerInterrupt \/ KeyInterrupt BY <1>2, InterruptCpu, Zenon
<1>3. CASE TimerEdge \/ (\E key \in Keys : KeyByte(key))
  <2>1. UNCHANGED <<IF_, stage, mode, act, lock, saved, handlers>> /\ irq' \subseteq irq \cup Lines
    BY <1>3, Zenon DEF TimerEdge, KeyByte, cpu, Lines
  <2> QED BY <2>1, Zenon DEF Cpu, CpuTypes, Locks, Calls, OnlyHeapBlocksHandlers
<1>4. CASE UNCHANGED vars
  BY <1>4, Zenon DEF vars, cpu, Cpu, CpuTypes, Locks, Calls, OnlyHeapBlocksHandlers
<1> QED BY <1>1, <1>2, <1>3, <1>4, Zenon DEF Next

-----------------------------------------------------------------------------
(***************************************************************************)
(* The keyboard and the input.                                             *)
(***************************************************************************)
Shifts == {"LShift", "RShift"}
Keyed == KeyTypes /\ Bytes /\ KeyboardAlive /\ NoStuckShift

\* NoStuckShift, with the places of the queue.
LEMMA ShiftForm ==
  ASSUME queue \in Seq(ByteType)
  PROVE  NoStuckShift <=>
           (console.SHIFT => \/ pressed \cap Shifts # {} \/ dropped
                             \/ \E k \in Shifts, i \in 1 .. Len(queue) : queue[i] = Up(k))
<1>1. DOMAIN queue = 1 .. Len(queue) BY LenProperties, Zenon
<1>2. \A x : x \in Range(queue) <=> \E i \in 1 .. Len(queue) : queue[i] = x
  BY <1>1, Zenon DEF Range
<1> QED BY <1>2, Zenon DEF NoStuckShift, Shifts, Up

LEMMA ShiftFormNext ==
  (queue \in Seq(ByteType) =>
     (NoStuckShift <=>
        (console.SHIFT => \/ pressed \cap Shifts # {} \/ dropped
                          \/ \E k \in Shifts, i \in 1 .. Len(queue) : queue[i] = Up(k))))'
BY ShiftForm, PTL

\* Steps that leave the keyboard alone.
LEMMA OthersKeyed ==
  ASSUME Keyed, UNCHANGED <<queue, pressed, dropped, early>>,
         Keyboard \in irq' <=> Keyboard \in irq,
         console' \in ConsoleType, console'.SHIFT = console.SHIFT,
         mode' \in Alive => mode \in Alive
  PROVE  Keyed'
<1>1. KeyTypes' BY Zenon DEF Keyed, KeyTypes
<1>2. Bytes' BY Zenon DEF Keyed, Bytes
<1>3. KeyboardAlive' BY Zenon DEF Keyed, KeyboardAlive
<1>4. NoStuckShift' BY Zenon DEF Keyed, NoStuckShift
<1> QED BY <1>1, <1>2, <1>3, <1>4, Zenon DEF Keyed

\* The keyboard sends a byte, or drops it.
LEMMA KeyByteKeyed ==
  ASSUME Keyed, NEW key \in Keys, KeyByte(key)
  PROVE  Keyed'
<1> DEFINE b == <<key, key \notin pressed>>
           n == Len(queue)
<1>1. /\ queue \in Seq(ByteType) /\ n \in Nat /\ n <= QueueSize /\ pressed \subseteq Modifiers
      /\ mode \in Alive /\ UNCHANGED <<mode, console, early>>
      /\ key \in Printing \cup Modifiers
  BY MachineAssumption, LenProperties, Zenon DEF Keyed, KeyTypes, KeyByte, cpu
<1>2. /\ b \in ByteType
      /\ key \in pressed => b = Up(key)
      /\ key \notin pressed => b = Down(key)
  <2>1. CASE key \in pressed
    <3>1. b = Up(key) BY <2>1, Zenon DEF Up
    <3> QED BY <1>1, <2>1, <3>1, Zenon DEF ByteType, Up
  <2>2. CASE key \notin pressed
    <3>1. b = Down(key) BY <2>2, Zenon DEF Down
    <3> QED BY <1>1, <2>2, <3>1, Zenon DEF ByteType, Down
  <2> QED BY <2>1, <2>2, Zenon
<1>3. /\ pressed' \subseteq Modifiers
      /\ key \in pressed => pressed' = pressed \ {key}
      /\ key \notin pressed => pressed \subseteq pressed'
      /\ key \notin pressed /\ key \in Shifts => key \in pressed'
      /\ \A k \in pressed : k # key => k \in pressed'
  BY <1>1, Zenon DEF KeyByte, Modifiers, Shifts
<1>4. IF n < QueueSize THEN queue' = Append(queue, b) /\ dropped' = dropped
      ELSE dropped' = TRUE /\ queue' = queue
  BY Zenon DEF KeyByte
<1>5. irq' = IF queue = <<>> THEN irq \cup {Keyboard} ELSE irq BY Zenon DEF KeyByte
<1> HIDE DEF b
<1>6. CASE n < QueueSize
  <2>1. queue' = Append(queue, b) /\ dropped' = dropped BY <1>4, <1>6, Zenon
  <2>2. /\ queue' \in Seq(ByteType) /\ Len(queue') = n + 1 /\ queue' # <<>>
        /\ queue'[n + 1] = b /\ \A i \in 1 .. n : queue'[i] = queue[i]
    BY <1>1, <1>2, <2>1, AppendProperties
  <2> HIDE DEF n
  <2>3. KeyTypes' BY <1>1, <1>3, <1>6, <2>2, MachineAssumption DEF KeyTypes, Keyed
  <2>4. Bytes'
    <3>1. ASSUME NEW k \in Shifts, NEW i \in 1 .. n + 1, queue'[i] = Down(k)
          PROVE  \/ k \in pressed' \/ dropped'
                 \/ \E j \in 1 .. n + 1 : i < j /\ queue'[j] = Up(k)
      <4>1. CASE i = n + 1
        <5>1. b = Down(k) BY <2>2, <3>1, <4>1, Zenon
        <5>2. key = k /\ key \notin pressed BY <1>2, <5>1, Zenon DEF Up, Down
        <5> QED BY <1>3, <5>2, Zenon
      <4>2. CASE i \in 1 .. n
        <5>1. \/ k \in pressed \/ dropped
              \/ \E j \in 1 .. n : i < j /\ queue[j] = Up(k)
          BY <2>2, <3>1, <4>2, Zenon DEF Keyed, Bytes, Shifts, n
        <5>2. CASE k \in pressed
          <6>1. CASE k = key
            <7>1. queue'[n + 1] = Up(k) BY <1>2, <2>2, <5>2, <6>1, Zenon
            <7> QED BY <1>1, <4>2, <7>1
          <6>2. CASE k # key BY <1>3, <5>2, <6>2, Zenon
          <6> QED BY <6>1, <6>2, Zenon
        <5>3. CASE dropped BY <2>1, <5>3, Zenon
        <5>4. ASSUME NEW j \in 1 .. n, i < j, queue[j] = Up(k)
              PROVE  \E jj \in 1 .. n + 1 : i < jj /\ queue'[jj] = Up(k)
          BY <1>1, <2>2, <5>4
        <5> QED BY <5>1, <5>2, <5>3, <5>4, Zenon
      <4> QED BY <1>1, <4>1, <4>2
    <3> QED BY <2>2, <3>1, Zenon DEF Bytes, Shifts
  <2>5. KeyboardAlive' BY <1>1, <1>5, Zenon DEF Keyed, KeyboardAlive
  <2>6. NoStuckShift'
    <3> SUFFICES ASSUME console.SHIFT
                 PROVE  \/ pressed' \cap Shifts # {} \/ dropped'
                        \/ \E k \in Shifts, i \in 1 .. n + 1 : queue'[i] = Up(k)
      BY <1>1, <2>2, ShiftFormNext, Zenon
    <3>1. \/ pressed \cap Shifts # {} \/ dropped
          \/ \E k \in Shifts, i \in 1 .. n : queue[i] = Up(k)
      BY <1>1, ShiftForm, Zenon DEF Keyed, n
    <3>2. ASSUME NEW k \in Shifts, k \in pressed
          PROVE  k \in pressed' \/ queue'[n + 1] = Up(k)
      BY <1>2, <1>3, <2>2, <3>2, Zenon
    <3>3. n + 1 \in 1 .. n + 1 /\ 1 .. n \subseteq 1 .. n + 1 BY <1>1
    <3> QED BY <2>1, <2>2, <3>1, <3>2, <3>3
  <2> QED BY <2>3, <2>4, <2>5, <2>6 DEF Keyed
<1>7. CASE ~ (n < QueueSize)
  <2>1. queue' = queue /\ dropped' = TRUE BY <1>4, <1>7, Zenon
  <2>2. queue # <<>> BY <1>1, <1>7, MachineAssumption
  <2>3. KeyTypes' BY <1>1, <1>3, <2>1, Zenon DEF KeyTypes, Keyed
  <2>4. Bytes' BY <2>1, <2>2, Zenon DEF Bytes
  <2>5. KeyboardAlive' BY <1>1, <1>5, <2>1, Zenon DEF Keyed, KeyboardAlive
  <2>6. NoStuckShift' BY <2>1, Zenon DEF NoStuckShift
  <2> QED BY <2>3, <2>4, <2>5, <2>6, Zenon DEF Keyed
<1> QED BY <1>6, <1>7, Zenon

\* The handler reads the byte at the head of the queue.
LEMMA ReadKeyed ==
  ASSUME Keyed, queue # <<>>,
         queue' = Tail(queue), UNCHANGED <<pressed, dropped>>,
         console' = KeyboardInterrupt(console, Head(queue)[1], Head(queue)[2]),
         irq' = IF Len(queue) > 1 THEN irq ELSE irq \ {Keyboard},
         Keyboard \in irq
  PROVE  Keyed'
<1> DEFINE n == Len(queue)
           key == Head(queue)[1]
           down == Head(queue)[2]
<1>1. /\ queue \in Seq(ByteType) /\ n \in Nat /\ n <= QueueSize
      /\ console \in ConsoleType /\ DOMAIN queue = 1 .. n
  BY LenProperties, Zenon DEF Keyed, KeyTypes
<1>2. n # 0 BY <1>1, EmptySeq, Zenon
<1>3. /\ queue[1] \in ByteType /\ queue[1] = <<key, down>>
      /\ key \in Printing \cup Modifiers /\ down \in BOOLEAN
  <2>1. Head(queue) = queue[1] /\ queue[1] \in ByteType
    BY <1>1, <1>2, ElementOfSeq, HeadTailProperties
  <2> QED BY <2>1 DEF ByteType
<1>4. /\ queue' \in Seq(ByteType) /\ Len(queue') = n - 1
      /\ \A i \in 1 .. n - 1 : queue'[i] = queue[i + 1]
  BY <1>1, <1>2, HeadTailProperties, Zenon
<1>5. /\ console' \in ConsoleType
      /\ console'.SHIFT = IF key \in Shifts THEN down ELSE console.SHIFT
  <2> HIDE DEF key, down
  <2>1. console' = KeyboardInterrupt(console, key, down) BY Zenon DEF key, down
  <2> QED BY <1>1, <1>3, <2>1, KeyboardInterruptType DEF Shifts
<1> HIDE DEF n, key, down
<1>6. KeyTypes' BY <1>1, <1>4, <1>5, MachineAssumption DEF Keyed, KeyTypes
<1>7. Bytes'
  <2>1. Keyboard \in irq' => queue' # <<>>
    <3> SUFFICES ASSUME Keyboard \in irq' PROVE queue' # <<>> BY Zenon
    <3>0. irq' = IF n > 1 THEN irq ELSE irq \ {Keyboard} BY Zenon DEF n
    <3>1. n > 1 BY <3>0, Zenon
    <3>2. n \in Nat /\ Len(queue') = n - 1 BY <1>1, <1>4, Zenon
    <3>3. Len(queue') # 0 BY ONLY <3>1, <3>2
    <3> QED BY ONLY <3>3, EmptySeq, Zenon
  <2>2. ASSUME NEW k \in Shifts, NEW i \in 1 .. n - 1, queue'[i] = Down(k)
        PROVE  \/ k \in pressed' \/ dropped'
               \/ \E j \in 1 .. n - 1 : i < j /\ queue'[j] = Up(k)
    <3>1. i + 1 \in 1 .. n /\ queue[i + 1] = Down(k) BY <1>1, <1>4, <2>2
    <3>2. \/ k \in pressed \/ dropped
          \/ \E j \in 1 .. n : i + 1 < j /\ queue[j] = Up(k)
      BY <3>1, Zenon DEF Keyed, Bytes, Shifts, n
    <3>3. ASSUME NEW j \in 1 .. n, i + 1 < j, queue[j] = Up(k)
          PROVE  \E jj \in 1 .. n - 1 : i < jj /\ queue'[jj] = Up(k)
      <4>1. j - 1 \in 1 .. n - 1 /\ i < j - 1 /\ (j - 1) + 1 = j BY <1>1, <3>3
      <4>2. queue'[j - 1] = Up(k) BY <1>4, <3>3, <4>1, Zenon
      <4> QED BY <4>1, <4>2, Zenon
    <3> QED BY <3>2, <3>3, Zenon
  <2> QED BY <1>4, <2>1, <2>2, Zenon DEF Bytes, Shifts
<1>8. KeyboardAlive'
  <2> SUFFICES ASSUME queue' # <<>> PROVE Keyboard \in irq' BY Zenon DEF KeyboardAlive
  <2>1. n - 1 # 0 BY <1>4, EmptySeq, Zenon
  <2>2. n > 1 BY <1>1, <1>2, <2>1
  <2> QED BY <2>2, Zenon DEF n
<1>9. NoStuckShift'
  <2> SUFFICES ASSUME console'.SHIFT
               PROVE  \/ pressed' \cap Shifts # {} \/ dropped'
                      \/ \E k \in Shifts, i \in 1 .. n - 1 : queue'[i] = Up(k)
    BY <1>4, ShiftFormNext, Zenon
  <2>1. ASSUME NEW k \in Shifts, NEW j \in 1 .. n, j # 1, queue[j] = Up(k)
        PROVE  \E kk \in Shifts, i \in 1 .. n - 1 : queue'[i] = Up(kk)
    <3>1. j - 1 \in 1 .. n - 1 /\ (j - 1) + 1 = j BY <1>1, <2>1
    <3>2. queue'[j - 1] = Up(k) BY <1>4, <2>1, <3>1, Zenon
    <3> QED BY <3>1, <3>2, Zenon
  <2>2. CASE key \in Shifts
    <3>1. queue[1] = Down(key)
      <4>1. down = TRUE BY <1>3, <1>5, <2>2, Zenon
      <4> QED BY <1>3, <4>1, Zenon DEF Down
    <3>2. \/ key \in pressed \/ dropped
          \/ \E j \in 1 .. n : 1 < j /\ queue[j] = Up(key)
      BY <1>1, <1>2, <2>2, <3>1 DEF Keyed, Bytes, Shifts, n
    <3>3. \A j \in 1 .. n : 1 < j => j # 1 BY <1>1
    <3> QED BY <2>1, <2>2, <3>2, <3>3, Zenon
  <2>3. CASE key \notin Shifts
    <3>1. console.SHIFT BY <1>5, <2>3, Zenon
    <3>2. \/ pressed \cap Shifts # {} \/ dropped
          \/ \E k \in Shifts, i \in 1 .. n : queue[i] = Up(k)
      BY <1>1, <3>1, ShiftForm, Zenon DEF Keyed, n
    <3>3. \A k \in Shifts : queue[1] # Up(k)
      <4>1. \A k : <<key, down>> = <<k, FALSE>> => key = k BY Zenon
      <4> QED BY <1>3, <2>3, <4>1, Zenon DEF Up
    <3> QED BY <2>1, <3>2, <3>3, Zenon
  <2> QED BY <2>2, <2>3, Zenon
<1> QED BY <1>6, <1>7, <1>8, <1>9, Zenon DEF Keyed

\* A handler that does not get to the byte: it spins, switches the machine off
\* or comes before keyboard::init.
LEMMA UnreadKeyed ==
  ASSUME Keyed, UNCHANGED <<queue, pressed, dropped, console>>,
         Keyboard \in irq' => Keyboard \in irq, mode' \notin Alive \/ early'
  PROVE  Keyed'
<1>1. KeyTypes' BY Zenon DEF Keyed, KeyTypes
<1>2. Bytes' BY Zenon DEF Keyed, Bytes
<1>3. KeyboardAlive' BY Zenon DEF KeyboardAlive
<1>4. NoStuckShift' BY Zenon DEF Keyed, NoStuckShift
<1> QED BY <1>1, <1>2, <1>3, <1>4, Zenon DEF Keyed

LEMMA KeyInterruptKeyed ==
  ASSUME Keyed, KeyInterrupt
  PROVE  Keyed'
<1>1. Keyboard \in irq /\ queue # <<>> BY Zenon DEF KeyInterrupt, Keyed, Bytes
<1>2. \/ /\ UNCHANGED <<queue, pressed, dropped, console>> /\ irq' \subseteq irq
         /\ mode' \in {"stuck", "off"} \/ early' = TRUE
      \/ /\ queue' = Tail(queue) /\ UNCHANGED <<pressed, dropped>>
         /\ console' = KeyboardInterrupt(console, Head(queue)[1], Head(queue)[2])
         /\ irq' = IF Len(queue) > 1 THEN irq ELSE irq \ {Keyboard}
  <2>1. CASE lock = "IRQ_HANDLERS" BY <2>1, Zenon DEF KeyInterrupt, Stuck, keyboard
  <2>2. CASE lock # "IRQ_HANDLERS" /\ Keyboard \notin handlers
    BY <2>2, Zenon DEF KeyInterrupt, keyboard
  <2>3. CASE lock # "IRQ_HANDLERS" /\ Keyboard \in handlers
    BY <2>3, Zenon DEF KeyInterrupt, Stuck, keyboard, ReadScancode
  <2> QED BY <2>1, <2>2, <2>3, Zenon
<1>3. CASE /\ UNCHANGED <<queue, pressed, dropped, console>> /\ irq' \subseteq irq
           /\ mode' \in {"stuck", "off"} \/ early' = TRUE
  <2>1. Keyboard \in irq' => Keyboard \in irq BY <1>3, Zenon
  <2>2. mode' \notin Alive \/ early' BY <1>3, Zenon DEF Alive
  <2> QED BY <1>3, <2>1, <2>2, UnreadKeyed, Zenon
<1>4. CASE /\ queue' = Tail(queue) /\ UNCHANGED <<pressed, dropped>>
           /\ console' = KeyboardInterrupt(console, Head(queue)[1], Head(queue)[2])
           /\ irq' = IF Len(queue) > 1 THEN irq ELSE irq \ {Keyboard}
  BY <1>1, <1>4, ReadKeyed, Zenon
<1> QED BY <1>2, <1>3, <1>4, Zenon

\* What the interrupted code does to the console: it prints and reads.
LEMMA CodeConsole ==
  ASSUME console \in ConsoleType, Code
  PROVE  console' \in ConsoleType /\ console'.SHIFT = console.SHIFT
<1>1. CASE Printed
  <2>1. PICK s \in {<<"a">>, <<"LF">>} :
               console' = [console EXCEPT !.col_pos = WriteStr(console.col_pos, s)]
    BY <1>1, Zenon DEF Printed
  <2>2. Len(s) \in Nat OBVIOUS
  <2>3. console.col_pos \in Columns BY Zenon DEF ConsoleType
  <2>4. WriteStr(console.col_pos, s) \in Columns BY <2>2, <2>3, WriteStrBounds, Zenon
  <2> DEFINE col == WriteStr(console.col_pos, s)
  <2>5. col \in Columns /\ console' = [console EXCEPT !.col_pos = col] BY <2>1, <2>4, Zenon
  <2> HIDE DEF col
  <2> QED BY <2>5, Zenon DEF ConsoleType
<1>2. CASE ReadSingleChar
  <2> DEFINE in == Rest(console.STDIN)
  <2>1. console' = [console EXCEPT !.STDIN = in] /\ console.STDIN # <<>>
    BY <1>2, Zenon DEF ReadSingleChar
  <2>2. console.STDIN \in Seq(Chars) /\ console.capacity \in Nat
        /\ Len(console.STDIN) <= console.capacity
    BY Zenon DEF ConsoleType
  <2>3. Len(console.STDIN) \in Nat \ {0} BY <2>1, <2>2, EmptySeq, Zenon
  <2>4. in = SubSeq(console.STDIN, 1, Len(console.STDIN) - 1) BY Zenon DEF Rest
  <2>5. in \in Seq(Chars) /\ Len(in) = Len(console.STDIN) - 1
    BY <2>2, <2>3, <2>4, SubSeqProperties
  <2>6. Len(in) <= console.capacity BY <2>2, <2>3, <2>5
  <2> HIDE DEF in
  <2> QED BY <2>1, <2>5, <2>6, Zenon DEF ConsoleType
<1>3. CASE ~ Printed /\ ~ ReadSingleChar
  <2>1. console' = console
    BY <1>3, Zenon DEF Code, SetIrqHandler, HandlerSet, Allocate, Allocated, Kprint, StartProcess,
       CalibrateTsc, Wait, Sleep, Begins, ReadTicks, TryWake, Woken, Read, Write, ReadDone
  <2> QED BY <2>1, Zenon
<1> QED BY <1>1, <1>2, <1>3, Zenon

\* The interrupted code leaves the keyboard and the requests alone, and runs.
LEMMA CodeKeeps ==
  ASSUME Code
  PROVE  UNCHANGED <<keyboard, irq, early>> /\ mode \in Alive
<1>1. CASE \/ SetIrqHandler \/ HandlerSet \/ Allocate \/ Allocated \/ Kprint \/ Printed
           \/ StartProcess
  BY <1>1, Zenon DEF SetIrqHandler, HandlerSet, Allocate, Allocated, Kprint, Printed, StartProcess, Runs
<1>2. CASE \/ CalibrateTsc \/ Wait
           \/ \E n \in SleepArgs : Sleep(n)
           \/ ReadTicks \/ TryWake \/ Woken
           \/ \E n \in 1 .. MaxRead : Read(n)
           \/ Write
           \/ ReadSingleChar \/ ReadDone
  BY <1>2, Zenon DEF CalibrateTsc, Wait, Sleep, Begins, ReadTicks, TryWake, Woken, Read, Write,
     ReadSingleChar, ReadDone, Runs
<1> QED BY <1>1, <1>2, Zenon DEF Code

LEMMA KeyedNext == Keyed /\ [Next]_vars => Keyed'
<1> SUFFICES ASSUME Keyed, [Next]_vars PROVE Keyed' BY Zenon
<1>0. console \in ConsoleType BY Zenon DEF Keyed, KeyTypes
<1>1. CASE Code
  <2>1. UNCHANGED <<queue, pressed, dropped, early>> /\ irq' = irq /\ mode \in Alive
    BY <1>1, CodeKeeps, Zenon DEF keyboard
  <2> QED BY <1>0, <1>1, <2>1, CodeConsole, OthersKeyed, Zenon
<1>2. CASE TimerInterrupt
  <2>1. /\ UNCHANGED <<queue, pressed, dropped, console, early>> /\ irq' = irq \ {Timer}
        /\ mode' \in {mode, "stuck"}
    BY <1>2, Zenon DEF TimerInterrupt, Stuck, Return, keyboard
  <2>2. Keyboard \in irq' <=> Keyboard \in irq BY <2>1 DEF Timer, Keyboard
  <2>3. mode' \in Alive => mode \in Alive BY <2>1, Zenon DEF Alive
  <2> QED BY <1>0, <2>1, <2>2, <2>3, OthersKeyed
<1>3. CASE KeyInterrupt BY <1>3, KeyInterruptKeyed, Zenon
<1>4. CASE TimerEdge
  <2>1. /\ UNCHANGED <<queue, pressed, dropped, console, early, mode>>
        /\ irq' = irq \cup {Timer}
    BY <1>4, Zenon DEF TimerEdge, keyboard, cpu
  <2>2. Keyboard \in irq' <=> Keyboard \in irq BY <2>1 DEF Timer, Keyboard
  <2> QED BY <1>0, <2>1, <2>2, OthersKeyed, Zenon
<1>5. ASSUME NEW key \in Keys, KeyByte(key) PROVE Keyed' BY <1>5, KeyByteKeyed, Zenon
<1>6. CASE UNCHANGED vars
  <2>1. UNCHANGED <<queue, pressed, dropped, console, early, mode, irq>>
    BY <1>6, Zenon DEF vars, keyboard, cpu
  <2> QED BY <1>0, <2>1, OthersKeyed, Zenon
<1> QED BY <1>1, <1>2, <1>3, <1>4, <1>5, <1>6, Zenon DEF Next

-----------------------------------------------------------------------------
(***************************************************************************)
(* Sleeps.                                                                 *)
(***************************************************************************)

\* Steps of the interrupted code that neither begin nor end a sleep.
LEMMA SameTicks ==
  ASSUME Ticks, UNCHANGED <<kind, elapsed, asked, edges, irq>>, Sleeping' <=> Sleeping, left' \in Nat
  PROVE  Ticks'
BY Zenon DEF Ticks

LEMMA BackTicks ==
  ASSUME Ticks, Back
  PROVE  Ticks'
<1>1. ~ Sleeping' /\ kind' = "sleep" /\ left' = 0 /\ elapsed' = 0 /\ asked' = 0 /\ edges' = 0
  BY Zenon DEF Back, Sleeping
<1>2. 0 \in 0 .. SleepTicks /\ 0 \in Nat BY MachineAssumption
<1> QED BY <1>1, <1>2, Zenon DEF Ticks

LEMMA CodeTicks ==
  ASSUME Ticks, Code
  PROVE  Ticks'
<1>0. kind \in {"sleep", "wait"} /\ left \in Nat /\ irq' = irq BY CodeKeeps, Zenon DEF Ticks
<1>1. CASE \/ SetIrqHandler \/ HandlerSet \/ Allocate \/ Allocated \/ Kprint \/ Printed
           \/ StartProcess \/ Woken \/ Write
  <2>1. UNCHANGED <<kind, left, elapsed, asked, edges>> /\ (Sleeping' <=> Sleeping)
    BY <1>1, Zenon DEF SetIrqHandler, HandlerSet, Allocate, Allocated, Kprint, Printed, StartProcess,
       Woken, Write, timing, Runs, Mask, Unmask, Sleeping
  <2> QED BY <1>0, <2>1, SameTicks, Zenon
<1>2. ASSUME CalibrateTsc \/ Wait \/ (\E n \in SleepArgs : Sleep(n)) PROVE Ticks'
  <2>1. SleepTicks \in Nat /\ \A n \in SleepArgs : TicksOf(n) \in Nat BY MachineAssumption
  <2>2. /\ act = "run" /\ act' = "start" /\ kind' \in {"sleep", "wait"} /\ left' \in Nat
        /\ asked' \in {asked} \cup SleepArgs /\ UNCHANGED <<elapsed, edges>>
    BY <1>2, <2>1, Zenon DEF CalibrateTsc, Wait, Sleep, Begins, Runs
  <2> QED BY <2>2, Zenon DEF Ticks, Sleeping
<1>3. CASE ReadTicks
  <2>1. act = "start" /\ act' = "sleep" /\ UNCHANGED <<kind, left, elapsed, asked, edges>>
    BY <1>3, Zenon DEF ReadTicks, Runs, timing
  <2>2. elapsed = 0 /\ edges = 0 BY <2>1, Zenon DEF Ticks, Sleeping
  <2>3. /\ elapsed' \in 0 .. SleepTicks /\ edges' \in 0 .. SleepTicks
        /\ asked' \in {0} \cup SleepArgs
    BY <2>1, Zenon DEF Ticks
  <2>4. Sleeping' BY <2>1, Zenon DEF Sleeping
  <2> QED BY <1>0, <2>1, <2>2, <2>3, <2>4 DEF Ticks
<1>4. CASE TryWake
  <2>1. CASE Back BY <2>1, BackTicks, Zenon
  <2>2. CASE Hlt /\ UNCHANGED timing
    <3>1. act = "sleep" /\ act' = "halted" /\ UNCHANGED <<kind, left, elapsed, asked, edges>>
      BY <1>4, <2>2, Zenon DEF TryWake, Runs, Hlt, timing
    <3>2. Sleeping' <=> Sleeping BY <3>1, Zenon DEF Sleeping
    <3> QED BY <1>0, <3>1, <3>2, SameTicks, Zenon
  <2> QED BY <1>4, <2>1, <2>2, Zenon DEF TryWake
<1>5. ASSUME NEW n \in 1 .. MaxRead, Read(n) PROVE Ticks'
  <2>1. act = "run" /\ act' = "read" /\ left' \in Nat /\ UNCHANGED <<kind, elapsed, asked, edges>>
    BY <1>5, MachineAssumption DEF Read, Runs
  <2>2. Sleeping' <=> Sleeping BY <2>1, Zenon DEF Sleeping
  <2> QED BY <1>0, <2>1, <2>2, SameTicks, Zenon
<1>6. CASE ReadSingleChar
  <2>1. left > 0 /\ left' = left - 1 /\ UNCHANGED <<act, kind, elapsed, asked, edges>>
    BY <1>6, Zenon DEF ReadSingleChar, cpu
  <2>2. left' \in Nat BY <1>0, <2>1
  <2>3. Sleeping' <=> Sleeping BY <2>1, Zenon DEF Sleeping
  <2> QED BY <1>0, <2>1, <2>2, <2>3, SameTicks, Zenon
<1>7. CASE ReadDone BY <1>7, BackTicks, Zenon DEF ReadDone
<1> QED BY <1>1, <1>2, <1>3, <1>4, <1>5, <1>6, <1>7 DEF Code

LEMMA TimerTicks ==
  ASSUME Ticks, TimerInterrupt \/ TimerEdge
  PROVE  Ticks'
<1>1. /\ kind \in {"sleep", "wait"} /\ left \in Nat /\ SleepTicks \in Nat
      /\ asked \in {0} \cup SleepArgs
      /\ elapsed \in 0 .. SleepTicks /\ edges \in 0 .. SleepTicks
  BY MachineAssumption, Zenon DEF Ticks
<1>2. CASE TimerInterrupt
  <2>1. /\ Timer \in irq /\ irq' = irq \ {Timer} /\ UNCHANGED <<kind, left, asked, edges>>
        /\ elapsed' = elapsed \/ (Sleeping /\ elapsed < SleepTicks /\ elapsed' = elapsed + 1)
        /\ act' = act \/ (act = "halted" /\ act' = "woken")
    BY <1>2, Zenon DEF TimerInterrupt, Stuck, Return, timing
  <2>2. Sleeping' <=> Sleeping BY <2>1, Zenon DEF Sleeping
  <2>3. elapsed' \in 0 .. SleepTicks /\ elapsed' <= elapsed + 1 BY <1>1, <2>1
  <2>4. ~ Sleeping' => elapsed' = 0 /\ edges' = 0 BY <2>1, <2>2, Zenon DEF Ticks
  <2>5. Sleeping /\ kind = "sleep" => elapsed' <= edges + 1
    BY <1>1, <2>1, <2>3 DEF Ticks
  <2>6. Timer \notin irq' BY <2>1, Zenon
  <2> QED BY <1>1, <2>1, <2>2, <2>3, <2>4, <2>5, <2>6, Zenon DEF Ticks
<1>3. CASE TimerEdge
  <2>1. /\ irq' = irq \cup {Timer} /\ UNCHANGED <<kind, left, elapsed, asked, act>>
        /\ edges' = IF Sleeping /\ kind = "sleep" /\ edges < SleepTicks
                    THEN edges + 1 ELSE edges
    BY <1>3, Zenon DEF TimerEdge, cpu
  <2>2. Sleeping' <=> Sleeping BY <2>1, Zenon DEF Sleeping
  <2>3. edges' \in 0 .. SleepTicks /\ (~ Sleeping => edges' = edges) BY <1>1, <2>1
  <2>4. ASSUME Sleeping, kind = "sleep" PROVE elapsed <= edges'
    <3>1. CASE edges < SleepTicks
      <4>1. elapsed <= edges + 1 BY <1>1, <2>4 DEF Ticks
      <4> QED BY <2>1, <2>4, <3>1, <4>1, Zenon
    <3>2. CASE ~ (edges < SleepTicks) BY <1>1, <2>1, <3>2
    <3> QED BY <3>1, <3>2, Zenon
  <2>5. ~ Sleeping' => elapsed' = 0 /\ edges' = 0 BY <2>1, <2>2, <2>3, Zenon DEF Ticks
  <2>6. Timer \in irq' BY <2>1, Zenon
  <2> QED BY <1>1, <2>1, <2>2, <2>3, <2>4, <2>5, <2>6, Zenon DEF Ticks
<1> QED BY <1>2, <1>3, Zenon

LEMMA TicksNext == Ticks /\ [Next]_vars => Ticks'
<1> SUFFICES ASSUME Ticks, [Next]_vars PROVE Ticks' BY Zenon
<1>1. CASE Code BY <1>1, CodeTicks, Zenon
<1>2. CASE TimerInterrupt \/ TimerEdge BY <1>2, TimerTicks, Zenon
<1>3. CASE KeyInterrupt \/ (\E key \in Keys : KeyByte(key))
  <2>1. /\ UNCHANGED <<kind, left, elapsed, asked, edges>>
        /\ act' = act \/ (act = "halted" /\ act' = "woken")
    BY <1>3, Zenon DEF KeyInterrupt, KeyByte, Stuck, Return, timing, cpu
  <2>2. Timer \in irq' <=> Timer \in irq
    BY <1>3, SMTT(30) DEF KeyInterrupt, KeyByte, Timer, Keyboard
  <2>3. Sleeping' <=> Sleeping BY <2>1, Zenon DEF Sleeping
  <2> QED BY <2>1, <2>2, <2>3, Zenon DEF Ticks
<1>4. CASE UNCHANGED vars
  BY <1>4, Zenon DEF vars, timing, cpu, Ticks, Sleeping
<1> QED BY <1>1, <1>2, <1>3, <1>4, Zenon DEF Next

-----------------------------------------------------------------------------
(***************************************************************************)
(* The theorems.                                                           *)
(***************************************************************************)
LEMMA InitIInv == Init => IInv
<1> SUFFICES ASSUME Init PROVE IInv BY Zenon
<1>1. /\ IF_ = TRUE /\ stage = 0 /\ mode = "boot" /\ act = "run"
      /\ lock = "none" /\ saved = TRUE /\ handlers = {} /\ irq = {}
      /\ queue = <<>> /\ pressed = {} /\ console = InitialConsole
      /\ kind = "sleep" /\ left = 0 /\ elapsed = 0 /\ asked = 0 /\ edges = 0
  BY Zenon DEF Init
<1>2. Cpu
  <2>1. IF_ \in BOOLEAN /\ saved \in BOOLEAN BY <1>1, Zenon
  <2>2. CpuTypes BY <1>1, <2>1 DEF CpuTypes, Alive
  <2>3. Locks BY <1>1, Zenon DEF Locks, Held
  <2>4. Calls /\ OnlyHeapBlocksHandlers BY <1>1, Zenon DEF Calls, OnlyHeapBlocksHandlers
  <2> QED BY <2>2, <2>3, <2>4, Zenon DEF Cpu
<1>3. console \in ConsoleType /\ console.SHIFT = FALSE
  <2>1. <<>> \in Seq(Chars) /\ Len(<<>>) = 0 BY EmptySeq, Zenon
  <2>2. 0 \in Columns BY ConsoleAssumption DEF Columns
  <2>3. FALSE \in BOOLEAN BY Zenon
  <2> QED BY <1>1, <2>1, <2>2, <2>3 DEF InitialConsole, ConsoleType
<1>4. queue \in Seq(ByteType) /\ Len(queue) = 0 BY <1>1, EmptySeq, Zenon
<1>5. KeyTypes BY <1>1, <1>3, <1>4, MachineAssumption DEF KeyTypes
<1>6. Bytes BY <1>1, <1>4 DEF Bytes
<1>7. KeyboardAlive /\ NoStuckShift BY <1>1, <1>3, Zenon DEF KeyboardAlive, NoStuckShift
<1>8. Ticks BY <1>1, MachineAssumption DEF Ticks, Sleeping
<1> QED BY <1>2, <1>5, <1>6, <1>7, <1>8, Zenon DEF IInv

LEMMA NextIInv == IInv /\ [Next]_vars => IInv'
BY CpuNext, KeyedNext, TicksNext, Zenon DEF IInv, Keyed

\* The machine's invariant, for any screen, queue, keys, sleeps and reads.
THEOREM MachineInvariance == Spec => []IInv
BY InitIInv, NextIInv, PTL DEF Spec

\* Types: in particular the cursor never leaves the line, whatever is printed
\* and erased, and STDIN never outgrows what is allocated for it.
THEOREM MachineTypeCorrect == Spec => []TypeOK
<1>1. IInv => TypeOK
  <2> SUFFICES ASSUME IInv PROVE TypeOK BY Zenon
  <2>1. IF_ \in BOOLEAN /\ saved \in BOOLEAN BY Zenon DEF IInv, Cpu, CpuTypes
  <2>2. /\ stage \in 0 .. 4 /\ mode \in {"boot", "user", "call", "stuck", "off"}
        /\ act \in {"run", "heap", "IRQ_HANDLERS", "VGA_WRITER", "start", "sleep", "halted",
                    "woken", "read", "write"}
        /\ lock \in {"none", "heap", "IRQ_HANDLERS", "VGA_WRITER"}
        /\ handlers \subseteq {Timer, Keyboard} /\ irq \subseteq {Timer, Keyboard}
    BY Zenon DEF IInv, Cpu, CpuTypes, Locks, Held, Halting, Alive, Lines
  <2>3. Len(queue) <= QueueSize /\ pressed \subseteq Modifiers BY Zenon DEF IInv, KeyTypes
  <2>4. console.STDIN \in Seq(Chars) /\ Len(console.STDIN) <= console.capacity
        /\ console.col_pos \in 0 .. BUF_WIDTH
    BY Zenon DEF IInv, KeyTypes, ConsoleType, Columns
  <2>5. Range(console.STDIN) \subseteq Chars
    <3>1. DOMAIN console.STDIN = 1 .. Len(console.STDIN)
          /\ \A i \in 1 .. Len(console.STDIN) : console.STDIN[i] \in Chars
      BY <2>4, LenProperties, ElementOfSeq, Zenon
    <3> QED BY <3>1, Zenon DEF Range
  <2>6. /\ elapsed \in 0 .. SleepTicks /\ edges \in 0 .. SleepTicks
        /\ asked \in {0} \cup SleepArgs
    BY Zenon DEF IInv, Ticks
  <2> QED BY <2>1, <2>2, <2>3, <2>4, <2>5, <2>6, Zenon DEF TypeOK
<1> QED BY <1>1, MachineInvariance, PTL

\* The one lock that a handler can find held is the heap's.
THEOREM HandlersBlockOnHeapOnly == Spec => []OnlyHeapBlocksHandlers
<1>1. IInv => OnlyHeapBlocksHandlers BY Zenon DEF IInv, Cpu
<1> QED BY <1>1, MachineInvariance, PTL

\* System calls run with interrupts masked, but for the wait in hlt.
THEOREM CallsMasked == Spec => []MaskedInCalls
<1>1. IInv => MaskedInCalls BY Zenon DEF IInv, Cpu, Calls, MaskedInCalls, Halting
<1> QED BY <1>1, MachineInvariance, PTL

\* The keyboard goes dead only by a key that comes before keyboard::init.
THEOREM KeyboardStaysAlive == Spec => []KeyboardAlive
<1>1. IInv => KeyboardAlive BY Zenon DEF IInv
<1> QED BY <1>1, MachineInvariance, PTL

\* SHIFT outlasts the shift keys only when the release of one was lost.
THEOREM ShiftReleased == Spec => []NoStuckShift
<1>1. IInv => NoStuckShift BY Zenon DEF IInv
<1> QED BY <1>1, MachineInvariance, PTL

\* pit::sleep lasts as many periods as it computed ticks, less one, for any
\* argument of SLEEP.
THEOREM SleepsLast == Spec => SleepsLongEnough
<1>1. IInv /\ [Next]_vars =>
        [act = "sleep" /\ kind = "sleep" /\ act' = "run" => edges >= left - 1]_vars
  <2> SUFFICES ASSUME IInv, [Next]_vars, act = "sleep", kind = "sleep", act' = "run"
               PROVE  edges >= left - 1
    BY Zenon
  <2>1. TryWake
    <3>1. CASE Code
      BY <3>1, Zenon DEF Code, SetIrqHandler, HandlerSet, Allocate, Allocated, Kprint, Printed,
         StartProcess, CalibrateTsc, Wait, Sleep, Begins, ReadTicks, Woken, Read, Write, ReadSingleChar, ReadDone, Runs, cpu
    <3>2. CASE TimerInterrupt \/ KeyInterrupt
      BY <3>2, Zenon DEF TimerInterrupt, KeyInterrupt, Stuck, Return
    <3>3. CASE TimerEdge \/ (\E key \in Keys : KeyByte(key))
      BY <3>3, Zenon DEF TimerEdge, KeyByte, cpu
    <3>4. CASE UNCHANGED vars BY <3>4, Zenon DEF vars, cpu
    <3> QED BY <3>1, <3>2, <3>3, <3>4, Zenon DEF Next
  <2>2. elapsed >= left BY <2>1, Zenon DEF TryWake, Slept, Hlt
  <2>3. elapsed \in Int /\ edges \in Int /\ left \in Int
    BY MachineAssumption DEF IInv, Ticks
  <2>4. elapsed <= edges + 1 BY <2>3 DEF IInv, Ticks, Sleeping
  <2> QED BY ONLY <2>2, <2>3, <2>4
<1> QED BY <1>1, MachineInvariance, PTL DEF Spec, SleepsLongEnough

-----------------------------------------------------------------------------
(***************************************************************************)
(* Echo.                                                                   *)
(***************************************************************************)
Escapes(s) == {i \in 1 .. Len(s) : s[i] = "ESC"}

LEMMA EscapesFinite ==
  ASSUME NEW s, Len(s) \in Nat
  PROVE  IsFiniteSet(Escapes(s)) /\ Cardinality(Escapes(s)) \in Nat
<1>1. IsFiniteSet(1 .. Len(s)) BY FS_Interval
<1>2. Escapes(s) \subseteq 1 .. Len(s) BY Zenon DEF Escapes
<1>3. IsFiniteSet(Escapes(s)) BY <1>1, <1>2, FS_Subset, Zenon
<1> QED BY <1>3, FS_CardinalityType, Zenon

\* handle_key moves the cursor by the columns the character adds to the input.
LEMMA KeyEchoed ==
  ASSUME NEW con \in ConsoleType, NEW c \in Chars \ {"LF"},
         con.col_pos + ColumnsOf(c) <= BUF_WIDTH
  PROVE  /\ HandleKey(con, c).col_pos = con.col_pos + ColumnsOf(c)
         /\ InputWidth(HandleKey(con, c)) = InputWidth(con) + ColumnsOf(c)
         /\ InputWidth(con) \in Nat
<1>1. /\ con.STDIN \in Seq(Chars) /\ Len(con.STDIN) \in Nat
      /\ con.col_pos \in Columns /\ BUF_WIDTH \in Nat /\ con.col_pos \in Nat
  BY ConsoleAssumption, LenProperties DEF ConsoleType, Columns
<1>2. c \notin {"BS", "LF"} BY Zenon DEF Chars
<1> DEFINE col == WriteStr(con.col_pos, EchoOf(c))
           in == Append(con.STDIN, c)
           cap == IF Allocates(con, c) THEN Grown(con.capacity) ELSE con.capacity
<1>3. HandleKey(con, c) = [con EXCEPT !.STDIN = in, !.capacity = cap, !.col_pos = col]
  BY <1>2, Zenon DEF HandleKey
<1>4. col = con.col_pos + ColumnsOf(c)
  <2>1. CASE c = "ESC"
    <3>1. EchoOf(c) = <<"^", "[">> /\ con.col_pos + 2 <= BUF_WIDTH BY <2>1, Zenon DEF EchoOf, ColumnsOf
    <3>2. col = WriteByte(WriteByte(con.col_pos, "^"), "[")
      <4>1. WriteStr(con.col_pos, <<"^", "[">>) = WriteByte(WriteByte(con.col_pos, "^"), "[")
        BY ONLY WriteTwo
      <4> QED BY <3>1, <4>1, Zenon
    <3>3. WriteByte(con.col_pos, "^") = con.col_pos + 1 BY <1>1, <3>1 DEF WriteByte
    <3>4. WriteByte(con.col_pos + 1, "[") = con.col_pos + 2 BY <1>1, <3>1 DEF WriteByte
    <3> HIDE DEF col
    <3> QED BY <2>1, <3>2, <3>3, <3>4, Zenon DEF ColumnsOf
  <2>2. CASE c # "ESC"
    <3>1. EchoOf(c) = <<c>> /\ con.col_pos + 1 <= BUF_WIDTH BY <2>2, Zenon DEF EchoOf, ColumnsOf
    <3>2. col = WriteByte(con.col_pos, c) BY <3>1, WriteOne, Zenon
    <3>3. WriteByte(con.col_pos, c) = con.col_pos + 1 BY <1>1, <1>2, <3>1 DEF WriteByte
    <3> HIDE DEF col
    <3> QED BY <2>2, <3>2, <3>3, Zenon DEF ColumnsOf
  <2> QED BY <2>1, <2>2, Zenon
<1>5. /\ Len(in) = Len(con.STDIN) + 1 /\ in[Len(con.STDIN) + 1] = c
      /\ \A i \in 1 .. Len(con.STDIN) : in[i] = con.STDIN[i]
  BY <1>1, AppendProperties
<1> HIDE DEF col, in, cap
<1>6. HandleKey(con, c).col_pos = col /\ HandleKey(con, c).STDIN = in
  BY <1>3, Zenon DEF ConsoleType
<1>7. /\ IsFiniteSet(Escapes(con.STDIN)) /\ Cardinality(Escapes(con.STDIN)) \in Nat
  BY <1>1, EscapesFinite, Zenon
<1>8. Cardinality(Escapes(in)) =
        Cardinality(Escapes(con.STDIN)) + (IF c = "ESC" THEN 1 ELSE 0)
  <2>1. CASE c = "ESC"
    <3>1. Escapes(in) = Escapes(con.STDIN) \cup {Len(con.STDIN) + 1}
      BY <1>1, <1>5, <2>1 DEF Escapes
    <3>2. Len(con.STDIN) + 1 \notin Escapes(con.STDIN) BY <1>1 DEF Escapes
    <3> QED BY <1>7, <2>1, <3>1, <3>2, FS_AddElement, Zenon
  <2>2. CASE c # "ESC"
    <3>1. Escapes(in) = Escapes(con.STDIN) BY <1>1, <1>5, <2>2 DEF Escapes
    <3> QED BY <1>7, <2>2, <3>1
  <2> QED BY <2>1, <2>2, Zenon
<1>9. /\ InputWidth(con) = Len(con.STDIN) + Cardinality(Escapes(con.STDIN))
      /\ InputWidth(HandleKey(con, c)) = Len(in) + Cardinality(Escapes(in))
  BY <1>6, Zenon DEF InputWidth, Escapes
<1> DEFINE k == Cardinality(Escapes(con.STDIN))
           n == Len(con.STDIN)
<1>10. InputWidth(HandleKey(con, c)) = (n + 1) + (k + (IF c = "ESC" THEN 1 ELSE 0))
       /\ InputWidth(con) = n + k /\ n \in Nat /\ k \in Nat
  BY <1>1, <1>5, <1>7, <1>8, <1>9, Zenon
<1> HIDE DEF k, n
<1>11. InputWidth(HandleKey(con, c)) = InputWidth(con) + ColumnsOf(c) /\ InputWidth(con) \in Nat
  BY <1>10 DEF ColumnsOf
<1> QED BY <1>4, <1>6, <1>11, Zenon

\* Backspace takes a character of one column from both.
LEMMA KeyErased ==
  ASSUME NEW con \in ConsoleType, con.col_pos > 0,
         con.STDIN # <<>> => Popped(con.STDIN) # "ESC"
  PROVE  HandleKey(con, "BS").col_pos - InputWidth(HandleKey(con, "BS")) =
           con.col_pos - InputWidth(con)
<1>1. /\ con.STDIN \in Seq(Chars) /\ Len(con.STDIN) \in Nat
      /\ DOMAIN con.STDIN = 1 .. Len(con.STDIN) /\ con.col_pos \in Nat
  BY ConsoleAssumption, LenProperties DEF ConsoleType, Columns
<1>2. CASE con.STDIN = <<>> BY <1>2, Zenon DEF HandleKey
<1>3. CASE con.STDIN # <<>>
  <2> DEFINE in == Rest(con.STDIN)
             n == Backspaces(Popped(con.STDIN))
             s == [i \in 1 .. n |-> "BS"]
             col == WriteStr(con.col_pos, s)
  <2>1. HandleKey(con, "BS") = [con EXCEPT !.STDIN = in, !.col_pos = col]
    BY <1>3, Zenon DEF HandleKey
  <2>2. Len(con.STDIN) \in Nat \ {0} BY <1>1, <1>3, EmptySeq, Zenon
  <2>3. Popped(con.STDIN) # "ESC" BY <1>3, Zenon
  <2>4. n = 1 BY <2>3 DEF Backspaces
  <2>5. s = <<"BS">>
    <3> HIDE DEF n
    <3> QED BY <2>4
  <2>6. col = con.col_pos - 1
    <3>1. col = WriteByte(con.col_pos, "BS") BY <2>5, WriteOne, Zenon
    <3> HIDE DEF col
    <3> QED BY <1>1, <3>1, Zenon DEF WriteByte
  <2>7. /\ Len(in) = Len(con.STDIN) - 1
        /\ \A i \in 1 .. Len(con.STDIN) - 1 : in[i] = con.STDIN[i]
    <3>1. in = SubSeq(con.STDIN, 1, Len(con.STDIN) - 1) BY Zenon DEF Rest
    <3>2. \A i \in 1 .. Len(con.STDIN) - 1 : con.STDIN[i] \in Chars BY <1>1, ElementOfSeq
    <3>3. /\ Len(in) = IF 1 <= Len(con.STDIN) - 1 THEN (Len(con.STDIN) - 1) - 1 + 1 ELSE 0
          /\ \A i \in 1 .. (Len(con.STDIN) - 1) - 1 + 1 : in[i] = con.STDIN[1 + i - 1]
      BY <2>2, <3>1, <3>2, SubSeqProperties
    <3> HIDE DEF in
    <3> QED BY <2>2, <3>3
  <2> HIDE DEF in, n, s, col
  <2>8. HandleKey(con, "BS").col_pos = col /\ HandleKey(con, "BS").STDIN = in
    BY <2>1, Zenon DEF ConsoleType
  <2>9. Escapes(in) = Escapes(con.STDIN)
    <3>1. con.STDIN[Len(con.STDIN)] # "ESC" BY <2>3, Zenon DEF Popped
    <3> QED BY <2>2, <2>7, <3>1 DEF Escapes
  <2>10. Cardinality(Escapes(con.STDIN)) \in Nat BY <1>1, EscapesFinite, Zenon
  <2>11. /\ InputWidth(con) = Len(con.STDIN) + Cardinality(Escapes(con.STDIN))
         /\ InputWidth(HandleKey(con, "BS")) = Len(in) + Cardinality(Escapes(con.STDIN))
    BY <2>8, <2>9, Zenon DEF InputWidth, Escapes
  <2> DEFINE k == Cardinality(Escapes(con.STDIN))
  <2>12. k \in Nat /\ InputWidth(con) = Len(con.STDIN) + k
         /\ InputWidth(HandleKey(con, "BS")) = Len(in) + k
    BY <2>10, <2>11, Zenon
  <2> HIDE DEF k
  <2> QED BY <1>1, <2>2, <2>6, <2>7, <2>8, <2>12
<1> QED BY <1>2, <1>3, Zenon

LEMMA Echoed ==
  ASSUME NEW con \in ConsoleType, NEW key \in (Printing \cup Modifiers) \ {"Enter"},
         NEW down \in BOOLEAN, ~ ShutdownAsked(con, key, down),
         IF key = "Backspace"
         THEN con.col_pos > 0 /\ (con.STDIN # <<>> => Popped(con.STDIN) # "ESC")
         ELSE con.col_pos + EchoWidth(con, key, down) <= BUF_WIDTH
  PROVE  LET after == KeyboardInterrupt(con, key, down)
         IN  after.col_pos - InputWidth(after) = con.col_pos - InputWidth(con)
<1> DEFINE set == SetModifiers(con, key, down)
<1>1. set \in ConsoleType BY SetModifiersType, Zenon
<1>2. set.col_pos = con.col_pos /\ set.STDIN = con.STDIN
  BY Zenon DEF SetModifiers, ConsoleType
<1>3. InputWidth(set) = InputWidth(con) BY <1>2, Zenon DEF InputWidth
<1>4. KeyboardInterrupt(con, key, down) =
        IF ~ down \/ key \in Modifiers THEN set
        ELSE IF Backtab(set, key) THEN HandleCsi(set, "Z")
        ELSE HandleKey(set, CharOf(key))
  BY Zenon DEF KeyboardInterrupt
<1> HIDE DEF set
<1>5. set.col_pos \in Nat /\ BUF_WIDTH \in Nat
  BY <1>1, ConsoleAssumption DEF ConsoleType, Columns
<1>6. CASE ~ down \/ key \in Modifiers BY <1>2, <1>3, <1>4, <1>6, Zenon
<1>7. CASE key = "Backspace" /\ ~ (~ down \/ key \in Modifiers)
  <2>1. KeyboardInterrupt(con, key, down) = HandleKey(set, "BS")
    BY <1>4, <1>7, Zenon DEF Backtab, CharOf
  <2>2. set.col_pos > 0 /\ (set.STDIN # <<>> => Popped(set.STDIN) # "ESC") BY <1>2, <1>7, Zenon
  <2> QED BY <1>1, <1>2, <1>3, <2>1, <2>2, KeyErased, Zenon
<1>8. CASE key # "Backspace" /\ ~ (~ down \/ key \in Modifiers)
  <2>1. set.col_pos + EchoWidth(con, key, down) <= BUF_WIDTH BY <1>2, <1>8, Zenon
  <2>4. Backtab(set, key) <=> Backtab(con, key)
    BY Zenon DEF Backtab, set, SetModifiers
  <2>2. CASE Backtab(set, key)
    <3> DEFINE a == HandleKey(set, "ESC")
               b == HandleKey(a, "[")
               z == HandleKey(b, "Z")
    <3>1. KeyboardInterrupt(con, key, down) = z BY <1>4, <1>8, <2>2, Zenon DEF HandleCsi
    <3>2. "ESC" \in Chars \ {"LF"} /\ "[" \in Chars \ {"LF"} /\ "Z" \in Chars \ {"LF"}
          /\ ColumnsOf("ESC") = 2 /\ ColumnsOf("[") = 1 /\ ColumnsOf("Z") = 1
      BY Zenon DEF Chars, ColumnsOf
    <3>0. set.col_pos + 4 <= BUF_WIDTH BY <1>8, <2>1, <2>2, <2>4, Zenon DEF EchoWidth
    <3>3. /\ a \in ConsoleType /\ a.col_pos = set.col_pos + 2
          /\ InputWidth(a) = InputWidth(set) + 2 /\ InputWidth(set) \in Nat
      <4>1. set.col_pos + 2 <= BUF_WIDTH BY <1>5, <3>0
      <4> QED BY <1>1, <3>2, <4>1, HandleKeyType, KeyEchoed, SMTT(30)
    <3> HIDE DEF a
    <3>4. /\ b \in ConsoleType /\ b.col_pos = a.col_pos + 1
          /\ InputWidth(b) = InputWidth(a) + 1
      <4>1. a.col_pos + 1 <= BUF_WIDTH BY <1>5, <3>0, <3>3
      <4> QED BY <3>2, <3>3, <4>1, HandleKeyType, KeyEchoed, SMTT(30)
    <3> HIDE DEF b
    <3>5. z.col_pos = b.col_pos + 1 /\ InputWidth(z) = InputWidth(b) + 1
      <4>1. b.col_pos + 1 <= BUF_WIDTH BY <1>5, <3>0, <3>3, <3>4
      <4> QED BY <3>2, <3>4, <4>1, KeyEchoed
    <3> HIDE DEF z
    <3>6. z.col_pos - InputWidth(z) = set.col_pos - InputWidth(set)
      BY <1>5, <3>3, <3>4, <3>5
    <3> QED BY <1>2, <1>3, <3>1, <3>6, Zenon
  <2>3. CASE ~ Backtab(set, key)
    <3>1. PICK c \in Chars \ {"LF"} : c = CharOf(key)
      BY <1>8, Zenon DEF Printing, CharOf, Chars
    <3>2. KeyboardInterrupt(con, key, down) = HandleKey(set, c) BY <1>4, <1>8, <2>3, <3>1, Zenon
    <3>3. ColumnsOf(c) \in {1, 2} BY Zenon DEF ColumnsOf
    <3>4. set.col_pos + ColumnsOf(c) <= BUF_WIDTH
      BY <1>8, <2>1, <2>3, <2>4, <3>1, Zenon DEF EchoWidth
    <3>5. /\ HandleKey(set, c).col_pos = set.col_pos + ColumnsOf(c)
          /\ InputWidth(HandleKey(set, c)) = InputWidth(set) + ColumnsOf(c)
          /\ InputWidth(set) \in Nat
      BY <1>1, <3>4, KeyEchoed, Zenon
    <3>6. HandleKey(set, c).col_pos - InputWidth(HandleKey(set, c)) =
            set.col_pos - InputWidth(set)
      BY <1>5, <3>3, <3>5
    <3> QED BY <1>2, <1>3, <3>2, <3>6, Zenon
  <2> QED BY <2>2, <2>3, Zenon
<1> QED BY <1>6, <1>7, <1>8, Zenon

\* Echo and input stay together: a key whose echo fits on the line, and a
\* Backspace that erases a character of one column on it, move the cursor by the
\* columns they add to STDIN or take from it.  Enter, the erasing of an ESC and
\* the shutdown key that fails do not.
THEOREM EchoKeepsUp == Spec => EchoTracksInput
<1> DEFINE Moves ==
             /\ queue # <<>> /\ queue' = Tail(queue)
             /\ Head(queue)[1] # "Enter"
             /\ ~ ShutdownAsked(console, Head(queue)[1], Head(queue)[2])
             /\ IF Head(queue)[1] = "Backspace"
                THEN /\ console.col_pos > 0
                     /\ console.STDIN # <<>> => Popped(console.STDIN) # "ESC"
                ELSE console.col_pos + EchoWidth(console, Head(queue)[1], Head(queue)[2])
                       <= BUF_WIDTH
             => console'.col_pos - InputWidth(console')
                  = console.col_pos - InputWidth(console)
<1>1. IInv /\ [Next]_vars => [Moves]_vars
  <2> SUFFICES ASSUME IInv, [Next]_vars, queue # <<>>, queue' = Tail(queue),
                      Head(queue)[1] # "Enter",
                      ~ ShutdownAsked(console, Head(queue)[1], Head(queue)[2]),
                      IF Head(queue)[1] = "Backspace"
                      THEN /\ console.col_pos > 0
                           /\ console.STDIN # <<>> => Popped(console.STDIN) # "ESC"
                      ELSE console.col_pos + EchoWidth(console, Head(queue)[1], Head(queue)[2])
                             <= BUF_WIDTH
               PROVE  console'.col_pos - InputWidth(console')
                        = console.col_pos - InputWidth(console)
    BY Zenon
  <2> DEFINE key == Head(queue)[1]
             down == Head(queue)[2]
  <2>1. /\ queue \in Seq(ByteType) /\ console \in ConsoleType /\ Len(queue) \in Nat
    BY LenProperties, Zenon DEF IInv, KeyTypes
  <2>2. Head(queue) \in ByteType /\ Len(Tail(queue)) = Len(queue) - 1
    BY <2>1, HeadTailProperties, Zenon
  <2>3. key \in (Printing \cup Modifiers) \ {"Enter"} /\ down \in BOOLEAN
    BY <2>2, Zenon DEF ByteType
  <2>4. queue' # queue
    <3>1. Len(queue) # Len(queue) - 1 BY <2>1
    <3> QED BY <2>2, <3>1, Zenon
  <2>5. \A b : queue' # Append(queue, b)
    <3> SUFFICES ASSUME NEW b, queue' = Append(queue, b) PROVE FALSE BY Zenon
    <3>1. Len(Append(queue, b)) = Len(queue) + 1 BY <2>1
    <3> QED BY <2>1, <2>2, <3>1
  <2>6. console' = KeyboardInterrupt(console, key, down)
    <3>1. CASE Code BY <2>4, <3>1, CodeKeeps, Zenon DEF keyboard
    <3>2. CASE TimerInterrupt \/ TimerEdge \/ UNCHANGED vars
      BY <2>4, <3>2, Zenon DEF TimerInterrupt, Stuck, TimerEdge, vars, keyboard
    <3>3. ASSUME NEW k \in Keys, KeyByte(k) PROVE FALSE BY <2>4, <2>5, <3>3, Zenon DEF KeyByte
    <3>4. CASE KeyInterrupt
      <4>1. CASE lock = "IRQ_HANDLERS" \/ Keyboard \notin handlers
        BY <2>4, <3>4, <4>1, Zenon DEF KeyInterrupt, Stuck, keyboard
      <4>2. CASE ~ (lock = "IRQ_HANDLERS" \/ Keyboard \notin handlers)
        BY <2>4, <3>4, <4>2, Zenon DEF KeyInterrupt, Stuck, keyboard
      <4> QED BY <4>1, <4>2, Zenon
    <3> QED BY <3>1, <3>2, <3>3, <3>4, Zenon DEF Next
  <2>7. /\ ~ ShutdownAsked(console, key, down)
        /\ IF key = "Backspace"
           THEN console.col_pos > 0 /\ (console.STDIN # <<>> => Popped(console.STDIN) # "ESC")
           ELSE console.col_pos + EchoWidth(console, key, down) <= BUF_WIDTH
    BY Zenon
  <2> HIDE DEF key, down
  <2> QED BY <2>1, <2>3, <2>6, <2>7, Echoed, Zenon
<1> QED BY <1>1, MachineInvariance, PTL DEF Spec, EchoTracksInput
=============================================================================
