------------------------------ MODULE Machine -------------------------------
(***************************************************************************)
(* One processor, its interrupts, and what waits for them: the kernel's    *)
(* boot (lib.rs), the interrupt handlers (interrupts.rs), the timer        *)
(* (clk/pit.rs), the keyboard and the console (module Console), and the    *)
(* system calls that wait for the timer or for keys.  System calls and     *)
(* handlers run with interrupts masked; boot and processes do not.         *)
(*                                                                         *)
(* An interrupt request is taken before the next step of the code that     *)
(* runs when interrupts are on.  A handler is one step, as nothing can     *)
(* interrupt it; when it needs a lock that the interrupted code holds it   *)
(* spins for ever ("stuck").                                               *)
(***************************************************************************)
EXTENDS Console, FiniteSets

CONSTANTS
  Keys,       \* keys that are pressed
  MaxKeys,    \* bound: bytes the keyboard sends
  QueueSize,  \* bytes the keyboard holds until they are read
  SleepArgs,  \* arguments of SLEEP
  SleepTicks, \* ticks of the second that boot sleeps, 1000 in the code
  MaxRead     \* bound: characters of one read

\* The ticks of pit::sleep for n millionths of a second, rounded down: an
\* interval has 3 * 1193 / 3579545 seconds.
TicksOf(n) == (n * 715909) \div 715800000

ASSUME MachineAssumption ==
  /\ Keys \subseteq Printing \cup Modifiers
  /\ SleepArgs \subseteq Nat /\ \A n \in SleepArgs : TicksOf(n) \in 0 .. SleepTicks
  /\ {MaxKeys, SleepTicks, MaxRead} \subseteq Nat
  /\ QueueSize \in Nat \ {0}

VARIABLES
  IF_,        \* the interrupt flag
  stage,      \* of boot; 4 when the first process has started
  mode,       \* "boot", "user", "call", "stuck" or "off"
  act,        \* what the code that is not a handler does
  lock,       \* the lock it holds, or "none"
  saved,      \* the interrupt flag to go back to
  handlers,   \* interrupt lines with a handler: IRQ_HANDLERS
  irq,        \* interrupt requests not yet taken
  queue,      \* bytes in the keyboard
  pressed,    \* modifier keys held down
  sent,       \* bytes the keyboard has sent
  console,    \* see Console
  kind,       \* "sleep" or "wait", the last one called
  left,       \* characters left to read, or ticks to sleep
  elapsed,    \* get_ticks() - start, in sleep
  asked,      \* history: the argument of the SLEEP that runs, or 0
  edges,      \* history: timer periods since sleep began
  dropped,    \* history: a byte found the queue full
  early       \* history: a key interrupt came before keyboard::init

cpu == <<IF_, stage, mode, act, lock, saved>>
keyboard == <<queue, pressed, sent, dropped>>
timing == <<kind, left, elapsed, asked, edges>>
vars == <<cpu, handlers, irq, keyboard, console, timing, early>>

Alive == {"boot", "user", "call"}
Sleeping == act \in {"sleep", "halted", "woken"}

Timer == 0
Keyboard == 1

Init ==
  /\ IF_ = TRUE /\ stage = 0 /\ mode = "boot" /\ act = "run"
  /\ lock = "none" /\ saved = TRUE
  /\ handlers = {} /\ irq = {}
  /\ queue = <<>> /\ pressed = {} /\ sent = 0
  /\ console = InitialConsole
  /\ kind = "sleep" /\ left = 0 /\ elapsed = 0 /\ asked = 0 /\ edges = 0
  /\ dropped = FALSE /\ early = FALSE

-----------------------------------------------------------------------------
(* Devices.                                                                 *)

\* A period of the timer ends.  A request not yet taken hides the next.
TimerEdge ==
  /\ mode \in Alive
  /\ irq' = irq \cup {Timer}
  /\ edges' = IF Sleeping /\ kind = "sleep" /\ edges < SleepTicks THEN edges + 1 ELSE edges
  /\ UNCHANGED <<cpu, handlers, keyboard, console, kind, left, elapsed, asked, early>>

\* A key goes down, or a modifier up (the release of another key changes
\* nothing).  The line rises with the first byte in the queue.
KeyByte(key) ==
  /\ mode \in Alive /\ sent < MaxKeys
  /\ sent' = sent + 1
  /\ pressed' = IF key \in pressed THEN pressed \ {key} ELSE pressed \cup ({key} \cap Modifiers)
  /\ IF Len(queue) < QueueSize
     THEN queue' = Append(queue, <<key, key \notin pressed>>) /\ UNCHANGED dropped
     ELSE dropped' = TRUE /\ UNCHANGED queue
  /\ irq' = IF queue = <<>> THEN irq \cup {Keyboard} ELSE irq
  /\ UNCHANGED <<cpu, handlers, console, timing, early>>

-----------------------------------------------------------------------------
(* Interrupt handlers.                                                      *)

Stuck ==
  /\ mode' = "stuck" /\ IF_' = FALSE
  /\ UNCHANGED <<stage, act, lock, saved, handlers, keyboard, console, timing, early>>

\* The interrupted code goes on, and wakes up if it was halted.
Return ==
  /\ act' = IF act = "halted" THEN "woken" ELSE act
  /\ UNCHANGED <<IF_, stage, mode, lock, saved>>

\* irq0_handler and pit_handler.
TimerInterrupt ==
  /\ IF_ /\ Timer \in irq
  /\ irq' = irq \ {Timer}
  /\ IF lock = "IRQ_HANDLERS" THEN Stuck
     ELSE /\ elapsed' = IF Timer \in handlers /\ Sleeping /\ elapsed < SleepTicks
                        THEN elapsed + 1 ELSE elapsed
          /\ Return
          /\ UNCHANGED <<handlers, keyboard, console, kind, left, asked, edges, early>>

\* The locks the keyboard handler takes for a byte.
Needs(key, down) ==
  {"IRQ_HANDLERS", "STDIN", "VGA_WRITER"}
    \cup (IF HandlerAllocates(console, key, down) THEN {"heap"} ELSE {})

\* Mutant: the bytes of modifiers are left in the keyboard.
ReadPrintable == queue' = IF Head(queue)[1] \in Modifiers THEN queue ELSE Tail(queue)

ReadScancode == queue' = Tail(queue)

\* irq1_handler.  Before keyboard::init the handler does nothing, and the
\* line stays up as nobody reads the byte.  Shutdown works once acpi::init has
\* run, at some point of stage 3, and if it found what it needs; otherwise it
\* returns and the key is handled like any other.
KeyInterrupt ==
  /\ IF_ /\ Keyboard \in irq /\ Timer \notin irq
  /\ IF lock = "IRQ_HANDLERS" THEN irq' = irq \ {Keyboard} /\ Stuck
     ELSE IF Keyboard \notin handlers
     THEN /\ irq' = irq \ {Keyboard}
          /\ early' = TRUE
          /\ Return
          /\ UNCHANGED <<handlers, keyboard, console, timing>>
     ELSE LET key == Head(queue)[1]
              down == Head(queue)[2]
          IN  /\ irq' = IF Len(queue) > 1 THEN irq ELSE irq \ {Keyboard}
              /\ IF lock \in Needs(key, down) THEN Stuck
                 ELSE \/ /\ ShutdownAsked(console, key, down) /\ stage \in {3, 4}
                         /\ mode' = "off" /\ IF_' = FALSE
                         /\ UNCHANGED <<stage, act, lock, saved, handlers, keyboard,
                                        console, timing, early>>
                      \/ /\ ReadScancode
                         /\ console' = KeyboardInterrupt(console, key, down)
                         /\ Return
                         /\ UNCHANGED <<handlers, pressed, sent, dropped, timing, early>>

-----------------------------------------------------------------------------
(* The code that handlers interrupt.                                        *)

\* It runs its next instruction only when no request is to be taken.
Runs(m, a) == mode = m /\ mode \in Alive /\ act = a /\ ~ (IF_ /\ irq # {})

\* without_interrupts around a lock.
Mask(l) ==
  /\ act' = l /\ lock' = l
  /\ saved' = IF_
  /\ IF_' = FALSE

Unmask ==
  /\ act' = "run" /\ lock' = "none"
  /\ IF_' = saved /\ saved' = TRUE

\* Mutant: interrupts stay on while IRQ_HANDLERS is locked.
RegisterUnmasked ==
  /\ Runs("boot", "run") /\ stage \in {0, 2}
  /\ act' = "IRQ_HANDLERS" /\ lock' = "IRQ_HANDLERS" /\ saved' = IF_
  /\ UNCHANGED <<IF_, stage, mode, handlers, irq, keyboard, console, timing, early>>

\* pit::init, keyboard::init: set_irq_handler up to its assignment.
SetIrqHandler ==
  /\ Runs("boot", "run") /\ stage \in {0, 2}
  /\ Mask("IRQ_HANDLERS")
  /\ UNCHANGED <<stage, mode, handlers, irq, keyboard, console, timing, early>>

\* The rest of set_irq_handler.
HandlerSet ==
  /\ Runs("boot", "IRQ_HANDLERS")
  /\ handlers' = handlers \cup {IF stage = 0 THEN Timer ELSE Keyboard}
  /\ stage' = stage + 1
  /\ Unmask
  /\ UNCHANGED <<mode, irq, keyboard, console, timing, early>>

\* Code of boot allocates or frees, with interrupts as they are.
Allocate ==
  /\ Runs("boot", "run") /\ stage \in {2, 3}
  /\ act' = "heap" /\ lock' = "heap"
  /\ UNCHANGED <<IF_, stage, mode, saved, handlers, irq, keyboard, console, timing, early>>

Allocated ==
  /\ Runs("boot", "heap")
  /\ act' = "run" /\ lock' = "none"
  /\ UNCHANGED <<IF_, stage, mode, saved, handlers, irq, keyboard, console, timing, early>>

\* A line of the log, or a write to the console: _kprint.
Kprint ==
  /\ Runs("boot", "run") \/ Runs("call", "write")
  /\ Mask("VGA_WRITER")
  /\ UNCHANGED <<stage, mode, handlers, irq, keyboard, console, timing, early>>

\* The end of it: a piece of text, or the end of a line.
Printed ==
  /\ Runs(mode, "VGA_WRITER")
  /\ \E s \in {<<"a">>, <<"LF">>} : console' = [console EXCEPT !.col_pos = WriteStr(@, s)]
  /\ IF mode = "boot" THEN Unmask /\ UNCHANGED <<mode, stage>>
     ELSE /\ mode' = "user" /\ act' = "run" /\ lock' = "none" /\ IF_' = TRUE
          /\ saved' = TRUE
          /\ UNCHANGED stage
  /\ UNCHANGED <<handlers, irq, keyboard, timing, early>>

\* init has returned; kmain starts the first process.
StartProcess ==
  /\ Runs("boot", "run") /\ stage = 3
  /\ mode' = "user" /\ stage' = 4
  /\ UNCHANGED <<IF_, act, lock, saved, handlers, irq, keyboard, console, timing, early>>

\* The call of sleep or wait of the timer, for a number of ticks.
Begins(k, ticks) ==
  /\ act' = "start" /\ kind' = k /\ left' = ticks
  /\ UNCHANGED <<stage, lock, saved, handlers, irq, keyboard, console, elapsed, edges, early>>

\* calibrate_tsc at boot.
CalibrateTsc ==
  /\ Runs("boot", "run") /\ stage = 1
  /\ Begins("sleep", SleepTicks)
  /\ UNCHANGED <<IF_, mode, asked>>

\* SLEEP divides its argument by a million, and hands the quotient to a
\* function of seconds.
Sleep(n) ==
  /\ Runs("user", "run") /\ mode' = "call" /\ IF_' = FALSE
  /\ Begins("sleep", TicksOf(n))
  /\ asked' = n

\* WAIT; its ticks are those of the timer at most.
Wait ==
  /\ Runs("user", "run") /\ mode' = "call" /\ IF_' = FALSE
  /\ Begins("wait", SleepTicks)
  /\ UNCHANGED asked

\* Their first line reads the ticks or the time stamp.  Until then a request
\* of the timer may have come and wait.
ReadTicks ==
  /\ Runs(mode, "start")
  /\ act' = "sleep"
  /\ UNCHANGED <<IF_, stage, mode, lock, saved, handlers, irq, keyboard, console, timing, early>>

\* Mutant: hlt leaves the interrupts masked.
HltMasked ==
  /\ saved' = IF_
  /\ act' = "halted"
  /\ UNCHANGED <<IF_, lock>>

\* hlt: interrupts on and halted, in one instruction pair.
Hlt ==
  /\ saved' = IF_
  /\ IF_' = TRUE
  /\ act' = "halted"
  /\ UNCHANGED lock

\* The end of a sleep or of a system call.
Back ==
  /\ IF mode = "boot" THEN stage' = 2 /\ UNCHANGED <<mode, IF_>>
     ELSE mode' = "user" /\ IF_' = TRUE /\ UNCHANGED stage
  /\ act' = "run"
  /\ saved' = TRUE
  /\ kind' = "sleep" /\ left' = 0 /\ elapsed' = 0 /\ asked' = 0 /\ edges' = 0
  /\ UNCHANGED lock

\* Mutant: the last tick is not waited for.
SleptAlmost == elapsed + 1 >= left

\* The condition of the loop of sleep; the one of wait looks at the processor's
\* time stamp, which runs on while ticks are lost.
Slept == elapsed >= left

TryWake ==
  /\ Runs(mode, "sleep")
  /\ \/ Slept /\ Back
     \/ kind = "wait" /\ Back
     \/ ~ Slept /\ Hlt /\ UNCHANGED <<stage, mode, timing>>
  /\ UNCHANGED <<handlers, irq, keyboard, console, early>>

\* Mutant: interrupts are left on.
WokenUnmasked ==
  /\ Runs(mode, "woken")
  /\ act' = "sleep"
  /\ UNCHANGED <<IF_, stage, mode, lock, saved, handlers, irq, keyboard, console, timing, early>>

\* The end of hlt: interrupts off again if they were.
Woken ==
  /\ Runs(mode, "woken")
  /\ IF_' = saved /\ saved' = TRUE
  /\ act' = "sleep"
  /\ UNCHANGED <<stage, mode, lock, handlers, irq, keyboard, console, timing, early>>

\* Other system calls that wait or print.
Read(n) ==
  /\ Runs("user", "run")
  /\ mode' = "call" /\ act' = "read" /\ IF_' = FALSE
  /\ left' = n
  /\ UNCHANGED <<stage, lock, saved, handlers, irq, keyboard, console, kind, elapsed, asked, edges, early>>

Write ==
  /\ Runs("user", "run")
  /\ mode' = "call" /\ act' = "write" /\ IF_' = FALSE
  /\ UNCHANGED <<stage, lock, saved, handlers, irq, keyboard, console, timing, early>>

\* read_single_char: one turn of its loop that finds a character.
ReadSingleChar ==
  /\ Runs("call", "read") /\ left > 0
  /\ console.STDIN # <<>>
  /\ console' = [console EXCEPT !.STDIN = Rest(@)]
  /\ left' = left - 1
  /\ UNCHANGED <<cpu, handlers, irq, keyboard, kind, elapsed, asked, edges, early>>

ReadDone ==
  /\ Runs("call", "read") /\ left = 0
  /\ Back
  /\ UNCHANGED <<handlers, irq, keyboard, console, early>>

Code ==
  \/ SetIrqHandler \/ HandlerSet
  \/ Allocate \/ Allocated
  \/ Kprint \/ Printed
  \/ StartProcess
  \/ CalibrateTsc \/ Wait
  \/ \E n \in SleepArgs : Sleep(n)
  \/ ReadTicks \/ TryWake \/ Woken
  \/ \E n \in 1 .. MaxRead : Read(n)
  \/ Write
  \/ ReadSingleChar \/ ReadDone

Next ==
  \/ Code
  \/ TimerInterrupt \/ KeyInterrupt
  \/ TimerEdge
  \/ \E key \in Keys : KeyByte(key)

\* The processor runs and takes the interrupts that are on, and time passes.
\* A handler takes less than a period of the timer, so other
\* interrupts and the interrupted code get on, too.  Nobody has to press a key.
Spec ==
  /\ Init /\ [][Next]_vars
  /\ SF_vars(Code)
  /\ WF_vars(TimerInterrupt)
  /\ SF_vars(KeyInterrupt)
  /\ WF_vars(TimerEdge)

-----------------------------------------------------------------------------
\* Types: the cursor stays on the line, so that write_byte stays in its array.
TypeOK ==
  /\ IF_ \in BOOLEAN /\ saved \in BOOLEAN
  /\ stage \in 0 .. 4 /\ mode \in {"boot", "user", "call", "stuck", "off"}
  /\ act \in {"run", "heap", "IRQ_HANDLERS", "VGA_WRITER", "start", "sleep", "halted", "woken",
              "read", "write"}
  /\ lock \in {"none", "heap", "IRQ_HANDLERS", "VGA_WRITER"}
  /\ handlers \subseteq {Timer, Keyboard} /\ irq \subseteq {Timer, Keyboard}
  /\ Len(queue) <= QueueSize /\ pressed \subseteq Modifiers
  /\ Range(console.STDIN) \subseteq Chars /\ Len(console.STDIN) <= console.capacity
  /\ console.col_pos \in 0 .. BUF_WIDTH
  /\ elapsed \in 0 .. SleepTicks /\ edges \in 0 .. SleepTicks /\ asked \in {0} \cup SleepArgs

\* A handler spins on a lock only when the code it interrupted was allocating:
\* all other locks that handlers take are held with interrupts masked
\* (set_irq_handler, _kprint, read_single_char).
OnlyHeapBlocksHandlers ==
  mode = "stuck" => lock = "heap"

\* Inside a system call interrupts are masked, but for the wait in hlt: what
\* the call does before and after is not interleaved with handlers.
MaskedInCalls ==
  mode = "call" /\ act \notin {"halted", "woken"} => ~ IF_

\* A byte in the keyboard has its interrupt request, unless a key came before
\* keyboard::init: the empty handler takes the request and leaves the byte,
\* and no byte will ever raise the line again.
KeyboardAlive ==
  queue # <<>> /\ mode \in Alive => Keyboard \in irq \/ early

\* SHIFT is on only while a shift key is down, or its release is still in the
\* keyboard or was lost there.
NoStuckShift ==
  console.SHIFT =>
    \/ pressed \cap {"LShift", "RShift"} # {}
    \/ {<<"LShift", FALSE>>, <<"RShift", FALSE>>} \cap Range(queue) # {}
    \/ dropped

\* The columns that STDIN takes on the screen: one for every character, and
\* one more for ESC, which is echoed as two.
InputWidth(con) ==
  Len(con.STDIN) + Cardinality({i \in 1 .. Len(con.STDIN) : con.STDIN[i] = "ESC"})

\* The columns that handle_key echoes for a key other than Backspace.
ColumnsOf(c) == IF c = "ESC" THEN 2 ELSE 1
EchoWidth(con, key, down) ==
  IF ~ down \/ key \in Modifiers THEN 0
  ELSE IF Backtab(con, key) THEN 4
  ELSE ColumnsOf(CharOf(key))

\* A key moves the cursor by what it adds to STDIN or takes from it, as long
\* as its echo fits on the line and what it erases is on this line and not the
\* ESC of two columns: for that handle_key prints n_bs times n_bs backspaces.
EchoTracksInput ==
  [][ /\ queue # <<>> /\ queue' = Tail(queue)
      /\ Head(queue)[1] # "Enter"
      /\ ~ ShutdownAsked(console, Head(queue)[1], Head(queue)[2])
      /\ IF Head(queue)[1] = "Backspace"
         THEN /\ console.col_pos > 0
              /\ console.STDIN # <<>> => Popped(console.STDIN) # "ESC"
         ELSE console.col_pos + EchoWidth(console, Head(queue)[1], Head(queue)[2]) <= BUF_WIDTH
      => console'.col_pos - InputWidth(console') = console.col_pos - InputWidth(console) ]_vars

\* pit::sleep returns after as many timer periods as the ticks it computed,
\* less the one whose request was waiting when it began: it counts interrupts,
\* and none of those it counts is counted twice.
SleepsLongEnough ==
  [][ act = "sleep" /\ kind = "sleep" /\ act' = "run" => edges >= left - 1 ]_vars

\* SLEEP lasts as many milliseconds, or timer periods, as its argument says,
\* less the period that had begun (syscall/mod.rs, the comment on SLEEP: "sleep
\* for a number of milliseconds").  edges counts no further than SleepTicks.
SleepsMilliseconds ==
  [][ act = "sleep" /\ kind = "sleep" /\ asked > 0 /\ act' = "run" /\ edges < SleepTicks
      => edges >= asked - 1 ]_vars

\* Every system call returns, but a read of more keys than were typed before
\* it: it spins with interrupts masked, and no key can arrive.  The sleeps of
\* calls and of boot end because hlt takes interrupts.
CallsReturn ==
  (mode = "call" \/ act = "start") ~>
    \/ mode \in {"user", "off"} \/ (mode = "boot" /\ act = "run")
    \/ (mode = "call" /\ act = "read" /\ console.STDIN = <<>>)
=============================================================================
