------------------------------ MODULE Console -------------------------------
(***************************************************************************)
(* The console: what the keyboard interrupt does to the modifier flags     *)
(* (kernel/src/internal/keyboard.rs), to the input buffer (console.rs) and *)
(* to the cursor of the screen (vga.rs), as functions on one record.       *)
(* ECHO and RAW_MODE keep their initial values: nothing in the kernel      *)
(* calls their setters.                                                    *)
(***************************************************************************)
EXTENDS Integers, Sequences, Functions

CONSTANTS
  BUF_WIDTH,    \* columns of the screen; 80 in the code
  MIN_CAPACITY  \* what the first push allocates; 8 in the library

ASSUME ConsoleAssumption == BUF_WIDTH \in Nat \ {0} /\ MIN_CAPACITY \in Nat \ {0}

\* Keys, and the characters the decoder gives for them.  It is made anew for
\* every byte, so its own modifiers are never set.
Modifiers == {"LShift", "RShift", "LControl", "LAlt"}
Printing == {"A", "Backspace", "Tab", "Enter", "Escape"}
CharOf(key) ==
  CASE key = "A" -> "a"
    [] key = "Backspace" -> "BS"
    [] key = "Tab" -> "TAB"
    [] key = "Enter" -> "LF"
    [] key = "Escape" -> "ESC"
Chars == {"a", "TAB", "LF", "ESC", "[", "Z"}

\* capacity: bytes allocated for STDIN.
InitialConsole ==
  [SHIFT |-> FALSE, CTRL |-> FALSE, ALT |-> FALSE,
   STDIN |-> <<>>, capacity |-> 0, col_pos |-> 0]

\* Mutant: the line is broken one column late.
WrapsLate(col, c) ==
  CASE c = "LF" -> 0
    [] c = "BS" -> IF col > 0 THEN col - 1 ELSE 0
    [] OTHER -> IF col > BUF_WIDTH THEN 1 ELSE col + 1

\* VgaWriter::write_byte: where the cursor goes.
WriteByte(col, c) ==
  CASE c = "LF" -> 0
    [] c = "BS" -> IF col > 0 THEN col - 1 ELSE 0
    [] OTHER -> IF col >= BUF_WIDTH THEN 1 ELSE col + 1

\* VgaWriter::write_str: at[i] is the column after i bytes.
WriteStr(col, s) ==
  LET at[i \in 0 .. Len(s)] == IF i = 0 THEN col ELSE WriteByte(at[i - 1], s[i])
  IN  at[Len(s)]

\* What handle_key echoes for a key.
EchoOf(c) == IF c = "ESC" THEN <<"^", "[">> ELSE <<c>>

\* How many backspaces it prints to erase one: n_bs times a string of n_bs.
Backspaces(c) == LET n_bs == IF c = "ESC" THEN 2 ELSE 1 IN n_bs * n_bs

\* String::pop: the character it takes, and the string it leaves.
Popped(s) == s[Len(s)]
Rest(s) == SubSeq(s, 1, Len(s) - 1)

\* handle_key needs the heap to grow STDIN, and for the string of backspaces.
Allocates(con, c) ==
  IF c = "BS" THEN con.STDIN # <<>> ELSE Len(con.STDIN) = con.capacity

Grown(capacity) == IF capacity = 0 THEN MIN_CAPACITY ELSE 2 * capacity

\* Mutant: the character is erased from the screen only.
EraseOnScreen(con, c) ==
  IF c = "BS"
  THEN [con EXCEPT !.col_pos = WriteStr(@, <<"BS">>)]
  ELSE [con EXCEPT !.STDIN = Append(@, c),
                   !.capacity = IF Allocates(con, c) THEN Grown(@) ELSE @,
                   !.col_pos = WriteStr(@, EchoOf(c))]

HandleKey(con, c) ==
  IF c = "BS"
  THEN IF con.STDIN = <<>> THEN con
       ELSE LET n == Backspaces(Popped(con.STDIN))
            IN  [con EXCEPT !.STDIN = Rest(@),
                            !.col_pos = WriteStr(@, [i \in 1 .. n |-> "BS"])]
  ELSE [con EXCEPT !.STDIN = Append(@, c),
                   !.capacity = IF Allocates(con, c) THEN Grown(@) ELSE @,
                   !.col_pos = WriteStr(@, EchoOf(c))]

\* Mutant: a release is taken for a press.
SetOnly(con, key, down) ==
  CASE key \in {"LShift", "RShift"} -> [con EXCEPT !.SHIFT = TRUE]
    [] key = "LControl" -> [con EXCEPT !.CTRL = down]
    [] key = "LAlt" -> [con EXCEPT !.ALT = down]
    [] OTHER -> con

\* The first match of interrupt_handler: left and right keys share a flag.
SetModifiers(con, key, down) ==
  CASE key \in {"LShift", "RShift"} -> [con EXCEPT !.SHIFT = down]
    [] key = "LControl" -> [con EXCEPT !.CTRL = down]
    [] key = "LAlt" -> [con EXCEPT !.ALT = down]
    [] OTHER -> con

\* handle_csi for a code of one character.
HandleCsi(con, code) == HandleKey(HandleKey(HandleKey(con, "ESC"), "["), code)

\* Shift-Tab is sent as three characters.
Backtab(con, key) == key = "Tab" /\ con.SHIFT

ShutdownAsked(con, key, down) == key = "Backspace" /\ down /\ con.CTRL /\ con.ALT

\* interrupt_handler; the machine goes on when it cannot be shut down yet.
\* The release of a key stands for no character.
KeyboardInterrupt(con, key, down) ==
  LET set == SetModifiers(con, key, down)
      told == IF ShutdownAsked(con, key, down) THEN [set EXCEPT !.col_pos = 0] ELSE set
  IN  IF ~ down \/ key \in Modifiers THEN told
      ELSE IF Backtab(told, key) THEN HandleCsi(told, "Z")
      ELSE HandleKey(told, CharOf(key))

\* The same handler takes the lock of the heap: for the message of a shutdown,
\* to erase, or because STDIN is full before the last character is in it.
HandlerAllocates(con, key, down) ==
  /\ down /\ key \notin Modifiers
  /\ \/ ShutdownAsked(con, key, down)
     \/ Allocates(con, CharOf(key))
     \/ Backtab(con, key) /\ Len(con.STDIN) + 3 > con.capacity
=============================================================================
