------------------------------ MODULE Console ------------------------------
(***************************************************************************)
(* The console of sys/console.rs: STDIN, the input that keys are put into  *)
(* by interrupt handlers (key_handle) and taken out of by one reader, and  *)
(* ECHO and RAW, which say what key_handle does with a key.                *)
(*                                                                         *)
(* What the reader does with interrupts off is one step; every store to a  *)
(* flag and every hlt is a step of its own, because a key may come between *)
(* them.  A character is a name; those that begin an escape sequence are   *)
(* ESC and one name for the rest.                                          *)
(***************************************************************************)
EXTENDS Integers, Sequences, SequencesExt

CONSTANT MAX_INPUT

ASSUME InputAssumption == MAX_INPUT \in Nat \ {0}

NL == "nl"
BS_KEY == "bs"
ETX_KEY == "etx"
EOT_KEY == "eot"
ESC_KEY == "esc"

VARIABLES
  stdin,    \* STDIN: buf[..len]
  echo,     \* ECHO
  raw,      \* RAW
  pc,       \* Where the reader is; "idle" outside of a call
  halted,   \* The reader is in hlt
  cells,    \* History: cells of the screen the input takes, echoed less erased
  mixed     \* History: a key of the input was put in or taken out in another mode

consoleVars == <<stdin, echo, raw, pc, halted, cells, mixed>>

ReaderAt == {"idle", "line", "line_hlt", "char", "char_raw", "char_hlt",
             "char_pop", "char_echo", "char_cooked"}

ConsoleInit ==
  /\ stdin = <<>> /\ echo = TRUE /\ raw = FALSE
  /\ pc = "idle" /\ halted = FALSE
  /\ cells = 0 /\ mixed = FALSE

(* How many backspaces take its echo back: ^C, ^D and ^[ are two cells. *)
Width(c) == IF c \in {ETX_KEY, EOT_KEY, ESC_KEY} THEN 2 ELSE 1

-----------------------------------------------------------------------------
(* key_handle *)

(* Mutant: a backspace takes one cell back, whatever it erases. *)
ErasedCell(c) == 1

Erased(c) == Width(c)

(* The cells are counted until the input is mixed. *)
Shows(n, m) == mixed' = m /\ cells' = IF m THEN 0 ELSE n

Backspace ==
  IF stdin = <<>>
  THEN UNCHANGED <<stdin, cells, mixed>>
  ELSE stdin' = Front(stdin) /\ Shows(cells - Erased(Last(stdin)), mixed \/ ~echo)

(* Mutant: no slot is kept for the end of the line. *)
RoomForAny(key) == Len(stdin) < MAX_INPUT

(* The last slot is reserved for the end of the line. *)
RoomFor(key) == Len(stdin) + (IF key = NL THEN 0 ELSE 1) < MAX_INPUT

Insert(key) ==
  IF RoomFor(key)
  THEN stdin' = Append(stdin, key) /\ Shows(cells + Width(key), mixed \/ ~echo \/ raw)
  ELSE UNCHANGED <<stdin, cells, mixed>>

(* Called by interrupt handlers, which also end a hlt. *)
key_handle(key) ==
  /\ IF key = BS_KEY /\ ~raw THEN Backspace ELSE Insert(key)
  /\ UNCHANGED <<echo, raw, pc>>

-----------------------------------------------------------------------------
(* The reader *)

Cleared == stdin' = <<>> /\ cells' = 0 /\ mixed' = FALSE

GoTo(place) == pc' = place

(* read_line: look, and if the input does not end a line, wait for an        *)
(* interrupt and look again.                                                 *)
ReadLine ==
  /\ pc = "idle" /\ GoTo("line")
  /\ UNCHANGED <<stdin, echo, raw, halted, cells, mixed>>

LineEnded == stdin # <<>> /\ Last(stdin) = NL

TakeLine ==
  /\ pc = "line"
  /\ IF LineEnded
     THEN Cleared /\ GoTo("idle")
     ELSE GoTo("line_hlt") /\ UNCHANGED <<stdin, cells, mixed>>
  /\ UNCHANGED <<echo, raw, halted>>

LineHlt ==
  /\ pc = "line_hlt" /\ halted' = TRUE /\ GoTo("line")
  /\ UNCHANGED <<stdin, echo, raw, cells, mixed>>

(* read_char: without echo and raw, wait first, then look. *)
ReadChar ==
  /\ pc = "idle" /\ GoTo("char_raw")
  /\ echo' = FALSE
  /\ UNCHANGED <<stdin, raw, halted, cells, mixed>>

CharRaw ==
  /\ pc = "char_raw" /\ GoTo("char_hlt")
  /\ raw' = TRUE
  /\ UNCHANGED <<stdin, echo, halted, cells, mixed>>

CharHlt ==
  /\ pc = "char_hlt" /\ halted' = TRUE /\ GoTo("char_pop")
  /\ UNCHANGED <<stdin, echo, raw, cells, mixed>>

TakeChar ==
  /\ pc = "char_pop"
  /\ IF stdin # <<>>
     THEN stdin' = Tail(stdin) /\ Shows(0, TRUE) /\ GoTo("char_echo")
     ELSE GoTo("char_hlt") /\ UNCHANGED <<stdin, cells, mixed>>
  /\ UNCHANGED <<echo, raw, halted>>

CharEcho ==
  /\ pc = "char_echo" /\ GoTo("char_cooked")
  /\ echo' = TRUE
  /\ UNCHANGED <<stdin, raw, halted, cells, mixed>>

CharCooked ==
  /\ pc = "char_cooked" /\ GoTo("idle")
  /\ raw' = FALSE
  /\ UNCHANGED <<stdin, echo, halted, cells, mixed>>

drain ==
  /\ pc = "idle" /\ Cleared
  /\ UNCHANGED <<echo, raw, pc, halted>>

(* What is printed may turn the echo on and off (ESC [ 12 h, ESC [ 12 l). *)
SetEcho ==
  /\ pc = "idle" /\ echo' = ~echo
  /\ UNCHANGED <<stdin, raw, pc, halted, cells, mixed>>

Calls == ReadLine \/ ReadChar \/ drain \/ SetEcho

Reads ==
  \/ TakeLine \/ LineHlt
  \/ CharRaw \/ CharHlt \/ TakeChar \/ CharEcho \/ CharCooked

(* poll(IO::Read), end_of_text and end_of_transmission *)
PollRead == Contains(stdin, NL)
end_of_text == Contains(stdin, ETX_KEY)
end_of_transmission == Contains(stdin, EOT_KEY)

-----------------------------------------------------------------------------
(* A reader that finds the input full has a line to read: there is always    *)
(* room for the Enter that ends it (the slot key_handle reserves), whatever  *)
(* was typed, erased and taken out before.                                   *)
FullEndsLine ==
  /\ Len(stdin) <= MAX_INPUT
  /\ Len(stdin) = MAX_INPUT => LineEnded

(* While lines are read, the screen shows the input and nothing else: what a *)
(* backspace erases is what the key it takes back had drawn, however wide.   *)
Wide(s) == {i \in DOMAIN s : Width(s[i]) = 2}

ScreenShowsInput == ~mixed => cells = Len(stdin) + Cardinality(Wide(stdin))

(* Both: what console::key_handle keeps of the input and of the screen.      *)
InputHolds == FullEndsLine /\ ScreenShowsInput
=============================================================================
