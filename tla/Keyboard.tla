------------------------------ MODULE Keyboard -----------------------------
(***************************************************************************)
(* The keyboard driver of sys/keyboard.rs, from the 8042 controller's      *)
(* output buffer to the console.  The 8042 raises the interrupt when its   *)
(* buffer goes from empty to not empty and only then, so that the handler  *)
(* has to leave it empty.                                                  *)
(*                                                                         *)
(* The handler runs with interrupts off: the reader stops while it runs,   *)
(* and the keyboard does not.  Each turn of its loop is a step (Scan), and *)
(* so is each key it sends to the console.  The queue of decoded keys is   *)
(* in Desktop, which reads it; nobody reads those of scancodes and events. *)
(* The serial line is the other source of keys.                            *)
(*                                                                         *)
(* Decode is the pc_keyboard crate: what a key means to the layout when    *)
(* the keys of `down` are down.                                            *)
(***************************************************************************)
EXTENDS Console, FiniteSets

CONSTANTS
  Keys,                          \* Keys of the keyboard
  CtrlKeys, ShiftKeys, AltKeys,  \* LControl and RControl, ...
  Decode(_, _),
  DecodedChars,                  \* What of Decode's answers are characters,
  Letters,                       \* those among them that Control makes of letters
  CsiKeys,                       \* and those that are sent as escape sequences
  SerialChars,                   \* Characters that come in on the serial line
  ControllerSize,                \* Bytes the 8042 and the keyboard hold
  HandledMax                     \* 32

None == "none"
Modifiers == CtrlKeys \cup ShiftKeys \cup AltKeys

ASSUME KeyboardAssumption ==
  /\ ControllerSize \in Nat \ {0} /\ HandledMax \in Nat
  /\ ControllerSize <= HandledMax
  /\ Modifiers \subseteq Keys
  /\ CtrlKeys \cap ShiftKeys = {} /\ (CtrlKeys \cup ShiftKeys) \cap AltKeys = {}

VARIABLES
  held,       \* The modifier keys under a finger
  obf,        \* The controller's output buffer: a sequence of events
  irr,        \* The interrupt is requested
  masked,     \* mem::init has the interrupt masked
  isr,        \* How many scancodes the handler took; Outside when it is not running
  todo,       \* Keys the handler still has to send to the console
  ctrl, shift, alt,      \* CTRL, SHIFT, ALT
  down,       \* Modifiers that are down by the events the decoder was given
  up          \* FALSE after Ctrl+Alt+Del

driverVars == <<held, obf, irr, masked, isr, todo, ctrl, shift, alt, down, up>>
keyboardVars == <<consoleVars, driverVars>>

Outside == -1
Event(k, d) == [key |-> k, down |-> d]

KeyboardInit ==
  /\ ConsoleInit
  /\ held = {} /\ obf = <<>> /\ irr = FALSE /\ masked = TRUE
  /\ isr = Outside /\ todo = <<>>
  /\ ctrl = FALSE /\ shift = FALSE /\ alt = FALSE /\ down = {}
  /\ up = TRUE

-----------------------------------------------------------------------------
(* The keyboard.  A run of the handler takes microseconds: it sees no more   *)
(* than HandledMax scancodes.  A key that is no modifier only enters the     *)
(* queues when it is released, which is left out.                            *)

Sent(k, d) ==
  /\ up /\ Len(obf) < ControllerSize
  /\ isr # Outside => isr + Len(obf) < HandledMax
  /\ obf' = Append(obf, Event(k, d))
  /\ irr' = (irr \/ obf = <<>>)
  /\ UNCHANGED <<consoleVars, masked, isr, todo, ctrl, shift, alt, down, up>>

Press ==
  \E k \in Keys \ held : held' = held \cup (Modifiers \cap {k}) /\ Sent(k, TRUE)

Release == \E k \in held : held' = held \ {k} /\ Sent(k, FALSE)

(* The mask is lifted at the end of mem::init; a request made before is kept. *)
Unmask ==
  /\ up /\ masked /\ masked' = FALSE
  /\ UNCHANGED <<consoleVars, held, obf, irr, isr, todo, ctrl, shift, alt, down, up>>

-----------------------------------------------------------------------------
(* interrupt_handler *)

Enter ==
  /\ up /\ irr /\ ~masked /\ isr = Outside
  /\ irr' = FALSE /\ isr' = 0 /\ halted' = FALSE
  /\ UNCHANGED <<stdin, echo, raw, pc, cells, mixed>>
  /\ UNCHANGED <<held, obf, masked, todo, ctrl, shift, alt, down, up>>

Csi(code) == <<ESC_KEY, code>>

(* What is sent for decoded key k: the branches of the match. *)
Sequence(k, c, s, a) ==
  CASE k = "tab" -> IF c THEN Csi(IF s THEN "1;6I" ELSE "1;5I")
                         ELSE IF s THEN Csi("Z") ELSE <<"tab">>
    [] k \in CsiKeys -> Csi(k)
    [] k \in DecodedChars \ {"tab"} ->
         IF c /\ s /\ k \in Letters THEN Csi("1;6") ELSE <<k>>
    [] OTHER -> <<>>

(* Mutant: one scancode to an interrupt. *)
ScanningOne == isr = 0 /\ obf # <<>>

Scanning == isr \in 0 .. HandledMax - 1 /\ obf # <<>>

(* Mutant: a modifier that is released is not noticed. *)
OnlyPressed(flag, keys, e) == flag \/ (e.key \in keys /\ e.down)

(* ALT, SHIFT and CTRL follow the last event of either of their keys. *)
Flag(flag, keys, e) == IF e.key \in keys THEN e.down ELSE flag

Decoded(e, d) == IF e.down THEN Decode(e.key, d) ELSE None

Scan ==
  /\ up /\ todo = <<>> /\ Scanning
  /\ LET e == Head(obf)
         d == IF e.key \in Modifiers
              THEN IF e.down THEN down \cup {e.key} ELSE down \ {e.key}
              ELSE down
         c == Flag(ctrl, CtrlKeys, e)
         s == Flag(shift, ShiftKeys, e)
         a == Flag(alt, AltKeys, e)
         k == Decoded(e, d)
         reset == k = "del" /\ a /\ c
     IN /\ down' = d /\ ctrl' = c /\ shift' = s /\ alt' = a
        /\ todo' = IF reset \/ k = None THEN <<>> ELSE Sequence(k, c, s, a)
        /\ up' = ~reset
  /\ obf' = Tail(obf) /\ isr' = isr + 1
  /\ UNCHANGED <<consoleVars, held, irr, masked>>

SendKey ==
  /\ up /\ todo # <<>>
  /\ key_handle(Head(todo)) /\ todo' = Tail(todo)
  /\ UNCHANGED <<halted, held, obf, irr, masked, isr, ctrl, shift, alt, down, up>>

Leave ==
  /\ up /\ isr # Outside /\ todo = <<>> /\ ~Scanning
  /\ isr' = Outside
  /\ UNCHANGED <<consoleVars, held, obf, irr, masked, todo, ctrl, shift, alt, down, up>>

-----------------------------------------------------------------------------
(* What else interrupts and what is interrupted *)

(* The interrupt handler of sys/serial.rs *)
Serial ==
  /\ up /\ isr = Outside
  /\ \E c \in SerialChars : key_handle(c)
  /\ halted' = FALSE
  /\ UNCHANGED driverVars

Running == up /\ isr = Outside /\ ~halted

(* Mutant: the timer does not end a hlt. *)
SilentTick == UNCHANGED keyboardVars

(* The timer interrupt, of which only that it ends a hlt matters here. *)
Tick ==
  /\ up /\ isr = Outside /\ halted
  /\ halted' = FALSE
  /\ UNCHANGED <<stdin, echo, raw, pc, cells, mixed, driverVars>>

Reader == Running /\ Reads /\ UNCHANGED driverVars

Call == Running /\ Calls /\ UNCHANGED driverVars

(* set_keyboard, by a write to the layout's device: a new decoder, for which *)
(* no key is down.                                                           *)
set_keyboard ==
  /\ Running /\ pc = "idle"
  /\ down' = {}
  /\ UNCHANGED <<consoleVars, held, obf, irr, masked, isr, todo, ctrl, shift, alt, up>>

Handler == Enter \/ Scan \/ SendKey \/ Leave

KeyboardNext ==
  Press \/ Release \/ Unmask \/ Handler \/ Serial \/ Tick \/ Reader \/ Call \/ set_keyboard

(* The handler goes on, mem::init ends, the timer goes on ticking, and the   *)
(* reader gets its turn, though interrupts stop it again and again: a        *)
(* keyboard is slow.  Nobody has to press a key.                             *)
KeyboardFairness ==
  /\ WF_keyboardVars(Handler) /\ SF_keyboardVars(Reader)
  /\ WF_keyboardVars(Unmask) /\ WF_keyboardVars(Tick)

KeyboardSpec == KeyboardInit /\ [][KeyboardNext]_keyboardVars /\ KeyboardFairness

-----------------------------------------------------------------------------
Held(flag, keys) ==
  flag => \E k \in keys : k \in held \/ Contains(obf, Event(k, FALSE))

(* No modifier sticks: a flag that is set means that one of its keys is      *)
(* still down, or that its release is on its way to the handler.             *)
NoStuckModifier == Held(ctrl, CtrlKeys) /\ Held(shift, ShiftKeys) /\ Held(alt, AltKeys)

(* Every scancode is taken: none stays behind in the controller, which would *)
(* not interrupt again for it, and the machine would be deaf from then on.   *)
EveryKeyHeard == (obf # <<>>) ~> (obf = <<>> \/ ~up)

(* A reader of lines whose line is ended gets it, though the key may have    *)
(* come after it looked and before it halted: the timer wakes it.            *)
LineIsRead ==
  (pc \in {"line", "line_hlt"} /\ LineEnded) ~> (pc = "idle" \/ ~LineEnded \/ ~up)

(* Both: what is typed reaches the one who waits for it.                     *)
InputServed == EveryKeyHeard /\ LineIsRead
=============================================================================
