------------------------------ MODULE Desktop -------------------------------
(* The desktop's loop (usr/desktop.rs), the queue the keyboard interrupt     *)
(* fills for it (sys/keyboard.rs), and the applications it hands keys to:    *)
(* of these the terminal keeps a line, its cursor and its history            *)
(* (usr/apps/terminal.rs).  A position in the history is 1-based, 0 is None. *)
(* What the commands do to files is in Shell.                                *)
EXTENDS Integers, Sequences, SequencesExt

CONSTANTS
  Printables,          \* printable characters
  RawKeys,        \* the keys with no character that can be pressed
  COMMANDS,       \* names of commands, as sequences of characters
  Runs(_),        \* what a line runs: "keep", "clear", "halt", or an application
  QueueMax,       \* 256
  MaxInput,       \* 78
  MaxLog,         \* 256
  RedrawTicks,    \* 50
  Wrap,           \* bound: the ticks wrap there
  MaxHistory, MaxKeys   \* bounds: lines entered, keys pressed

ASSUME DesktopAssumption ==
  /\ QueueMax \in Nat \ {0} /\ MaxInput \in Nat \ {0} /\ MaxLog \in Nat \ {0}
  /\ \A c \in COMMANDS : Len(c) <= MaxInput

VARIABLES
  queue,          \* DECODED_KEYS
  pressed,        \* how many keys were pressed, and dropped from the queue
  dropped,
  app,            \* the open application, or NoApp
  dock_index,
  term,           \* the terminal: [input, cursor, history, pos, log]
  stage,          \* of the loop: "popping", "drawing", "halted", or "off"
  redraw,
  pit_ticks, last_draw,
  display,          \* what the last draw showed, and how many keys were handled
  handled, woken  \* keys handled; keys pressed when the loop last woke up

desktopVars == <<queue, pressed, dropped, app, dock_index, term, stage, redraw,
                 pit_ticks, last_draw, display, handled, woken>>

NoApp == "none"
APPS == <<"Files", "Terminal", "SysInfo", "Help">>
ShutdownIndex == Len(APPS)
DockLen == Len(APPS) + 1
index(kind) == (CHOOSE i \in DOMAIN APPS : APPS[i] = kind) - 1

Visible == [app |-> app, dock |-> dock_index, input |-> term.input, log |-> term.log]

DesktopInit ==
  /\ queue = <<>> /\ pressed = 0 /\ dropped = 0
  /\ app = "Terminal" /\ dock_index = index("Terminal")
  /\ term = [input |-> <<>>, cursor |-> 0, history |-> <<>>, pos |-> 0, log |-> 0]
  /\ stage = "popping" /\ redraw = FALSE
  /\ pit_ticks = 0 /\ last_draw = 0
  /\ display = [Visible EXCEPT !.app = NoApp] /\ handled = 0 /\ woken = 0

-----------------------------------------------------------------------------
(* The terminal.  Of the log there is how many lines it has.                 *)
push_log(t, n) == [t EXCEPT !.log = IF @ + n > MaxLog THEN MaxLog ELSE @ + n]

set_input(t, s) == [t EXCEPT !.input = s, !.cursor = Len(s)]
cancel_input(t) == [t EXCEPT !.input = <<>>, !.cursor = 0]

insert_char(t, c) ==
  IF Len(t.input) >= MaxInput THEN t
  ELSE [t EXCEPT !.input = InsertAt(@, t.cursor + 1, c), !.cursor = @ + 1]

backspace(t) ==
  IF t.cursor = 0 THEN t ELSE [t EXCEPT !.input = RemoveAt(@, t.cursor), !.cursor = @ - 1]

delete(t) ==
  IF t.cursor >= Len(t.input) THEN t ELSE [t EXCEPT !.input = RemoveAt(@, t.cursor + 1)]

complete(t) ==
  LET matches == {c \in COMMANDS : IsPrefix(t.input, c)}
  IN  IF t.input = <<>> \/ matches = {} THEN t
      ELSE IF \E c \in matches : matches = {c}
      THEN set_input(t, CHOOSE c \in matches : TRUE)
      ELSE push_log(t, 1)

history_prev(t) ==
  IF t.history = <<>> THEN t
  ELSE LET pos == IF t.pos > 1 THEN t.pos - 1 ELSE Len(t.history)
       IN  set_input([t EXCEPT !.pos = pos], t.history[pos])

history_next(t) ==
  IF t.pos > 0 /\ t.pos < Len(t.history)
  THEN set_input([t EXCEPT !.pos = @ + 1], t.history[t.pos + 1])
  ELSE cancel_input([t EXCEPT !.pos = 0])

(* Enter: the line goes to the history and is run; a command but `clear`     *)
(* answers with one line, here.                                              *)
submit(t) ==
  IF t.input = <<>> THEN t
  ELSE LET kept == cancel_input([t EXCEPT !.history = Append(@, t.input), !.pos = 0])
       IN  IF Runs(t.input) = "clear" THEN [kept EXCEPT !.log = 0] ELSE push_log(kept, 2)

EditLine(t, key) ==
  CASE key \in Printables   -> insert_char(t, key)
    [] key = "Return"  -> submit(t)
    [] key = "Tab"     -> complete(t)
    [] key = "BS"      -> backspace(t)
    [] key = "Delete"  -> delete(t)
    [] key = "^C"      -> cancel_input(t)
    [] key = "^L"      -> [t EXCEPT !.log = 0]
    [] key = "Up"      -> history_prev(t)
    [] key = "Down"    -> history_next(t)
    [] key = "Left"    -> [t EXCEPT !.cursor = IF @ = 0 THEN 0 ELSE @ - 1]
    [] key = "Right"   -> [t EXCEPT !.cursor = IF @ = Len(t.input) THEN @ ELSE @ + 1]
    [] key = "Home"    -> [t EXCEPT !.cursor = 0]
    [] key = "End"     -> [t EXCEPT !.cursor = Len(t.input)]
    [] OTHER           -> t

-----------------------------------------------------------------------------
(* An application comes to the front, and the dock goes with it.             *)
BringUp(kind) == app' = kind /\ dock_index' = index(kind)

Switching == [F1 |-> "Help", F2 |-> "SysInfo", F3 |-> "Terminal", F4 |-> "Files"]

(* Desktop::send_to_app: the help only scrolls, and the system information   *)
(* answers to nothing.                                                       *)
send_to_app(key) ==
  /\ term' = IF app = "Terminal" THEN EditLine(term, key) ELSE term
  /\ LET runs == IF app = "Terminal" /\ key = "Return" /\ term.input # <<>>
                 THEN Runs(term.input) ELSE "keep"
     IN  CASE runs \in Range(APPS)         -> BringUp(runs) /\ UNCHANGED stage
           [] runs = "halt"                -> stage' = "off" /\ UNCHANGED <<app, dock_index>>
           [] app = "Files" /\ key = "q"   -> app' = NoApp /\ UNCHANGED <<dock_index, stage>>
           [] OTHER                        -> UNCHANGED <<app, dock_index, stage>>

(* Mutant: the arrows move the dock whoever has the keys.                    *)
WalkAlways(key) ==
  CASE key = "Right" -> (dock_index + 1) % DockLen
    [] key = "Left"  -> (dock_index + DockLen - 1) % DockLen
    [] OTHER         -> dock_index

Walk(key) ==
  CASE app = NoApp /\ key = "Right" -> (dock_index + 1) % DockLen
    [] app = NoApp /\ key = "Left"  -> (dock_index + DockLen - 1) % DockLen
    [] OTHER                        -> dock_index

(* Desktop::handle_key and route_key, for a key that names an application,   *)
(* closes the one that is open, is for the dock, or is the application's.    *)
handle_key(key) ==
  \/ /\ key \in DOMAIN Switching
     /\ BringUp(Switching[key]) /\ UNCHANGED <<term, stage>>
  \/ /\ app # NoApp /\ key \in {"Escape", "F5"}
     /\ app' = NoApp /\ UNCHANGED <<dock_index, term, stage>>
  \/ /\ app = NoApp /\ key = "Return" /\ UNCHANGED term
     /\ \/ dock_index = ShutdownIndex /\ stage' = "off" /\ UNCHANGED <<app, dock_index>>
        \/ dock_index # ShutdownIndex /\ BringUp(APPS[dock_index + 1]) /\ UNCHANGED stage
  \/ /\ key \notin DOMAIN Switching /\ app = NoApp /\ key # "Return"
     /\ dock_index' = Walk(key) /\ UNCHANGED <<app, term, stage>>
  \/ /\ key \notin DOMAIN Switching \cup {"Escape", "F5"} /\ app # NoApp
     /\ IF Walk(key) # dock_index
        THEN dock_index' = Walk(key) /\ UNCHANGED <<app, term, stage>>
        ELSE send_to_app(key)

-----------------------------------------------------------------------------
(* push_decoded_key, in the interrupt: the oldest goes when there is no      *)
(* room.  An interrupt ends a halt.                                          *)
Awake == IF stage = "halted" THEN "popping" ELSE stage

PushKey(key) ==
  /\ pressed < MaxKeys /\ stage # "off"
  /\ LET full == Len(queue) >= QueueMax
     IN  /\ queue' = Append(IF full THEN Tail(queue) ELSE queue, key)
         /\ dropped' = IF full THEN dropped + 1 ELSE dropped
  /\ pressed' = pressed + 1
  /\ stage' = Awake /\ woken' = IF stage = "halted" THEN pressed + 1 ELSE woken
  /\ UNCHANGED <<app, dock_index, term, redraw, pit_ticks, last_draw, display, handled>>

PitTick ==
  /\ stage # "off" /\ pit_ticks' = (pit_ticks + 1) % Wrap
  /\ stage' = Awake /\ woken' = IF stage = "halted" THEN pressed ELSE woken
  /\ UNCHANGED <<queue, pressed, dropped, app, dock_index, term, redraw, last_draw,
                 display, handled>>

(* The loop of Desktop::run: all the keys there are, then a draw if there    *)
(* was one or if it is time, then the halt.                                  *)
Pop ==
  /\ stage = "popping" /\ queue # <<>>
  /\ Head(queue) = "Return" /\ app = "Terminal" => Len(term.history) < MaxHistory
  /\ handle_key(Head(queue))
  /\ queue' = Tail(queue) /\ redraw' = TRUE /\ handled' = handled + 1
  /\ UNCHANGED <<pressed, dropped, pit_ticks, last_draw, display, woken>>

(* Mutant: as far as the ticks say.                                          *)
DueByTicks == (pit_ticks - last_draw + Wrap) % Wrap >= RedrawTicks
Due == redraw \/ (pit_ticks - last_draw + Wrap) % Wrap >= RedrawTicks

(* The queue is empty, and what comes from now on waits for the next turn,   *)
(* that is, for the interrupt that ends the halt.                            *)
NoMore ==
  /\ stage = "popping" /\ queue = <<>>
  /\ stage' = "drawing"
  /\ UNCHANGED <<queue, pressed, dropped, app, dock_index, term, redraw, pit_ticks, last_draw,
                 display, handled, woken>>

DrawAndHalt ==
  /\ stage = "drawing"
  /\ IF Due THEN display' = Visible /\ last_draw' = pit_ticks ELSE UNCHANGED <<display, last_draw>>
  /\ redraw' = FALSE /\ stage' = "halted"
  /\ UNCHANGED <<queue, pressed, dropped, app, dock_index, term, pit_ticks, handled, woken>>

DesktopNext ==
  \/ \E key \in Printables \cup RawKeys : PushKey(key)
  \/ PitTick \/ Pop \/ NoMore \/ DrawAndHalt

DesktopSpec == DesktopInit /\ [][DesktopNext]_desktopVars

-----------------------------------------------------------------------------
(* The dock marks the application that is open, however it came to the       *)
(* front: from the dock, by a function key, by a command of the terminal;    *)
(* and no key of the application moves it (desktop.rs 137-250).  With none   *)
(* open it marks an entry there is.                                          *)
DockFollows ==
  /\ dock_index \in 0..DockLen - 1
  /\ app # NoApp => dock_index = index(app)

(* When the processor halts, every key pressed before the loop last woke up  *)
(* was handled, but for those the full queue dropped, and the screen shows   *)
(* what they did: a key that comes between the last look at the queue and    *)
(* the halt waits for the next interrupt, and no longer (desktop.rs 263-281).*)
SeenWhenHalted ==
  stage = "halted" =>
    /\ handled + dropped >= woken
    /\ handled > 0 => display = Visible
=============================================================================
