------------------------------- MODULE Writer -------------------------------
(* The text screen of sys/vga/writer.rs: a window of HEIGHT rows on a buffer *)
(* of SCROLL_HEIGHT rows, and where the next glyph goes.  What is written is *)
(* a piece: a sequence of glyphs, control characters and control sequences   *)
(* as the parser (the crate vte, external) hands them on.  Colours, fonts    *)
(* and the shape of the cursor are left out.                                 *)
EXTENDS Integers, Sequences, SequencesExt

CONSTANTS WIDTH, HEIGHT, SCROLL_HEIGHT

ASSUME ScreenAssumption ==
  /\ WIDTH \in Nat \ {0} /\ HEIGHT \in Nat \ {0}
  /\ SCROLL_HEIGHT \in Nat /\ SCROLL_HEIGHT >= HEIGHT

Smaller(a, b) == IF a < b THEN a ELSE b

(* The symbols of a piece, each a tuple that starts with its kind.           *)
Glyph(c) == <<"glyph", c>>
NL == <<"nl", 0>>
BS == <<"bs", 0>>
Csi(c, n) == <<c, n>>
Glyphs(s) == [i \in DOMAIN s |-> Glyph(s[i])]

BlankRow == [x \in 0..WIDTH - 1 |-> " "]

(* The writer after init: x, y is where the next glyph goes (x = WIDTH means *)
(* that the row is full), cx, cy the cursor as last set, `reader` the row of *)
(* the scroll buffer at the top of the screen, `bottom` the end of its text. *)
Fresh ==
  [x |-> 0, y |-> 0, cx |-> 0, cy |-> 0, reader |-> 0, bottom |-> HEIGHT,
   screen |-> [y \in 0..HEIGHT - 1 |-> BlankRow],
   scroll |-> [y \in 0..SCROLL_HEIGHT - 1 |-> BlankRow]]

is_scrolling(w) == w.reader # w.bottom - HEIGHT

(* The window is drawn afresh with row `top` at its top.                     *)
ScrolledTo(w, top) ==
  [w EXCEPT !.reader = top,
            !.screen = [y \in 0..HEIGHT - 1 |-> w.scroll[y + top]]]

scroll_up(w, n) == ScrolledTo(w, IF w.reader < n THEN 0 ELSE w.reader - n)
scroll_down(w, n) == ScrolledTo(w, Smaller(w.reader + n, w.bottom - HEIGHT))

(* Before a character the window goes back to the text's last screen.        *)
Current(w) == IF is_scrolling(w) THEN ScrolledTo(w, w.bottom - HEIGHT) ELSE w

(* A cell of the window, on the screen and in the buffer.                    *)
SetCell(w, x, y, c) ==
  [w EXCEPT !.screen[y][x] = c, !.scroll[y + w.reader][x] = c]

clear_row_after(w, x, y) ==
  LET Cut(row) == [i \in 0..WIDTH - 1 |-> IF i < x THEN row[i] ELSE " "]
  IN  [w EXCEPT !.screen[y] = Cut(@), !.scroll[y + w.reader] = Cut(@)]

(* Every row of the window that is now the first one.                        *)
clear_screen(w) ==
  [w EXCEPT !.reader = 0, !.bottom = HEIGHT, !.screen = [y \in 0..HEIGHT - 1 |-> BlankRow],
            !.scroll = [y \in DOMAIN @ |-> IF y < HEIGHT THEN BlankRow ELSE @[y]]]

Up(rows, last) == [y \in 0..last |-> IF y < last THEN rows[y + 1] ELSE rows[y]]

(* At the last row the screen moves up, and the window with it until the     *)
(* buffer is full: then the buffer moves.                                    *)
new_line(w) ==
  IF w.y < HEIGHT - 1 THEN [w EXCEPT !.x = 0, !.y = @ + 1]
  ELSE LET moved == [w EXCEPT !.x = 0, !.screen = Up(@, HEIGHT - 1)]
       IN  clear_row_after(
             IF w.bottom = SCROLL_HEIGHT
             THEN [moved EXCEPT !.scroll = Up(@, SCROLL_HEIGHT - 1)]
             ELSE [moved EXCEPT !.reader = @ + 1, !.bottom = @ + 1],
             0, HEIGHT - 1)

Drawn(w, c) ==
  LET v == IF w.x >= WIDTH THEN new_line(w) ELSE w
  IN  [SetCell(v, v.x, v.y, c) EXCEPT !.x = @ + 1]

(* On the screen alone.                                                      *)
RubbedOutOnScreen(w) ==
  IF w.x > 0 THEN [w EXCEPT !.screen[w.y][w.x - 1] = " ", !.x = @ - 1] ELSE w

RubbedOut(w) ==
  IF w.x > 0 THEN [SetCell(w, w.x - 1, w.y, " ") EXCEPT !.x = @ - 1] ELSE w

WriteAnywhere(w, b) ==
  CASE b[1] = "nl" -> new_line(w)
    [] b[1] = "cr" -> w
    [] b[1] = "bs" -> RubbedOut(w)
    [] b[1] = "glyph" -> Drawn(w, b[2])

(* Into whatever rows are being looked at.                                   *)
write_byte_there(w, b) == WriteAnywhere(w, b)

write_byte(w, b) == WriteAnywhere(Current(w), b)

Less(a, n) == IF a < n THEN 0 ELSE a - n
At(w, x, y) == [w EXCEPT !.x = x, !.y = y, !.cx = x, !.cy = y]

(* A control sequence with its last parameter n (its default is the caller's *)
(* to give).  They move the writer and the cursor alike, and do not bring a  *)
(* scrolled window back.                                                     *)
csi_dispatch(w, b) ==
  LET n == b[2]
  IN CASE b[1] = "A" -> [w EXCEPT !.y = Less(@, n), !.cy = Less(@, n)]
       [] b[1] = "B" -> [w EXCEPT !.y = Smaller(@ + n, HEIGHT - 1),
                                  !.cy = Smaller(@ + n, HEIGHT - 1)]
       [] b[1] = "C" -> [w EXCEPT !.x = Smaller(@ + n, WIDTH - 1),
                                  !.cx = Smaller(@ + n, WIDTH - 1)]
       [] b[1] = "D" -> [w EXCEPT !.x = Less(@, n), !.cx = Less(@, n)]
       [] b[1] = "G" -> IF n \in 1..WIDTH THEN At(w, n - 1, w.cy) ELSE w
       [] b[1] = "H" -> IF n[1] \in 1..HEIGHT /\ n[2] \in 1..WIDTH
                        THEN At(w, n[2] - 1, n[1] - 1) ELSE w
       [] b[1] = "J" -> IF n = 2 THEN At(clear_screen(w), 0, 0) ELSE w
       [] b[1] = "K" -> IF n \in {0, 2}
                        THEN At(clear_row_after(w, IF n = 0 THEN w.cx ELSE 0, w.cy),
                                w.cx, w.cy)
                        ELSE w
       [] b[1] = "~" -> CASE n = 5 -> scroll_up(w, HEIGHT)
                          [] n = 6 -> scroll_down(w, HEIGHT)
                          [] OTHER -> w
       [] OTHER -> w

advance(w, b) ==
  IF b[1] \in {"glyph", "nl", "cr", "bs"} THEN write_byte(w, b) ELSE csi_dispatch(w, b)

(* A piece of text; only at its end the cursor is set where the writer is.   *)
Settle(w) == [w EXCEPT !.cx = w.x, !.cy = w.y]
write_str(w, piece) == Settle(FoldLeft(advance, w, piece))

(* A cell drawn by the desktop: on the screen only, not in the buffer.       *)
set_cell(w, x, y, c) ==
  IF x < WIDTH /\ y < HEIGHT THEN [w EXCEPT !.screen[y][x] = c] ELSE w

-----------------------------------------------------------------------------
(* The rows of text on the screen the writer writes to, scrolled or not.     *)
TextRow(w, y) == w.scroll[w.bottom - HEIGHT + y]

(* What the screen shows is the window on the buffer: they are written cell  *)
(* by cell in two places of the code and moved in two ways.                  *)
IsWindow(w) == \A y \in 0..HEIGHT - 1 : w.screen[y] = w.scroll[w.reader + y]

Inside(w) ==
  /\ w.x \in 0..WIDTH /\ w.y \in 0..HEIGHT - 1
  /\ w.reader \in 0..w.bottom - HEIGHT /\ w.bottom \in HEIGHT..SCROLL_HEIGHT
=============================================================================
