------------------------------- MODULE Screen -------------------------------
(* The one screen under everything that is written to it, symbol by symbol   *)
(* and whatever the programs, and the desktop that draws cells of its own.   *)
EXTENDS Integers

CONSTANTS
  Cols, Rows, BufferRows,
  Symbols,        \* what is written
  MaxSymbols      \* bound: how much

VARIABLES
  tty,            \* the writer
  written,        \* how much was written
  drawn           \* a cell was drawn since the window was last drawn afresh

(* usize parameters (vte's are u16) for the sequences that move by them.     *)
ASSUME ScreenConstants ==
  /\ Cols \in Nat \ {0} /\ Rows \in Nat \ {0}
  /\ BufferRows \in Nat /\ BufferRows >= Rows
  /\ \A b \in Symbols : b[1] \in {"A", "B", "C", "D"} => b[2] \in Nat

W == INSTANCE Writer WITH WIDTH <- Cols, HEIGHT <- Rows, SCROLL_HEIGHT <- BufferRows

screenVars == <<tty, written, drawn>>

ScreenInit == tty = W!Fresh /\ written = 0 /\ drawn = FALSE

(* What has every row of the window drawn.                                   *)
Afresh == {W!Csi("J", 2), W!Csi("~", 5), W!Csi("~", 6)}

(* A symbol of a piece that write_str is at; `ends` when the piece is over.  *)
Put(b, ends) ==
  /\ written < MaxSymbols
  /\ tty' = IF ends THEN W!Settle(W!advance(tty, b)) ELSE W!advance(tty, b)
  /\ written' = written + 1
  /\ drawn' = (drawn /\ b \notin Afresh)

Draw ==
  /\ \E x \in 0..Cols : tty' = W!set_cell(tty, x, 0, "#") /\ drawn' = (drawn \/ x < Cols)
  /\ UNCHANGED written

ScreenNext == Draw \/ \E b \in Symbols, ends \in BOOLEAN : Put(b, ends)
ScreenSpec == ScreenInit /\ [][ScreenNext]_screenVars

-----------------------------------------------------------------------------
(* The screen shows the window on the buffer, whatever was written: cells    *)
(* are written to both by two lines of code each, rows are cleared in both,  *)
(* and both move, each in its own way (writer.rs 177-271, 375-402); cells    *)
(* the desktop draws are on the screen only.  The writer stays inside.       *)
ScreenIsWindow == W!Inside(tty) /\ (drawn \/ W!IsWindow(tty))

(* Text that has left the screen stays as it was, also when the screen is    *)
(* scrolled back to it while more is written: only a buffer that is full     *)
(* moves up by a row, and only clearing the screen forgets it (writer.rs     *)
(* 177-252).  Erasing in a line while scrolled back is the one exception.    *)
Erases == W!is_scrolling(tty) /\ \E n \in {0, 2} : tty'.scroll = W!csi_dispatch(tty, W!Csi("K", n)).scroll

ScrolledOffStays ==
  [][\/ \A r \in 0..tty.bottom - Rows - 1 : tty'.scroll[r] = tty.scroll[r]
     \/ /\ tty.bottom = BufferRows
        /\ \A r \in 1..BufferRows - 1 : tty'.scroll[r - 1] = tty.scroll[r]
     \/ tty'.bottom < tty.bottom
     \/ Erases]_screenVars
=============================================================================
