------------------------------- MODULE Prompt -------------------------------
(* The line editor of api/prompt.rs over the text screen: the line, the      *)
(* cursor in it, the completions that Tab goes through and the history that  *)
(* the arrows go through, all drawn with relative movements of the cursor.   *)
(* A position is 1-based, 0 for None.  `eol` is left as new sets it.         *)
EXTENDS Writer, FiniteSets

CONSTANTS
  Keys,           \* the characters that can be typed
  PromptText,     \* the prompt, of printable ASCII
  Completer(_),   \* the entries a completer gives for a line
  HistoryLimit,
  Loaded,         \* the entries load() can find in a file of them
  MaxInputs       \* bound: the inputs asked for

ASSUME PromptAssumption == Len(PromptText) < WIDTH

VARIABLES
  p,              \* the prompt with its screen, a record
  reading,        \* within input()
  entered,        \* the line last returned, or <<>>
  inputs,         \* how many inputs were begun
  inStep          \* FALSE once something was done that the row cannot show

promptVars == <<p, reading, entered, inputs, inStep>>

offset == Len(PromptText)
max == WIDTH - offset

Printed(q, piece) == [q EXCEPT !.w = write_str(@, piece)]
Repeated(b, n) == [i \in 1..n |-> b]

(* What is being looked at becomes the line.                                 *)
update_history(q) ==
  IF q.hpos = 0 THEN q ELSE [q EXCEPT !.line = q.history[q.hpos], !.hpos = 0]

update_completion(q) ==
  IF q.cpos = 0 THEN q
  ELSE [q EXCEPT !.cursor = @ + Len(q.entries[q.cpos]),
                 !.line = @ \o q.entries[q.cpos],
                 !.cpos = 0, !.entries = <<>>]

Settled(q) == update_history(update_completion(q))

(* Tab and Back Tab differ in the entry that comes next.                     *)
Offer(q, pos) ==
  LET erase == IF q.cpos = 0 THEN 0 ELSE Len(q.entries[q.cpos])
  IN  [Printed(q, Repeated(BS, erase) \o Glyphs(q.entries[pos])) EXCEPT !.cpos = pos]

Cycle(q, Following(_)) ==
  IF q.cpos = 0
  THEN LET filled == [q EXCEPT !.entries = Completer(q.line)]
       IN  IF filled.entries = <<>> THEN filled ELSE Offer(filled, 1)
  ELSE IF Len(q.entries) = 1 THEN update_completion(q)
  ELSE Offer(q, Following(q))

handle_tab_key(q) ==
  Cycle(update_history(q), LAMBDA r : IF r.cpos < Len(r.entries) THEN r.cpos + 1 ELSE 1)
handle_backtab_key(q) ==
  Cycle(update_history(q), LAMBDA r : IF r.cpos = 1 THEN Len(r.entries) ELSE r.cpos - 1)

(* As if the cursor were always at the end of the line.                      *)
RecallUnblanked(q, blank, bs, shown, pos) ==
  [Printed(q, Repeated(BS, bs) \o Glyphs(shown))
     EXCEPT !.cursor = offset + Len(shown), !.hpos = pos]

(* An entry in the place of bs characters, the rest of which is blanked      *)
(* first; the line itself stays as it was.                                   *)
Recall(q, blank, bs, shown, pos) ==
  [Printed(q, Repeated(Glyph(" "), blank) \o Repeated(BS, bs) \o Glyphs(shown))
     EXCEPT !.cursor = offset + Len(shown), !.hpos = pos]

UpFrom(q) ==
  IF q.history = <<>> THEN q
  ELSE LET bs == Len(IF q.hpos = 0 THEN q.line ELSE q.history[q.hpos])
           i == IF q.hpos = 0 THEN Len(q.history)
                ELSE IF q.hpos = 1 THEN 1 ELSE q.hpos - 1
       IN  Recall(q, offset + bs - q.cursor, bs, q.history[i], i)

DownFrom(q) ==
  IF q.hpos = 0 THEN q
  ELSE LET newest == q.hpos = Len(q.history)
       IN  Recall(q, 0, Len(q.history[q.hpos]),
                  IF newest THEN q.line ELSE q.history[q.hpos + 1],
                  IF newest THEN 0 ELSE q.hpos + 1)

handle_up_key(q) == UpFrom(update_completion(q))
handle_down_key(q) == DownFrom(update_completion(q))

handle_page_up_key(q) == Printed(q, <<Csi("~", 5)>>)
handle_page_down_key(q) == Printed(q, <<Csi("~", 6)>>)

ForwardFrom(q) ==
  IF q.cursor < offset + Len(q.line)
  THEN [Printed(q, <<Csi("C", 1)>>) EXCEPT !.cursor = @ + 1] ELSE q
BackwardFrom(q) ==
  IF q.cursor > offset
  THEN [Printed(q, <<Csi("D", 1)>>) EXCEPT !.cursor = @ - 1] ELSE q
handle_forward_key(q) == ForwardFrom(Settled(q))
handle_backward_key(q) == BackwardFrom(Settled(q))

(* The line from its i-th character on is written again, and the cursor      *)
(* comes back over it.                                                       *)
Rest(line, i) == SubSeq(line, i, Len(line))
Redrawn(line, i) == Glyphs(Rest(line, i)) \o <<Glyph(" ")>>

DeleteFrom(q) ==
  LET i == q.cursor - offset + 1
      line == RemoveAt(q.line, i)
  IN  IF q.cursor < offset + Len(q.line)
      THEN [Printed(q, Redrawn(line, i) \o <<Csi("D", Len(Rest(line, i)) + 1)>>)
              EXCEPT !.line = line]
      ELSE q

BackspaceFrom(q) ==
  LET i == q.cursor - offset
      line == RemoveAt(q.line, i)
  IN  IF q.cursor > offset
      THEN [Printed(q, <<BS>> \o Redrawn(line, i) \o <<Csi("D", Len(Rest(line, i)) + 1)>>)
              EXCEPT !.line = line, !.cursor = @ - 1]
      ELSE q

PrintableFrom(q, c) ==
  LET i == q.cursor - offset + 1
      line == InsertAt(q.line, i, c)
  IN  IF Len(q.line) < max
      THEN [Printed(q, Redrawn(line, i) \o <<Csi("D", Len(Rest(line, i)))>>)
              EXCEPT !.line = line, !.cursor = @ + 1]
      ELSE q

handle_delete_key(q) == DeleteFrom(Settled(q))
handle_backspace_key(q) == BackspaceFrom(Settled(q))
handle_printable_key(q, c) == PrintableFrom(Settled(q), c)

History_add(entries, entry) ==
  LET kept == Append(SelectSeq(entries, LAMBDA e : e # entry), entry)
  IN  IF Len(kept) > HistoryLimit
      THEN SubSeq(kept, Len(kept) - HistoryLimit + 1, Len(kept)) ELSE kept

-----------------------------------------------------------------------------
PromptInit ==
  /\ p \in [w : {Fresh}, line : {<<>>}, cursor : {0}, entries : {<<>>}, cpos : {0},
            history : Loaded, hpos : {0}]
  /\ reading = FALSE /\ entered = <<>> /\ inputs = 0 /\ inStep = TRUE

(* What the row has to show: the prompt and the line, the entry of the       *)
(* history or the line with the completion that is being looked at.          *)
Shown(q) == PromptText \o Settled(q).line
Fits(q) == Len(Shown(q)) < WIDTH

Input ==
  /\ ~reading /\ inputs < MaxInputs
  /\ p' = [Printed(p, Glyphs(PromptText)) EXCEPT !.cursor = offset, !.line = <<>>]
  /\ reading' = TRUE /\ inputs' = inputs + 1
  /\ inStep' = (p.hpos = 0)
  /\ UNCHANGED entered

(* A key of the editor.  The row falls out of step when the line reaches its *)
(* end, and when a completion is put where the cursor is and not at the end  *)
(* of the line.                                                              *)
Pressed(q, tab) ==
  /\ reading
  /\ p' = q
  /\ inStep' = (inStep /\ Fits(q)
                 /\ (tab => Settled(p).cursor = offset + Len(Settled(p).line)))
  /\ UNCHANGED <<reading, entered, inputs>>

Type == \E c \in Keys : Pressed(handle_printable_key(p, c), FALSE)
Edit ==
  \/ Pressed(handle_backspace_key(p), FALSE)
  \/ Pressed(handle_delete_key(p), FALSE)
Complete ==
  \/ Pressed(handle_tab_key(p), TRUE)
  \/ Pressed(handle_backtab_key(p), TRUE)
Move ==
  \/ Pressed(handle_forward_key(p), FALSE)
  \/ Pressed(handle_backward_key(p), FALSE)
Browse ==
  \/ Pressed(handle_up_key(p), FALSE)
  \/ Pressed(handle_down_key(p), FALSE)
Page ==
  \/ Pressed(handle_page_up_key(p), FALSE)
  \/ Pressed(handle_page_down_key(p), FALSE)

Leave(q, line) ==
  /\ reading
  /\ p' = Printed(q, <<NL>>)
  /\ reading' = FALSE /\ entered' = line
  /\ UNCHANGED <<inputs, inStep>>

Enter == Leave(update_history(update_completion(p)), Settled(p).line)
EndOfText == Leave(update_completion(p), <<>>)      \* ^C, and ^D alike

(* What the program does with a line it got.                                 *)
AddToHistory ==
  /\ ~reading /\ entered # <<>>
  /\ p' = [p EXCEPT !.history = History_add(@, entered)]
  /\ entered' = <<>>
  /\ UNCHANGED <<reading, inputs, inStep>>

PromptNext ==
  \/ Input \/ Type \/ Edit \/ Complete \/ Move \/ Browse \/ Page
  \/ Enter \/ EndOfText \/ AddToHistory

-----------------------------------------------------------------------------
Padded(s) == [x \in 0..WIDTH - 1 |-> IF x < Len(s) THEN s[x + 1] ELSE " "]

(* Whatever was typed, deleted, completed and looked up, in whatever order   *)
(* and also while the screen is scrolled back, the row shows the prompt and  *)
(* the line that Enter would return, and nothing of what was there before;   *)
(* the next glyph goes where the cursor is in it; and the cursor is in the   *)
(* line, or the next key would index past it (prompt.rs 73-262).             *)
ScreenShowsLine ==
  reading =>
    /\ Settled(p).cursor \in offset..offset + Len(Settled(p).line)
    /\ p.hpos <= Len(p.history) /\ p.cpos <= Len(p.entries)
    /\ IsWindow(p.w) /\ Inside(p.w)
    /\ inStep => /\ TextRow(p.w, p.w.y) = Padded(Shown(p))
                 /\ p.w.x = Settled(p).cursor
=============================================================================
