------------------------------ MODULE MCScreen ------------------------------
(* What the user sees and works with: the text screen under the prompt, the  *)
(* same screen under any sequence of pieces, the regular expressions, the    *)
(* desktop's loop, and the terminal's commands on files.  They share no      *)
(* state here, so each is walked on its own: `part` says which.              *)
(*                                                                           *)
(* Commands: two paths in the root and one in the first of them, files of up *)
(* to two pieces of three bytes in blocks of two, and a disk that fills up.  *)
(* Desktop: a queue of two keys, and a line of two characters.               *)
EXTENDS Prompt, Screen, Regex, Desktop, Shell

VARIABLE part

mcVars == <<part, promptVars, regexVars, screenVars, desktopVars, shellVars>>

MCPromptText == <<">">>
MCLoaded == {<<<<"a">>, <<"c", "b">>>>}
MCCompleter(line) ==
  CASE line = <<>> -> <<<<"b">>, <<"c", "b">>>>
    [] line = <<"a">> -> <<<<"c">>>>
    [] OTHER -> <<>>

MCSymbols ==
  {Glyph("a"), NL, BS, <<"cr", 0>>, Csi("A", 1), Csi("B", 1), Csi("C", 1), Csi("D", 2),
   Csi("H", <<1, 2>>), Csi("G", 2), Csi("K", 0), Csi("K", 2), Csi("J", 2),
   Csi("~", 5), Csi("~", 6)}

(* Expressions of up to two atoms and globs of up to three parts, each with  *)
(* what it means.                                                            *)
MCChars == {"a", "1", ".", "/"}
MCClasses ==
  {[name |-> <<"a">>, class |-> {"a"}], [name |-> <<".">>, class |-> MCChars],
   [name |-> <<"\\", "D">>, class |-> MCChars \ {"1"}]}
MCRepeats ==
  {<<"one", <<>>>>, <<"*", <<"*">>>>, <<"+", <<"+">>>>, <<"?", <<"?">>>>,
   <<"*", <<"*", "?">>>>, <<"+", <<"+", "?">>>>, <<"?", <<"?", "?">>>>}
MCAtoms ==
  {[name |-> c.name \o r[2], class |-> c.class, times |-> r[1], lazy |-> Len(r[2]) = 2] :
     c \in MCClasses, r \in MCRepeats}
WrittenOut(atoms) == FlattenSeq([i \in DOMAIN atoms |-> atoms[i].name])
MCGlobParts ==
  {[name |-> <<"a">>, class |-> {"a"}, times |-> "one", lazy |-> FALSE],
   [name |-> <<".">>, class |-> {"."}, times |-> "one", lazy |-> FALSE],
   [name |-> <<"*">>, class |-> MCChars, times |-> "*", lazy |-> FALSE],
   [name |-> <<"?">>, class |-> MCChars, times |-> "one", lazy |-> FALSE]}

MCPatterns ==
  {[re |-> (IF f THEN <<"^">> ELSE <<>>) \o WrittenOut(s) \o (IF l THEN <<"$">> ELSE <<>>),
    atoms |-> s, first |-> f, last |-> l] :
      s \in BoundedSeq(MCAtoms, 2), f \in BOOLEAN, l \in BOOLEAN}
  \cup
  {[re |-> from_glob(WrittenOut(s)), atoms |-> s, first |-> TRUE, last |-> TRUE] :
      s \in BoundedSeq(MCGlobParts, 3)}
MCTexts == BoundedSeq({"a", "1", "."}, 3) \cup BoundedSeq(MCChars, 2)


Paths == {"a", "b", "a/b"}
ParentOf == [name \in Paths |-> IF name = "a/b" THEN "a" ELSE "/"]
Contents == {<<"x">>, <<"y", "x", "y", "x">>}

CommandNames == {<<"p">>, <<"q", "p">>, <<"q", "q">>}
RunsLine(line) ==
  CASE line = <<"p">>      -> "Help"
    [] line = <<"q", "p">> -> "clear"
    [] line = <<"p", "p">> -> "halt"
    [] OTHER               -> "keep"

Pressable == {"Return", "Tab", "BS", "Up", "Down", "Left", "Right", "Escape", "F3", "F4"}

-----------------------------------------------------------------------------
OfPrompt(step) ==
  part = "prompt" /\ step /\ UNCHANGED <<part, regexVars, screenVars, desktopVars, shellVars>>
OfRegex(step) ==
  part = "regex" /\ step /\ UNCHANGED <<part, promptVars, screenVars, desktopVars, shellVars>>
OfScreen(step) ==
  part = "screen" /\ step /\ UNCHANGED <<part, promptVars, regexVars, desktopVars, shellVars>>
OfDesktop(step) ==
  part = "desktop" /\ step /\ UNCHANGED <<part, promptVars, regexVars, screenVars, shellVars>>
OfShell(step) ==
  part = "shell" /\ step /\ UNCHANGED <<part, promptVars, regexVars, screenVars, desktopVars>>

MCInit ==
  /\ PromptInit /\ ScreenInit /\ DesktopInit /\ ShellInit
  /\ asked = FALSE /\ found = <<>> /\ last = <<>>
  /\ \/ part = "regex" /\ re \in Patterns /\ text \in Texts
     \/ part \in {"prompt", "screen", "desktop", "shell"} /\ re = <<>> /\ text = <<>>

MCNext ==
  \/ OfPrompt(PromptNext) \/ OfRegex(Find) \/ OfScreen(ScreenNext)
  \/ OfDesktop(DesktopNext) \/ OfShell(ShellNext)

MCSpec == MCInit /\ [][MCNext]_mcVars
=============================================================================
