------------------------------- MODULE Regex --------------------------------
(* The regular expressions of api/regex.rs.  An expression and a text are    *)
(* sequences of characters; the scan keeps its place with slices, and `end`  *)
(* is the argument the code passes down by reference.                        *)
EXTENDS Integers, Sequences, SequencesExt, FiniteSetsExt

CONSTANTS
  Chars,          \* the characters of texts
  Numerics, Spaces, Letters,
  Patterns,       \* what is looked for: [re |-> .., glob |-> .., atoms |-> ..]
  Texts

VARIABLES
  re, text,
  found,          \* what find answered: <<>>, or <<start, end>>
  last,           \* what rfind answered
  asked           \* whether they were called

regexVars == <<re, text, found, last, asked>>

LOCAL From(s, k) == SubSeq(s, k + 1, Len(s))       \* the slice s[k..]

(* A MetaChar is the set of the characters it contains.                      *)
MetaChar(c) == IF c = "." THEN Chars ELSE {c}

from_escaped(c) ==
  CASE c = "d" -> Numerics            [] c = "D" -> Chars \ Numerics
    [] c = "s" -> Spaces              [] c = "S" -> Chars \ Spaces
    [] c = "w" -> Numerics \cup Letters
    [] c = "W" -> Chars \ (Numerics \cup Letters)
    [] OTHER -> {c}

(* `*`, `?` and `.` of a glob become `.*`, `.` and an escaped `.`.           *)
GlobPart(c) ==
  CASE c = "\\" -> <<"\\", "\\">> [] c = "." -> <<"\\", ".">>
    [] c = "*" -> <<".", "*">> [] c = "?" -> <<".">> [] OTHER -> <<c>>

from_glob(glob) ==
  <<"^">> \o FlattenSeq([i \in DOMAIN glob |-> GlobPart(glob[i])]) \o <<"$">>

(* `+` as `*`.                                                               *)
TimesInAny(quantifier) == IF quantifier = "?" THEN 0..1 ELSE 0..Len(text)

TimesIn(quantifier) ==
  CASE quantifier = "*" -> 0..Len(text)
    [] quantifier = "+" -> 1..Len(text)
    [] quantifier = "?" -> 0..1

RECURSIVE match_here(_, _, _), match_char(_, _, _, _, _, _)

(* The numbers of repetitions left to try are `tries`, in order; an attempt  *)
(* that fails leaves its mark on `end`.                                      *)
match_char(tries, rest, t, range, end, i) ==
  IF i > Len(tries) THEN <<FALSE, end>>
  ELSE LET here == match_here(rest, From(t, tries[i]), end)
       IN  IF here[1] /\ tries[i] \in range THEN <<TRUE, here[2] + tries[i]>>
           ELSE match_char(tries, rest, t, range, here[2], i + 1)

(* How many characters at the start of t the class contains.                 *)
Reach(mc, t) ==
  Max({n \in 0..Len(t) : \A k \in 1..n : t[k] \in mc})

match_here(r, t, end) ==
  IF r = <<>> THEN <<TRUE, end>>
  ELSE IF r[1] = "$" THEN <<t = <<>>, end>>
  ELSE
    LET i == IF Len(r) > 1 /\ r[1] = "\\" THEN 1 ELSE 0
        mc == IF i = 1 THEN from_escaped(r[2]) ELSE MetaChar(r[1])
        lazy == Len(r) > i + 2 /\ r[i + 3] = "?"
        n == Reach(mc, t)
        tries == [k \in 1..n + 1 |-> IF lazy THEN k - 1 ELSE n + 1 - k]
    IN  IF Len(r) > i + 1 /\ r[i + 2] \in {"*", "+", "?"}
        THEN match_char(tries, From(r, IF lazy THEN i + 3 ELSE i + 2), t,
                        TimesIn(r[i + 2]), end, 1)
        ELSE IF t # <<>> /\ t[1] \in mc
        THEN match_here(From(r, i + 1), Tail(t), end + 1)
        ELSE <<FALSE, end>>

Anchored(r, t) ==
  LET here == match_here(Tail(r), t, 1) IN IF here[1] THEN <<0, here[2]>> ELSE <<>>

Hits(r, t) == {i \in 0..Len(t) : match_here(r, From(t, i), i)[1]}
EndAt(r, t, i) == match_here(r, From(t, i), i)[2]

find(r, t) ==
  IF r = <<>> THEN <<0, 0>>
  ELSE IF r[1] = "^" THEN Anchored(r, t)
  ELSE IF Hits(r, t) = {} THEN <<>>
  ELSE <<Min(Hits(r, t)), EndAt(r, t, Min(Hits(r, t)))>>

(* Of the matches in their order, the last one that begins a new stretch:    *)
(* one that begins within the match before it is not taken, but moves the    *)
(* end that the next one is compared with.                                   *)
rfind(r, t) ==
  IF r = <<>> THEN <<0, 0>>
  ELSE IF r[1] = "^" THEN Anchored(r, t)
  ELSE LET hits == SetToSortSeq(Hits(r, t), <)
           Taken == {k \in DOMAIN hits :
                       k = 1 \/ hits[k] >= EndAt(r, t, hits[k - 1])}
       IN  IF Taken = {} THEN <<>>
           ELSE <<hits[Max(Taken)], EndAt(r, t, hits[Max(Taken)])>>

RegexInit ==
  /\ re \in Patterns /\ text \in Texts
  /\ found = <<>> /\ last = <<>> /\ asked = FALSE

Find ==
  /\ ~asked
  /\ asked' = TRUE
  /\ found' = find(re.re, text)
  /\ last' = rfind(re.re, text)
  /\ UNCHANGED <<re, text>>

-----------------------------------------------------------------------------
(* What the expressions mean, said without the matcher: an atom takes a text *)
(* of a number of characters it allows, all of its class; a sequence of      *)
(* atoms takes a text from i to those places its last atom can reach.        *)
Times(atom, n) ==
  CASE atom.times = "one" -> n = 1 [] atom.times = "*" -> TRUE
    [] atom.times = "+" -> n >= 1  [] atom.times = "?" -> n <= 1

AtomFrom(atom, t, i) ==
  {j \in i..Len(t) : Times(atom, j - i) /\ \A k \in i + 1..j : t[k] \in atom.class}

Ends(atoms, t, i) ==
  FoldLeft(LAMBDA at, atom : UNION {AtomFrom(atom, t, j) : j \in at}, {i}, atoms)

Starts(p, t) == IF p.first THEN {0} ELSE 0..Len(t)

(* Where a text that the expression stands for begins.                       *)
Beginnings(p, t) ==
  {i \in Starts(p, t) : \E j \in Ends(p.atoms, t, i) : p.last => j = Len(t)}

(* Only the last atom is repeated, and nothing is anchored to the beginning. *)
Simple(p) ==
  /\ p.atoms # <<>> /\ ~p.first
  /\ \A k \in 1 .. Len(p.atoms) - 1 : p.atoms[k].times = "one"

(* How far it then goes: as far as it can, or, lazy, no farther than it has  *)
(* to.                                                                       *)
MeantEnd(p, t, i) ==
  CASE p.last -> Len(t)
    [] ~p.last /\ Last(p.atoms).lazy -> Min(Ends(p.atoms, t, i))
    [] OTHER -> Max(Ends(p.atoms, t, i))

(* It begins where no text found from an earlier place goes on.              *)
StandsAlone(p, t, i) ==
  \A j \in Beginnings(p, t) : j < i => MeantEnd(p, t, j) <= i

(* A text is found by an expression, or by a pattern of file names, exactly  *)
(* when it has a part the expression stands for, however the repetitions in  *)
(* it have to be shared out; find answers the first place where one begins,  *)
(* rfind one where one begins as well.  Where the last atom alone is         *)
(* repeated, both answer its end, greedy or lazy, and rfind the last place   *)
(* that is in no text found from before it (regex.rs 131-296).               *)
FoundAsMeant ==
  asked =>
    LET begins == Beginnings(re, text)
    IN IF begins = {} THEN found = <<>> /\ last = <<>>
       ELSE /\ found # <<>> /\ found[1] = Min(begins)
            /\ last # <<>> /\ last[1] \in begins
            /\ Simple(re) =>
                 /\ found[2] = MeantEnd(re, text, found[1])
                 /\ last[1] = Max({i \in begins : StandsAlone(re, text, i)})
                 /\ last[2] = MeantEnd(re, text, last[1])
=============================================================================
