--------------------------- MODULE MachineProofs ----------------------------
(***************************************************************************)
(* The machine's input, its clock, desktop and text screen, for any keys,  *)
(* input and controller, any time, and any text: no modifier sticks, the   *)
(* input always has room for the end of its line and is what the screen    *)
(* shows, the time that is read is one there was, the desktop's dock and   *)
(* screen follow its applications and its keys, the calendar counts every  *)
(* day once, and the text screen is a window on text that stays.           *)
(***************************************************************************)
EXTENDS Keyboard, Clock, Desktop, Calendar, Screen, TLAPS, FiniteSetTheorems

(***************************************************************************)
(* No modifier sticks: a flag is the last event that the handler took of   *)
(* its keys, so that the argument has to go back to the events which are   *)
(* still in the controller.                                                *)
(***************************************************************************)

Events == [key : Keys, down : BOOLEAN]

(* The release of k is in the controller, at place n or behind it. *)
Releases(k, n) == \E j \in n .. Len(obf) : obf[j] = Event(k, FALSE)

KeysTypeOK ==
  /\ obf \in Seq(Events)
  /\ held \subseteq Modifiers
  /\ ctrl \in BOOLEAN /\ shift \in BOOLEAN /\ alt \in BOOLEAN

(* A press that waits in the controller is of a key that is still held, or   *)
(* its release waits behind it.                                              *)
PressesHeld ==
  \A i \in 1 .. Len(obf) :
     obf[i].down /\ obf[i].key \in Modifiers =>
        obf[i].key \in held \/ Releases(obf[i].key, i + 1)

Follows(flag, keys) == flag => \E k \in keys : k \in held \/ Releases(k, 1)

FlagsFollow == Follows(ctrl, CtrlKeys) /\ Follows(shift, ShiftKeys) /\ Follows(alt, AltKeys)

KeysInv == KeysTypeOK /\ PressesHeld /\ FlagsFollow

-----------------------------------------------------------------------------
(* The invariant holds before anything is pressed.                           *)
LEMMA KeysInit == KeyboardInit => KeysInv
<1> SUFFICES ASSUME KeyboardInit
             PROVE  KeysInv
  OBVIOUS
<1>1. obf = <<>> /\ held = {} /\ ctrl = FALSE /\ shift = FALSE /\ alt = FALSE
  BY DEF KeyboardInit
<1>2. obf \in Seq(Events) /\ Len(obf) = 0
  BY <1>1
<1>3. KeysTypeOK
  BY <1>1, <1>2 DEF KeysTypeOK
<1>4. PressesHeld
  BY <1>2 DEF PressesHeld
<1>5. FlagsFollow
  BY <1>1 DEF FlagsFollow, Follows
<1> QED
  BY <1>3, <1>4, <1>5 DEF KeysInv

(* An event that comes in keeps it: of a press the key is held, of a release *)
(* the release is the last event of all.                                     *)
LEMMA SentKeeps ==
  ASSUME KeysInv, NEW k \in Keys, NEW d \in BOOLEAN, Sent(k, d),
         IF d THEN held' = held \cup (Modifiers \cap {k}) ELSE held' = held \ {k}
  PROVE  KeysInv'
<1> USE DEF KeysInv, Event
<1>1. obf' = Append(obf, Event(k, d)) /\ obf \in Seq(Events) /\ Event(k, d) \in Events
  BY DEF Sent, KeysTypeOK, Events
<1>2. /\ obf' \in Seq(Events) /\ Len(obf') = Len(obf) + 1 /\ Len(obf) \in Nat
      /\ \A i \in 1 .. Len(obf) : obf'[i] = obf[i]
      /\ obf'[Len(obf) + 1] = Event(k, d)
  BY <1>1
<1>3. KeysTypeOK'
  BY <1>2 DEF KeysTypeOK, Sent
<1>4. ASSUME NEW q \in Modifiers, NEW n \in 1 .. Len(obf) + 1, q \in held \/ Releases(q, n)
      PROVE  (q \in held \/ Releases(q, n))'
  <2>1. CASE Releases(q, n)
    BY <1>2, <2>1 DEF Releases
  <2>2. CASE q \in held /\ q # k
    BY <2>2
  <2>3. CASE q \in held /\ q = k /\ d
    BY <2>3
  <2>4. CASE q \in held /\ q = k /\ ~d
    <3>1. d = FALSE
      BY <2>4
    <3>2. obf'[Len(obf) + 1] = Event(q, FALSE)
      BY <1>2, <2>4, <3>1
    <3>3. Len(obf) + 1 \in n .. Len(obf')
      BY <1>2
    <3> QED
      BY <3>2, <3>3 DEF Releases
  <2> QED
    BY <1>4, <2>1, <2>2, <2>3, <2>4
<1>5. PressesHeld'
  <2> SUFFICES ASSUME NEW i \in 1 .. Len(obf) + 1, obf'[i].down, obf'[i].key \in Modifiers
               PROVE  (obf[i].key \in held \/ Releases(obf[i].key, i + 1))'
    BY <1>2 DEF PressesHeld
  <2>1. CASE i \in 1 .. Len(obf)
    <3>1. obf[i].key \in held \/ Releases(obf[i].key, i + 1)
      BY <1>2, <2>1 DEF PressesHeld
    <3>2. obf'[i].key = obf[i].key
      BY <1>2, <2>1
    <3> QED
      BY <1>4, <2>1, <3>1, <3>2
  <2>2. CASE i = Len(obf) + 1
    BY <1>2, <2>2
  <2> QED
    BY <1>2, <2>1, <2>2
<1>6. FlagsFollow'
  <2>1. ASSUME NEW keys, keys \subseteq Modifiers, NEW flag \in BOOLEAN, Follows(flag, keys)
        PROVE  flag => \E q \in keys : (q \in held \/ Releases(q, 1))'
    BY <1>2, <1>4, <2>1 DEF Follows
  <2>2. UNCHANGED <<ctrl, shift, alt>>
    BY DEF Sent
  <2> QED
    BY <2>1, <2>2 DEF FlagsFollow, Follows, Modifiers, KeysTypeOK
<1> QED
  BY <1>3, <1>5, <1>6

(* An event that the handler takes keeps it: a press of one of the flag's    *)
(* keys sets the flag and is held or released later, and its release clears  *)
(* the flag.                                                                 *)
LEMMA ScanKeeps == KeysInv /\ Scan => KeysInv'
<1> SUFFICES ASSUME KeysInv, Scan
             PROVE  KeysInv'
  OBVIOUS
<1> USE DEF KeysInv, Event
<1> DEFINE e == Head(obf)
<1>1. /\ obf \in Seq(Events) /\ obf # <<>> /\ obf' = Tail(obf) /\ held' = held
      /\ ctrl' = Flag(ctrl, CtrlKeys, e)
      /\ shift' = Flag(shift, ShiftKeys, e)
      /\ alt' = Flag(alt, AltKeys, e)
  BY DEF Scan, Scanning, KeysTypeOK
<1>2. /\ obf' \in Seq(Events) /\ Len(obf) \in Nat /\ Len(obf) >= 1
      /\ Len(obf') = Len(obf) - 1 /\ e = obf[1] /\ e \in Events
      /\ \A i \in 1 .. Len(obf) - 1 : obf'[i] = obf[i + 1]
  BY <1>1
<1>3. KeysTypeOK'
  BY <1>1, <1>2 DEF KeysTypeOK, Flag, Events
<1>4. ASSUME NEW q, NEW n \in 1 .. Len(obf), Releases(q, n + 1)
      PROVE  Releases(q, n)'
  <2>1. PICK j \in n + 1 .. Len(obf) : obf[j] = Event(q, FALSE)
    BY <1>4 DEF Releases
  <2>2. j - 1 \in n .. Len(obf') /\ obf'[j - 1] = obf[j]
    BY <1>2, <2>1
  <2> QED
    BY <2>1, <2>2 DEF Releases
<1>5. PressesHeld'
  <2> SUFFICES ASSUME NEW i \in 1 .. Len(obf) - 1, obf'[i].down, obf'[i].key \in Modifiers
               PROVE  (obf[i].key \in held \/ Releases(obf[i].key, i + 1))'
    BY <1>2 DEF PressesHeld
  <2>1. i + 1 \in 1 .. Len(obf) /\ obf'[i] = obf[i + 1]
    BY <1>2
  <2>2. obf[i + 1].key \in held \/ Releases(obf[i + 1].key, i + 2)
    BY <2>1 DEF PressesHeld
  <2> QED
    BY <1>1, <1>4, <2>1, <2>2
<1>6. ASSUME NEW flag \in BOOLEAN, NEW keys, keys \subseteq Modifiers, Follows(flag, keys),
             Flag(flag, keys, e)
      PROVE  \E q \in keys : (q \in held \/ Releases(q, 1))'
  <2>1. CASE e.key \in keys
    <3>1. e.down /\ (e.key \in held \/ Releases(e.key, 2))
      BY <1>2, <1>6, <2>1 DEF Flag, PressesHeld
    <3> QED
      BY <1>1, <1>2, <1>4, <2>1, <3>1
  <2>2. CASE e.key \notin keys
    <3>1. PICK q \in keys : q \in held \/ Releases(q, 1)
      BY <1>6, <2>2 DEF Flag, Follows
    <3>2. Releases(q, 1) => Releases(q, 2)
      BY <1>2, <2>2 DEF Releases
    <3> QED
      BY <1>1, <1>2, <1>4, <3>1, <3>2
  <2> QED
    BY <2>1, <2>2
<1>7. FlagsFollow'
  BY <1>1, <1>6 DEF FlagsFollow, Follows, Modifiers, KeysTypeOK
<1> QED
  BY <1>3, <1>5, <1>7

(* Nothing else touches the controller's events or the flags.                *)
LEMMA KeysNext == KeysInv /\ [KeyboardNext]_keyboardVars => KeysInv'
<1> SUFFICES ASSUME KeysInv, [KeyboardNext]_keyboardVars
             PROVE  KeysInv'
  OBVIOUS
<1>1. CASE Press
  <2>1. PICK k \in Keys \ held : held' = held \cup (Modifiers \cap {k}) /\ Sent(k, TRUE)
    BY <1>1 DEF Press
  <2> QED
    BY <2>1, SentKeeps
<1>2. CASE Release
  <2>1. PICK k \in held : held' = held \ {k} /\ Sent(k, FALSE)
    BY <1>2 DEF Release
  <2>2. k \in Keys
    BY <2>1, KeyboardAssumption DEF KeysInv, KeysTypeOK
  <2> QED
    BY <2>1, <2>2, SentKeeps
<1>3. CASE Scan
  BY <1>3, ScanKeeps
<1>4. CASE UNCHANGED <<obf, held, ctrl, shift, alt>>
  BY <1>4 DEF KeysInv, KeysTypeOK, PressesHeld, FlagsFollow, Follows, Releases
<1>5. ASSUME Unmask \/ Enter \/ SendKey \/ Leave \/ Serial \/ Tick \/ Reader \/ Call
             \/ set_keyboard \/ UNCHANGED keyboardVars
      PROVE  UNCHANGED <<obf, held, ctrl, shift, alt>>
  BY <1>5 DEF Unmask, Enter, SendKey, Leave, Serial, Tick, Reader, Call, set_keyboard,
              keyboardVars, driverVars
<1> QED
  BY <1>1, <1>2, <1>3, <1>4, <1>5 DEF KeyboardNext, Handler

(* No modifier sticks (keyboard.rs 285-300): for any keys of any modifiers,  *)
(* any controller and any order of presses, releases and interrupts, a flag  *)
(* that is set means that one of its keys is down, or that its release is on *)
(* its way to the handler.                                                   *)
THEOREM NoneSticks == KeyboardSpec => []NoStuckModifier
<1>1. KeysInv => NoStuckModifier
  BY DEF KeysInv, FlagsFollow, Follows, Releases, NoStuckModifier, Held, Contains
<1>2. KeyboardInit /\ [][KeyboardNext]_keyboardVars => []KeysInv
  BY KeysInit, KeysNext, PTL
<1> QED
  BY <1>1, <1>2, PTL DEF KeyboardSpec

(***************************************************************************)
(* The input has room for the end of its line, and is on the screen        *)
(***************************************************************************)

(* What the input and the keys that are on their way to it are made of.      *)
Typed == SerialChars \cup DecodedChars \cup CsiKeys \cup {ESC_KEY, "1;6I", "1;5I", "Z", "tab", "1;6"}

InputTypeOK == stdin \in Seq(Typed) /\ todo \in Seq(Typed)

InputInv == InputTypeOK /\ FullEndsLine /\ ScreenShowsInput

-----------------------------------------------------------------------------
(* One more in the input is one more cell, or two.                           *)
LEMMA WideOfAppend ==
  ASSUME NEW s \in Seq(Typed), NEW c \in Typed
  PROVE  Len(Append(s, c)) + Cardinality(Wide(Append(s, c)))
           = Len(s) + Cardinality(Wide(s)) + Width(c)
<1> DEFINE t == Append(s, c)
           n == Len(s) + 1
<1>1. /\ DOMAIN s = 1 .. Len(s) /\ DOMAIN t = 1 .. n /\ Len(t) = n /\ t[n] = c
      /\ \A i \in 1 .. Len(s) : t[i] = s[i]
      /\ Len(s) \in Nat
  OBVIOUS
<1>2. IsFiniteSet(Wide(s)) /\ Cardinality(Wide(s)) \in Nat
  <2>1. Wide(s) \in SUBSET (1 .. Len(s))
    BY <1>1 DEF Wide
  <2>2. IsFiniteSet(1 .. Len(s))
    BY <1>1, FS_Interval
  <2> QED BY <2>1, <2>2, FS_Subset, FS_CardinalityType
<1>3. n \notin Wide(s)
  BY <1>1 DEF Wide
<1>4. CASE Width(c) = 2
  <2>1. Wide(t) = Wide(s) \cup {n}
    BY <1>1, <1>4 DEF Wide
  <2>2. Cardinality(Wide(t)) = Cardinality(Wide(s)) + 1
    BY <1>2, <1>3, <2>1, FS_AddElement
  <2> QED BY <1>1, <1>2, <1>4, <2>2
<1>5. CASE Width(c) = 1
  <2>1. Wide(t) = Wide(s)
    BY <1>1, <1>5 DEF Wide
  <2> QED BY <1>1, <1>2, <1>5, <2>1
<1> QED BY <1>4, <1>5 DEF Width

LEMMA WideOfNone == Len(<<>>) + Cardinality(Wide(<<>>)) = 0
<1>1. Wide(<<>>) = {}
  BY DEF Wide
<1> QED BY <1>1, FS_EmptySet

LEMMA WideIsNat ==
  ASSUME NEW s \in Seq(Typed)
  PROVE  Len(s) + Cardinality(Wide(s)) \in Nat
<1>1. Wide(s) \in SUBSET (1 .. Len(s)) /\ Len(s) \in Nat
  BY DEF Wide
<1>2. IsFiniteSet(1 .. Len(s))
  BY <1>1, FS_Interval
<1>3. IsFiniteSet(Wide(s))
  BY <1>1, <1>2, FS_Subset
<1>4. Cardinality(Wide(s)) \in Nat
  BY <1>3, FS_CardinalityType
<1> QED BY <1>1, <1>4

LEMMA PartLength ==
  ASSUME NEW T, NEW s \in Seq(T), NEW n \in 0 .. Len(s)
  PROVE  Len(SubSeq(s, 1, n)) = n
OBVIOUS

LEMMA FrontAndLast ==
  ASSUME NEW s \in Seq(Typed), s # <<>>
  PROVE  /\ Front(s) \in Seq(Typed) /\ Last(s) \in Typed /\ Len(Front(s)) = Len(s) - 1
         /\ s = Append(Front(s), Last(s))
<1>1. Len(s) \in Nat /\ Len(s) >= 1
  OBVIOUS
<1>2. Last(s) = s[Len(s)] /\ Front(s) = SubSeq(s, 1, Len(s) - 1)
  BY DEF Last, Front
<1> HIDE DEF Typed
<1>3. /\ Front(s) \in Seq(Typed) /\ Len(Front(s)) = Len(s) - 1
      /\ \A i \in 1 .. Len(s) - 1 : Front(s)[i] = s[i]
  <2>1. SubSeq(s, 1, Len(s) - 1) \in Seq(Typed)
    BY <1>1
  <2>2. Len(SubSeq(s, 1, Len(s) - 1)) = Len(s) - 1
    <3>1. Len(s) - 1 \in 0 .. Len(s)
      BY <1>1
    <3> QED BY <3>1, PartLength
  <2>3. \A i \in 1 .. Len(s) - 1 : SubSeq(s, 1, Len(s) - 1)[i] = s[i]
    BY <1>1
  <2> QED BY <1>2, <2>1, <2>2, <2>3
<1>5. Last(s) \in Typed
  BY <1>1, <1>2
<1>4. Append(Front(s), Last(s)) = s
  BY <1>1, <1>2, <1>3
<1> QED BY <1>3, <1>4, <1>5

LEMMA KeyKeeps ==
  ASSUME InputInv, NEW key \in Typed, key_handle(key)
  PROVE  stdin' \in Seq(Typed) /\ FullEndsLine' /\ ScreenShowsInput'
<1> USE DEF InputInv
<1>1. stdin \in Seq(Typed) /\ MAX_INPUT \in Nat /\ MAX_INPUT # 0 /\ Len(stdin) \in Nat
  BY InputAssumption DEF InputTypeOK
<1>2. CASE UNCHANGED <<stdin, cells, mixed>>
  BY <1>1, <1>2 DEF FullEndsLine, LineEnded, ScreenShowsInput
<1>3. CASE /\ stdin # <<>> /\ stdin' = Front(stdin)
           /\ Shows(cells - Width(Last(stdin)), mixed \/ ~echo)
  <2>1. /\ stdin' \in Seq(Typed) /\ Last(stdin) \in Typed /\ Len(stdin') = Len(stdin) - 1
        /\ stdin = Append(stdin', Last(stdin))
    BY <1>1, <1>3, FrontAndLast
  <2>2. FullEndsLine'
    BY <1>1, <2>1 DEF FullEndsLine
  <2>3. Len(stdin) + Cardinality(Wide(stdin))
          = Len(stdin') + Cardinality(Wide(stdin')) + Width(Last(stdin))
    BY <2>1, WideOfAppend
  <2>4. Len(stdin') + Cardinality(Wide(stdin')) \in Nat /\ Width(Last(stdin)) \in Nat
    BY <2>1, WideIsNat DEF Width
  <2>5. ~mixed' => ~mixed /\ cells' = cells - Width(Last(stdin))
    BY <1>3 DEF Shows
  <2>6. ScreenShowsInput'
    <3> SUFFICES ASSUME ~mixed' PROVE cells' = Len(stdin') + Cardinality(Wide(stdin'))
      BY DEF ScreenShowsInput
    <3>1. cells = Len(stdin) + Cardinality(Wide(stdin))
      BY <2>5 DEF ScreenShowsInput
    <3> QED BY <2>3, <2>4, <2>5, <3>1
  <2> QED BY <2>1, <2>2, <2>6
<1>4. CASE /\ RoomFor(key) /\ stdin' = Append(stdin, key)
           /\ Shows(cells + Width(key), mixed \/ ~echo \/ raw)
  <2>1. /\ stdin' \in Seq(Typed) /\ Len(stdin') = Len(stdin) + 1 /\ Last(stdin') = key
        /\ stdin' # <<>>
    BY <1>1, <1>4 DEF Last
  <2>2. FullEndsLine'
    BY <1>1, <1>4, <2>1 DEF FullEndsLine, LineEnded, RoomFor
  <2>3. Len(stdin') + Cardinality(Wide(stdin')) = Len(stdin) + Cardinality(Wide(stdin)) + Width(key)
    BY <1>1, <1>4, WideOfAppend
  <2>4. ScreenShowsInput'
    BY <1>4, <2>3 DEF ScreenShowsInput, Shows
  <2> QED BY <2>1, <2>2, <2>4
<1> QED BY <1>2, <1>3, <1>4 DEF key_handle, Backspace, Insert, Erased

LEMMA ClearedKeeps ==
  ASSUME Cleared
  PROVE  stdin' \in Seq(Typed) /\ FullEndsLine' /\ ScreenShowsInput'
<1>1. stdin' = <<>> /\ cells' = 0
  BY DEF Cleared
<1>2. FullEndsLine'
  BY <1>1, InputAssumption DEF FullEndsLine
<1>3. ScreenShowsInput'
  BY <1>1, WideOfNone DEF ScreenShowsInput
<1> QED BY <1>1, <1>2, <1>3

LEMMA InputStarts == KeyboardInit => InputInv
<1> SUFFICES ASSUME KeyboardInit PROVE InputInv
  OBVIOUS
<1>1. stdin = <<>> /\ todo = <<>> /\ cells = 0
  BY DEF KeyboardInit, ConsoleInit
<1>2. FullEndsLine
  BY <1>1, InputAssumption DEF FullEndsLine
<1>3. ScreenShowsInput
  BY <1>1, WideOfNone DEF ScreenShowsInput
<1> QED BY <1>1, <1>2, <1>3 DEF InputInv, InputTypeOK

LEMMA TakeCharKeeps ==
  ASSUME InputInv, TakeChar
  PROVE  stdin' \in Seq(Typed) /\ FullEndsLine' /\ ScreenShowsInput'
<1>1. stdin \in Seq(Typed) /\ Len(stdin) <= MAX_INPUT /\ MAX_INPUT \in Nat
  BY InputAssumption DEF InputInv, InputTypeOK, FullEndsLine
<1>2. CASE stdin # <<>>
  <2>1. stdin' = Tail(stdin) /\ mixed' = TRUE
    BY <1>2 DEF TakeChar, Shows
  <2>2. stdin' \in Seq(Typed) /\ Len(stdin') < MAX_INPUT
    BY <1>1, <1>2, <2>1
  <2>3. FullEndsLine'
    BY <1>1, <2>2 DEF FullEndsLine
  <2> QED BY <2>1, <2>2, <2>3 DEF ScreenShowsInput
<1>3. CASE stdin = <<>>
  BY <1>1, <1>3 DEF TakeChar, InputInv, FullEndsLine, LineEnded, ScreenShowsInput
<1> QED BY <1>2, <1>3

LEMMA PairIsSeq ==
  ASSUME NEW T, NEW x \in T, NEW y \in T
  PROVE  <<x>> \in Seq(T) /\ <<x, y>> \in Seq(T) /\ <<>> \in Seq(T)
<1>1. <<x>> \in Seq(T)
  OBVIOUS
<1>2. <<x, y>> \in Seq(T)
  OBVIOUS
<1> QED BY <1>1, <1>2

(* The keys that are sent for one that was decoded.                          *)
LEMMA SequenceIsTyped ==
  ASSUME NEW k, NEW c, NEW s, NEW a
  PROVE  Sequence(k, c, s, a) \in Seq(Typed)
<1> DEFINE T == Typed
<1>1. /\ "tab" \in T /\ "1;6I" \in T /\ "1;5I" \in T /\ "Z" \in T /\ "1;6" \in T
      /\ ESC_KEY \in T
  BY Zenon DEF Typed
<1>2. (k \in CsiKeys => k \in T) /\ (k \in DecodedChars => k \in T)
  BY Zenon DEF Typed
<1> HIDE DEF T
<1>3. \A code \in T : Csi(code) \in Seq(T)
  BY <1>1, PairIsSeq DEF Csi
<1>6. <<"tab">> \in Seq(T) /\ <<>> \in Seq(T)
  BY <1>1, PairIsSeq
<1>4. <<"tab">> \in Seq(T) /\ <<>> \in Seq(T) /\ (k \in DecodedChars => <<k>> \in Seq(T))
  BY <1>2, <1>6, PairIsSeq
<1>5. Sequence(k, c, s, a) \in Seq(T)
  BY <1>1, <1>2, <1>3, <1>4, Zenon DEF Sequence
<1> QED BY <1>5 DEF T

LEMMA InputStep == InputInv /\ [KeyboardNext]_keyboardVars => InputInv'
<1> SUFFICES ASSUME InputInv, [KeyboardNext]_keyboardVars PROVE InputInv'
  OBVIOUS
<1>1. stdin \in Seq(Typed) /\ todo \in Seq(Typed)
  BY DEF InputInv, InputTypeOK
<1>2. ASSUME UNCHANGED <<stdin, cells, mixed>>, todo' \in Seq(Typed)
      PROVE  InputInv'
  BY <1>2 DEF InputInv, InputTypeOK, FullEndsLine, LineEnded, ScreenShowsInput
<1>3. ASSUME Press \/ Release \/ Unmask \/ Enter \/ Leave \/ Tick \/ set_keyboard
             \/ UNCHANGED keyboardVars
      PROVE  InputInv'
  <2>1. UNCHANGED <<stdin, cells, mixed, todo>>
    BY <1>3 DEF Press, Release, Sent, Unmask, Enter, Leave, Tick, set_keyboard, keyboardVars,
                driverVars, consoleVars
  <2> QED BY <1>1, <1>2, <2>1
<1>4. CASE Scan
  <2>1. UNCHANGED <<stdin, cells, mixed>>
    BY <1>4 DEF Scan, consoleVars
  <2>2. \/ todo' = <<>>
        \/ \E k, c, s, a : todo' = Sequence(k, c, s, a)
    BY <1>4 DEF Scan
  <2>3. todo' \in Seq(Typed)
    <3>1. <<>> \in Seq(Typed)
      OBVIOUS
    <3> QED BY <2>2, <3>1, SequenceIsTyped, Zenon
  <2> QED BY <1>2, <2>1, <2>3
<1>5. CASE SendKey
  <2>1. todo # <<>> /\ key_handle(Head(todo)) /\ todo' = Tail(todo)
    BY <1>5 DEF SendKey
  <2>2. Head(todo) \in Typed /\ todo' \in Seq(Typed)
    BY <1>1, <2>1
  <2> QED BY <2>1, <2>2, KeyKeeps DEF InputInv, InputTypeOK
<1>6. CASE Serial
  <2>1. PICK c \in SerialChars : key_handle(c)
    BY <1>6 DEF Serial
  <2>2. c \in Typed /\ todo' = todo
    BY <1>6 DEF Typed, Serial, driverVars
  <2> QED BY <1>1, <2>1, <2>2, KeyKeeps DEF InputInv, InputTypeOK
<1>7. CASE Reader
  <2>1. todo' = todo /\ Reads
    BY <1>7 DEF Reader, driverVars
  <2>2. CASE TakeLine
    <3>1. Cleared \/ UNCHANGED <<stdin, cells, mixed>>
      BY <2>2 DEF TakeLine
    <3> QED BY <1>1, <1>2, <2>1, <3>1, ClearedKeeps DEF InputInv, InputTypeOK
  <2>3. CASE TakeChar
    BY <1>1, <2>1, <2>3, TakeCharKeeps DEF InputInv, InputTypeOK
  <2>4. CASE LineHlt \/ CharRaw \/ CharHlt \/ CharEcho \/ CharCooked
    <3>1. UNCHANGED <<stdin, cells, mixed>>
      BY <2>4 DEF LineHlt, CharRaw, CharHlt, CharEcho, CharCooked
    <3> QED BY <1>1, <1>2, <2>1, <3>1
  <2> QED BY <2>1, <2>2, <2>3, <2>4 DEF Reads
<1>8. CASE Call
  <2>1. todo' = todo /\ (Cleared \/ UNCHANGED <<stdin, cells, mixed>>)
    BY <1>8 DEF Call, Calls, ReadLine, ReadChar, drain, SetEcho, driverVars
  <2> QED BY <1>1, <1>2, <2>1, ClearedKeeps DEF InputInv, InputTypeOK
<1> QED BY <1>3, <1>4, <1>5, <1>6, <1>7, <1>8 DEF KeyboardNext, Handler

(* However long the input may be and whatever is typed, erased and taken out,*)
(* a full input ends a line, and the screen shows the input of a line reader.*)
THEOREM InputAlwaysHolds == KeyboardSpec => []InputHolds
<1>1. InputInv => InputHolds
  BY DEF InputInv, InputHolds
<1> QED BY <1>1, InputStarts, InputStep, PTL DEF KeyboardSpec

(***************************************************************************)
(* The time that is read is one there was, and how it may be misunderstood *)
(***************************************************************************)

Port == {"A", "B", "C", "lo", "hi"}

ClockTypeOK ==
  /\ time \in [lo : Digits, hi : Digits] /\ shown \subseteq [lo : Digits, hi : Digits]
  /\ uip \in BOOLEAN /\ irq \in BOOLEAN /\ met \in BOOLEAN /\ data \in BOOLEAN
  /\ selected \in Port
  /\ at \in 0 .. 7
  /\ got \in Seq(Int) /\ (at # 0 => Len(got) >= at - 1)

(* At most one update comes in a call, and none is in progress when its      *)
(* interrupt is requested.                                                   *)
OneUpdate ==
  /\ uip => ~irq
  /\ at # 0 => (uip \/ irq => met) /\ time \in shown

(* A register that was selected is the one of the access, unless the         *)
(* interrupt handler came in between, and then the update is over.           *)
Selection ==
  at # 0 /\ data => selected = Accesses[at] \/ (met /\ ~uip /\ selected = "C")

(* The first reading is of one time, or an update came in the middle of it.  *)
FirstReading ==
  \E t \in shown : got[2] = t.lo /\ got[3] = t.hi

(* No update is in the way of the second reading.                            *)
SecondClean ==
  /\ met /\ ~uip /\ ~irq
  /\ data => selected = Accesses[at]
  /\ at = 6 => got[5] = time.lo

RtcInv ==
  /\ at = 3 /\ ~met => got[2] = time.lo
  /\ at \in 4 .. 6 => FirstReading \/ (at = 4 /\ met) \/ (at # 4 /\ SecondClean)
  /\ at = 7 => [lo |-> got[5], hi |-> got[6]] \in shown
  /\ RtcReadsATime

ClockInv == ClockTypeOK /\ OneUpdate /\ Selection /\ RtcInv

-----------------------------------------------------------------------------
LEMMA ClockStarts == ClockInit => ClockInv
<1> SUFFICES ASSUME ClockInit PROVE ClockInv
  OBVIOUS
<1>1. ClockTypeOK
  <2>1. got \in Seq(Int) /\ at \in 0 .. 7 /\ at = 0
    BY DEF ClockInit
  <2> QED BY <2>1 DEF ClockInit, ClockTypeOK, Port
<1> QED BY <1>1 DEF ClockInit, ClockInv, OneUpdate, Selection, RtcInv, RtcReadsATime

LEMMA HardwareKeeps == ClockInv /\ (UpdateStarts \/ UpdateEnds) => ClockInv'
<1> SUFFICES ASSUME ClockInv, UpdateStarts \/ UpdateEnds PROVE ClockInv'
  OBVIOUS
<1> USE DEF ClockInv
<1>1. CASE UpdateStarts
  <2>1. /\ ~uip /\ ~irq /\ (at # 0 => ~met) /\ uip' = TRUE /\ met' = TRUE
        /\ UNCHANGED <<time, irq, selected, at, data, got, answer, shown>>
    BY <1>1 DEF UpdateStarts
  <2>2. ClockTypeOK'
    BY <2>1 DEF ClockTypeOK
  <2>3. OneUpdate' /\ Selection'
    BY <2>1 DEF OneUpdate, Selection
  <2>4. RtcInv'
    <3>1. RtcReadsATime'
      BY <2>1 DEF RtcInv, RtcReadsATime
    <3> QED BY <2>1, <3>1 DEF RtcInv, FirstReading, SecondClean, ClockTypeOK
  <2> QED BY <2>2, <2>3, <2>4
<1>2. CASE UpdateEnds
  <2>1. /\ uip /\ uip' = FALSE /\ irq' = TRUE /\ time' = Carried(time) /\ shown' = shown \cup {time'}
        /\ UNCHANGED <<selected, at, data, got, answer, met>>
    BY <1>2 DEF UpdateEnds, rtcVars
  <2>2. Carried(time) \in [lo : Digits, hi : Digits]
    <3>1. time.lo \in 0 .. Base - 1 /\ time.hi \in 0 .. Base - 1 /\ Base \in Nat /\ Base # 0
      BY ClockAssumption DEF ClockTypeOK, Digits
    <3>2. (time.hi + 1) % Base \in 0 .. Base - 1 /\ 0 \in 0 .. Base - 1
      BY <3>1
    <3>3. time.lo < Base - 1 => time.lo + 1 \in 0 .. Base - 1
      BY <3>1
    <3> QED BY <3>2, <3>3 DEF Carried, ClockTypeOK, Digits
  <2>3. ClockTypeOK'
    BY <2>1, <2>2 DEF ClockTypeOK
  <2>4. OneUpdate' /\ Selection'
    BY <2>1 DEF OneUpdate, Selection
  <2>5. RtcInv'
    <3>1. RtcReadsATime'
      BY <2>1 DEF RtcInv, RtcReadsATime
    <3> QED BY <2>1, <3>1 DEF RtcInv, OneUpdate, FirstReading, SecondClean, ClockTypeOK
  <2> QED BY <2>3, <2>4, <2>5
<1> QED BY <1>1, <1>2

LEMMA HandlersKeep == ClockInv /\ (pit_interrupt_handler \/ rtc_interrupt_handler) => ClockInv'
<1> SUFFICES ASSUME ClockInv, pit_interrupt_handler \/ rtc_interrupt_handler PROVE ClockInv'
  OBVIOUS
<1> USE DEF ClockInv
<1>1. UNCHANGED <<time, uip, at, data, got, answer, met, shown>>
  BY DEF pit_interrupt_handler, rtc_interrupt_handler, rtcVars
<1>4. RtcReadsATime'
  BY <1>1 DEF RtcInv, RtcReadsATime
<1>2. CASE pit_interrupt_handler
  <2>1. irq' = irq /\ selected' = selected
    BY <1>2 DEF pit_interrupt_handler
  <2> QED BY <1>1, <1>4, <2>1 DEF ClockTypeOK, OneUpdate, Selection, RtcInv, FirstReading, SecondClean
<1>3. CASE rtc_interrupt_handler
  <2>1. irq /\ irq' = FALSE /\ selected' = "C"
    BY <1>3 DEF rtc_interrupt_handler
  <2>2. ClockTypeOK' /\ OneUpdate' /\ Selection'
    BY <1>1, <2>1 DEF ClockTypeOK, OneUpdate, Selection, Port
  <2>3. RtcInv'
    BY <1>1, <1>4, <2>1 DEF RtcInv, FirstReading, SecondClean
  <2> QED BY <2>2, <2>3
<1> QED BY <1>2, <1>3

LEMMA SleepersKeep == ClockInv /\ (Sleep \/ Look) => ClockInv'
<1> SUFFICES ASSUME ClockInv, Sleep \/ Look PROVE ClockInv'
  OBVIOUS
<1>1. UNCHANGED <<time, uip, irq, selected, at, data, got, answer, met, shown>>
  BY DEF Sleep, Look, rtcVars
<1>2. RtcReadsATime'
  BY <1>1 DEF ClockInv, RtcInv, RtcReadsATime
<1> QED
  BY <1>1, <1>2 DEF ClockInv, ClockTypeOK, OneUpdate, Selection, RtcInv, FirstReading, SecondClean

(* The call begins, and selects the register of an access.                   *)
LEMMA RtcKeeps == ClockInv /\ (Rtc \/ Select) => ClockInv'
<1> SUFFICES ASSUME ClockInv, Rtc \/ Select PROVE ClockInv'
  OBVIOUS
<1> USE DEF ClockInv
<1>1. UNCHANGED <<time, uip, irq, answer>>
  BY DEF Rtc, Select
<1>2. CASE Rtc
  <2>1. /\ at' = 1 /\ data' = FALSE /\ got' = <<>> /\ met' = (uip \/ irq) /\ shown' = {time}
        /\ selected' = selected
    BY <1>2 DEF Rtc
  <2>2. /\ got' \in Seq(Int) /\ Len(got') >= at' - 1 /\ at' \in 0 .. 7 /\ at' \notin 4 .. 7
        /\ at' # 0 /\ at' # 3
    BY <2>1
  <2>4. met' \in BOOLEAN /\ (uip \/ irq => met')
    BY <2>1, Zenon
  <2>5. ClockTypeOK'
    BY <1>1, <2>1, <2>2, <2>4 DEF ClockTypeOK
  <2>6. OneUpdate' /\ Selection'
    BY <1>1, <2>1, <2>4 DEF OneUpdate, Selection
  <2>3. RtcInv'
    BY <2>2 DEF RtcInv, RtcReadsATime
  <2> QED BY <2>3, <2>5, <2>6
<1>3. CASE Select
  <2>1. /\ at # 0 /\ selected' = Accesses[at] /\ data' = TRUE
        /\ UNCHANGED <<at, got, met, shown>>
    BY <1>3 DEF Select
  <2>2. at \in 1 .. 7 /\ Accesses[at] \in Port
    BY <2>1 DEF ClockTypeOK, Accesses, Port
  <2>3. ClockTypeOK'
    BY <1>1, <2>1, <2>2 DEF ClockTypeOK
  <2>4. OneUpdate' /\ Selection'
    BY <1>1, <2>1 DEF OneUpdate, Selection
  <2>5. RtcInv'
    BY <1>1, <2>1 DEF RtcInv, RtcReadsATime, FirstReading, SecondClean
  <2> QED BY <2>3, <2>4, <2>5
<1> QED BY <1>2, <1>3

(* What an access of each register finds.                                    *)
LEMMA PortSays ==
  ASSUME ClockInv, at \in 1 .. 6, ~irq, data, NEW v \in DataPort
  PROVE  /\ v \in Int
         /\ Accesses[at] = "A" /\ v # 1 => ~uip
         /\ selected = Accesses[at] /\ ~uip /\ at \in {2, 5} => v = time.lo
         /\ selected = Accesses[at] /\ ~uip /\ at \in {3, 6} => v = time.hi
<1>1. selected = Accesses[at] \/ (~uip /\ selected = "C")
  BY DEF ClockInv, Selection
<1>2. /\ time.lo \in Int /\ time.hi \in Int /\ \A x \in Digits : x \in Int
      /\ time = [lo |-> time.lo, hi |-> time.hi]
  BY ClockAssumption DEF ClockInv, ClockTypeOK, Digits
<1>3. /\ at \in {1, 4} => Accesses[at] = "A"
      /\ at \in {2, 5} => Accesses[at] = "lo"
      /\ at \in {3, 6} => Accesses[at] = "hi"
      /\ at \in {1, 2, 3, 4, 5, 6}
  BY DEF Accesses
<1>4. CASE selected = "C"
  <2>1. v = 0 /\ selected # Accesses[at]
    BY <1>3, <1>4 DEF DataPort
  <2> QED BY <1>1, <2>1
<1>5. CASE selected = "A"
  <2>1. v = IF uip THEN 1 ELSE 0
    BY <1>5 DEF DataPort
  <2> QED BY <1>3, <1>5, <2>1
<1>6. CASE selected = "lo" /\ selected = Accesses[at]
  <2>1. IF uip THEN v \in Digits ELSE v = time.lo
    BY <1>2, <1>6 DEF DataPort
  <2> QED BY <1>2, <1>3, <1>6, <2>1
<1>7. CASE selected = "hi" /\ selected = Accesses[at]
  <2>1. IF uip THEN v \in Digits ELSE v = time.hi
    BY <1>2, <1>7 DEF DataPort
  <2> QED BY <1>2, <1>3, <1>7, <2>1
<1> QED BY <1>1, <1>3, <1>4, <1>5, <1>6, <1>7

LEMMA AccessKeeps == ClockInv /\ Access => ClockInv'
<1> SUFFICES ASSUME ClockInv, Access PROVE ClockInv'
  OBVIOUS
<1>1. /\ at \in 1 .. 6 /\ ~irq /\ data /\ data' = FALSE
      /\ UNCHANGED <<time, uip, irq, selected, answer, met, shown>>
  BY DEF Access
<1>2. PICK v \in DataPort : /\ got' = Append(SubSeq(got, 1, at - 1), v)
                            /\ at' = Again(Append(SubSeq(got, 1, at - 1), v))
  BY DEF Access
<1>3. /\ v \in Int
      /\ Accesses[at] = "A" /\ v # 1 => ~uip
      /\ selected = Accesses[at] /\ ~uip /\ at \in {2, 5} => v = time.lo
      /\ selected = Accesses[at] /\ ~uip /\ at \in {3, 6} => v = time.hi
  BY <1>1, PortSays
<1>4. got \in Seq(Int) /\ Len(got) >= at - 1
  BY <1>1 DEF ClockInv, ClockTypeOK
<1>5. /\ got' \in Seq(Int) /\ Len(got') = at /\ got'[at] = v
      /\ \A i \in 1 .. at - 1 : got'[i] = got[i]
  BY <1>1, <1>2, <1>3, <1>4
<1>6. Last(got') = v
  BY <1>5 DEF Last
<1>7. at' = Again(got')
  BY <1>2
<1>8. /\ at \in {1, 4} => Accesses[at] = "A"
      /\ at \in {2, 5} => Accesses[at] = "lo"
      /\ at \in {3, 6} => Accesses[at] = "hi"
      /\ at \in {1, 2, 3, 4, 5, 6}
  BY <1>1 DEF Accesses
<1>9. /\ at \in {1, 4} => (v = 1 /\ at' = at) \/ (v # 1 /\ at' = at + 1)
      /\ at \in {2, 3, 5} => at' = at + 1
      /\ at = 6 => (at' = 7 /\ Agrees(got')) \/ at' = 1
  BY <1>6, <1>7, <1>8 DEF Again
<1>10. at' \in 1 .. 7 /\ Len(got') >= at' - 1
  BY <1>5, <1>8, <1>9
<1>11. ClockTypeOK'
  <2>1. data' \in BOOLEAN
    BY <1>1
  <2>2. at' \in 0 .. 7
    BY <1>10
  <2> QED BY <1>1, <1>5, <1>10, <2>1, <2>2 DEF ClockInv, ClockTypeOK
<1>12. OneUpdate' /\ Selection'
  BY <1>1, <1>8 DEF ClockInv, OneUpdate, Selection
<1>13. RtcInv'
  <2>6. RtcReadsATime'
    BY <1>1, <1>10 DEF RtcReadsATime
  <2>1. CASE at \in {1, 2}
    BY <1>1, <1>3, <1>5, <1>8, <1>9, <2>1, <2>6 DEF ClockInv, OneUpdate, Selection, RtcInv
  <2>2. CASE at = 3
    BY <1>1, <1>3, <1>5, <1>8, <1>9, <2>2, <2>6 DEF ClockInv, OneUpdate, Selection, RtcInv, FirstReading
  <2>3. CASE at = 4
    BY <1>1, <1>3, <1>5, <1>8, <1>9, <2>3, <2>6 DEF ClockInv, OneUpdate, Selection, RtcInv, FirstReading, SecondClean
  <2>4. CASE at = 5
    BY <1>1, <1>3, <1>5, <1>8, <1>9, <2>4, <2>6 DEF ClockInv, OneUpdate, Selection, RtcInv, FirstReading, SecondClean
  <2>5. CASE at = 6
    <3>1. CASE at' = 1
      BY <1>1, <2>6, <3>1 DEF RtcInv
    <3>2. CASE at' = 7 /\ Agrees(got')
      <4>1. got'[2] = got[2] /\ got'[3] = got[3] /\ got'[5] = got[5] /\ got'[6] = v
        BY <1>5, <2>5
      <4>2. got[2] = got[5] /\ got[3] = v
        BY <3>2, <4>1 DEF Agrees
      <4>3. [lo |-> got[5], hi |-> v] \in shown
        <5>1. CASE FirstReading
          <6>1. PICK t \in shown : got[2] = t.lo /\ got[3] = t.hi
            BY <5>1 DEF FirstReading
          <6>2. t = [lo |-> t.lo, hi |-> t.hi]
            BY DEF ClockInv, ClockTypeOK
          <6> QED BY <4>2, <6>1, <6>2
        <5>2. CASE SecondClean
          BY <1>1, <1>3, <2>5, <5>2 DEF ClockInv, ClockTypeOK, OneUpdate, SecondClean
        <5> QED BY <2>5, <5>1, <5>2 DEF ClockInv, RtcInv
      <4> QED BY <1>1, <2>6, <3>2, <4>1, <4>3 DEF RtcInv
    <3> QED BY <1>9, <2>5, <3>1, <3>2
  <2> QED BY <1>8, <2>1, <2>2, <2>3, <2>4, <2>5
<1> QED BY <1>11, <1>12, <1>13 DEF ClockInv

LEMMA ModeKeeps == ClockInv /\ Mode => ClockInv'
<1> SUFFICES ASSUME ClockInv, Mode PROVE ClockInv'
  OBVIOUS
<1> DEFINE counted == [lo |-> got[5], hi |-> got[6]]
<1>1. /\ at = 7 /\ data /\ data' = FALSE /\ at' = 0 /\ got' = <<>>
      /\ answer' = [time |-> IF selected = "B" THEN counted ELSE HalfADayOff(counted), mode |-> selected]
      /\ UNCHANGED <<time, uip, irq, selected, met, shown>>
  BY DEF Mode
<1>2. got' \in Seq(Int) /\ at' \in 0 .. 7 /\ at' \notin 3 .. 7
  BY <1>1
<1>3. ClockTypeOK'
  BY <1>1, <1>2 DEF ClockInv, ClockTypeOK
<1>4. OneUpdate' /\ Selection'
  BY <1>1 DEF ClockInv, OneUpdate, Selection
<1>5. counted \in shown
  BY <1>1 DEF ClockInv, RtcInv
<1>6. selected = "B" \/ (selected = "C" /\ met)
  <2>1. Accesses[7] = "B"
    BY DEF Accesses
  <2> QED BY <1>1, <2>1 DEF ClockInv, Selection
<1>7. CASE selected = "B"
  <2>1. answer'.mode = "B" /\ answer'.time = counted
    BY <1>1, <1>7
  <2>2. RtcReadsATime'
    BY <1>1, <1>5, <2>1 DEF RtcReadsATime
  <2> QED BY <1>1, <1>2, <1>3, <1>4, <2>2 DEF ClockInv, RtcInv
<1>8. CASE selected = "C" /\ met
  <2>1. answer'.mode = "C" /\ answer'.time = HalfADayOff(counted)
    BY <1>1, <1>8
  <2>2. RtcReadsATime'
    BY <1>1, <1>5, <1>8, <2>1 DEF RtcReadsATime
  <2> QED BY <1>1, <1>2, <1>3, <1>4, <2>2 DEF ClockInv, RtcInv
<1> QED BY <1>6, <1>7, <1>8

-----------------------------------------------------------------------------
LEMMA ClockStep == ClockInv /\ [ClockNext]_clockVars => ClockInv'
<1> SUFFICES ASSUME ClockInv, [ClockNext]_clockVars PROVE ClockInv'
  OBVIOUS
<1>1. CASE UNCHANGED clockVars
  BY <1>1 DEF ClockInv, ClockTypeOK, OneUpdate, Selection, RtcInv, RtcReadsATime,
              FirstReading, SecondClean, clockVars, rtcVars
<1>2. CASE ClockNext
  BY <1>2, HardwareKeeps, HandlersKeep, SleepersKeep, RtcKeeps, AccessKeeps, ModeKeeps
     DEF ClockNext, Reading
<1> QED BY <1>1, <1>2

(* Whatever time the registers keep, rtc() reads one that there was since it *)
(* was called: two readings that agree are not both torn by one update.  It  *)
(* returns that time, unless it met an update and took register C for B: it  *)
(* then returns the time half a day off.                                     *)
THEOREM ReadsATime == ClockSpec => []RtcReadsATime
<1>1. ClockInv => RtcReadsATime
  BY DEF ClockInv, RtcInv
<1> QED BY <1>1, ClockStarts, ClockStep, PTL DEF ClockSpec

(***************************************************************************)
(* The dock and the screen of the desktop, for every set of keys and every *)
(* length of the queue, of the line and of the time between two draws, and *)
(* whatever the commands run.                                              *)
(***************************************************************************)

Key == Printables \cup RawKeys

(* Every key that was pressed waits, was handled, or was dropped; a loop that*)
(* saw the end of the queue handled all there was when it woke up; and what  *)
(* is not to be drawn again is on the screen.                                *)
Counts ==
  /\ queue \in Seq(Key)
  /\ pressed \in Nat /\ dropped \in Nat /\ handled \in Nat /\ woken \in Nat
  /\ stage \in {"popping", "drawing", "halted", "off"}
  /\ handled + dropped + Len(queue) = pressed
  /\ woken <= pressed
  /\ stage \in {"drawing", "halted"} => handled + dropped >= woken

Shown ==
  /\ redraw \in BOOLEAN
  /\ stage = "halted" => ~redraw
  /\ handled > 0 /\ ~redraw => display = Visible

LoopInv == Counts /\ Shown

DockInv == app \in Range(APPS) \cup {NoApp} /\ DockFollows

-----------------------------------------------------------------------------
LEMMA IndexOfApp ==
  ASSUME NEW kind \in Range(APPS)
  PROVE  index(kind) \in 0 .. DockLen - 1 /\ kind # NoApp
<1>1. DOMAIN APPS = 1 .. 4 /\ Len(APPS) = 4
  BY DEF APPS
<1>2. PICK i \in 1 .. 4 : APPS[i] = kind
  BY <1>1 DEF Range
<1>3. (CHOOSE j \in DOMAIN APPS : APPS[j] = kind) \in DOMAIN APPS
  BY <1>1, <1>2
<1>4. kind # NoApp
  BY <1>2 DEF APPS, NoApp
<1> QED
  BY <1>1, <1>3, <1>4 DEF index, DockLen

LEMMA BringUpKeeps ==
  ASSUME NEW kind \in Range(APPS), BringUp(kind)
  PROVE  DockInv'
BY IndexOfApp DEF BringUp, DockInv, DockFollows, DockLen

LEMMA AppsAre == Range(APPS) = {"Files", "Terminal", "SysInfo", "Help"}
BY DEF Range, APPS

LEMMA SendKeeps ==
  ASSUME DockInv, app # NoApp, NEW key, send_to_app(key)
  PROVE  DockInv' /\ stage' \in {stage, "off"}
<1>1. \/ \E kind \in Range(APPS) : BringUp(kind) /\ UNCHANGED stage
      \/ stage' = "off" /\ UNCHANGED <<app, dock_index>>
      \/ app' = NoApp /\ UNCHANGED <<dock_index, stage>>
      \/ UNCHANGED <<app, dock_index, stage>>
  BY DEF send_to_app
<1> QED
  BY <1>1, BringUpKeeps DEF DockInv, DockFollows

LEMMA HandleKeeps ==
  ASSUME DockInv, NEW key, handle_key(key)
  PROVE  DockInv' /\ stage' \in {stage, "off"}
<1>0. dock_index \in 0 .. 4 /\ DockLen = 5 /\ ShutdownIndex = 4
  BY DEF DockInv, DockFollows, DockLen, ShutdownIndex, APPS
<1>1. CASE key \in DOMAIN Switching /\ BringUp(Switching[key]) /\ UNCHANGED <<term, stage>>
  <2>1. Switching[key] \in Range(APPS)
    BY <1>1, AppsAre DEF Switching
  <2> QED
    BY <1>1, <2>1, BringUpKeeps
<1>2. CASE app' = NoApp /\ UNCHANGED <<dock_index, term, stage>>
  BY <1>2 DEF DockInv, DockFollows
<1>3. CASE /\ app = NoApp
           /\ \/ dock_index = ShutdownIndex /\ stage' = "off" /\ UNCHANGED <<app, dock_index>>
              \/ dock_index # ShutdownIndex /\ BringUp(APPS[dock_index + 1]) /\ UNCHANGED stage
  <2>1. CASE stage' = "off" /\ UNCHANGED <<app, dock_index>>
    BY <2>1 DEF DockInv, DockFollows
  <2>2. CASE dock_index # ShutdownIndex /\ BringUp(APPS[dock_index + 1]) /\ UNCHANGED stage
    <3>1. dock_index + 1 \in 1 .. 4
      BY <1>0, <2>2
    <3>2. APPS[dock_index + 1] \in Range(APPS)
      BY <3>1 DEF Range, APPS
    <3> QED
      BY <2>2, <3>2, BringUpKeeps
  <2> QED
    BY <1>3, <2>1, <2>2
<1>4. CASE app = NoApp /\ dock_index' = Walk(key) /\ UNCHANGED <<app, term, stage>>
  <2>1. Walk(key) \in 0 .. 4
    BY <1>0 DEF Walk
  <2> QED
    BY <1>0, <1>4, <2>1 DEF DockInv, DockFollows
<1>5. CASE /\ app # NoApp
           /\ IF Walk(key) # dock_index
              THEN dock_index' = Walk(key) /\ UNCHANGED <<app, term, stage>>
              ELSE send_to_app(key)
  <2>1. Walk(key) = dock_index
    BY <1>5 DEF Walk
  <2> QED
    BY <1>5, <2>1, SendKeeps
<1> QED
  BY <1>1, <1>2, <1>3, <1>4, <1>5 DEF handle_key

-----------------------------------------------------------------------------
LEMMA DesktopStarts == DesktopInit => DockInv /\ LoopInv
<1> SUFFICES ASSUME DesktopInit
             PROVE  DockInv /\ LoopInv
  OBVIOUS
<1>1. "Terminal" \in Range(APPS)
  BY AppsAre
<1>2. DockInv
  BY <1>1, IndexOfApp DEF DesktopInit, DockInv, DockFollows
<1>3. /\ queue = <<>> /\ pressed = 0 /\ dropped = 0 /\ handled = 0 /\ woken = 0
      /\ stage = "popping" /\ redraw = FALSE
  BY DEF DesktopInit
<1>4. queue \in Seq(Key) /\ Len(queue) = 0
  BY <1>3
<1>5. Counts
  BY <1>3, <1>4 DEF Counts
<1>6. ~(handled > 0)
  BY <1>3
<1>7. Shown
  BY <1>3, <1>6, Zenon DEF Shown
<1> QED
  BY <1>2, <1>5, <1>7 DEF LoopInv

LEMMA PressKeeps ==
  ASSUME LoopInv, NEW key \in Key, PushKey(key)
  PROVE  LoopInv'
<1> DEFINE full == Len(queue) >= QueueMax
<1>1. /\ queue' = Append(IF full THEN Tail(queue) ELSE queue, key)
      /\ dropped' = IF full THEN dropped + 1 ELSE dropped
      /\ pressed' = pressed + 1
      /\ stage' = Awake /\ woken' = IF stage = "halted" THEN pressed + 1 ELSE woken
      /\ UNCHANGED <<app, dock_index, term, redraw, pit_ticks, last_draw, display, handled>>
  BY DEF PushKey
<1>2. queue \in Seq(Key) /\ Len(queue) \in Nat /\ QueueMax \in Nat \ {0}
  BY DesktopAssumption DEF LoopInv, Counts
<1>3. \/ queue' \in Seq(Key) /\ Len(queue') = Len(queue) /\ dropped' = dropped + 1
      \/ queue' \in Seq(Key) /\ Len(queue') = Len(queue) + 1 /\ dropped' = dropped
  <2>1. CASE full
    <3>1. queue # <<>>
      BY <1>2, <2>1
    <3>2. Tail(queue) \in Seq(Key) /\ Len(Tail(queue)) = Len(queue) - 1
      BY <1>2, <3>1
    <3>3. queue' = Append(Tail(queue), key) /\ dropped' = dropped + 1
      BY <1>1, <2>1
    <3>4. /\ Append(Tail(queue), key) \in Seq(Key)
          /\ Len(Append(Tail(queue), key)) = Len(Tail(queue)) + 1
      BY <3>2
    <3>5. (Len(queue) - 1) + 1 = Len(queue)
      BY <1>2
    <3> QED
      BY <3>2, <3>3, <3>4, <3>5
  <2>2. CASE ~full
    <3>1. queue' = Append(queue, key) /\ dropped' = dropped
      BY <1>1, <2>2
    <3>2. Append(queue, key) \in Seq(Key) /\ Len(Append(queue, key)) = Len(queue) + 1
      BY <1>2
    <3> QED
      BY <3>1, <3>2
  <2> QED
    BY SMTT(40), <2>1, <2>2
<1>4. Counts'
  <2>1. /\ pressed' = pressed + 1 /\ handled' = handled
        /\ stage' = Awake /\ woken' = IF stage = "halted" THEN pressed + 1 ELSE woken
    BY <1>1
  <2> QED
    BY <1>2, <1>3, <2>1 DEF LoopInv, Counts, Awake
<1>5. Visible' = Visible
  BY <1>1 DEF Visible
<1>6. Shown'
  BY <1>1, <1>5 DEF LoopInv, Shown, Awake
<1> QED
  BY <1>4, <1>6 DEF LoopInv

LEMMA PopKeeps ==
  ASSUME LoopInv, DockInv, Pop
  PROVE  LoopInv' /\ DockInv'
<1>1. DockInv' /\ stage' \in {stage, "off"}
  BY HandleKeeps DEF Pop
<1>2. queue \in Seq(Key) /\ queue # <<>> /\ queue' = Tail(queue)
  BY DEF LoopInv, Counts, Pop
<1>3. queue' \in Seq(Key) /\ Len(queue') = Len(queue) - 1 /\ Len(queue) \in Nat
  BY <1>2
<1>4. /\ stage = "popping" /\ redraw' = TRUE /\ handled' = handled + 1
      /\ UNCHANGED <<pressed, dropped, woken>>
  BY DEF Pop
<1>5. LoopInv'
  BY <1>1, <1>3, <1>4 DEF LoopInv, Counts, Shown
<1> QED
  BY <1>1, <1>5

LEMMA LoopKeeps ==
  ASSUME LoopInv, DockInv, [DesktopNext]_desktopVars
  PROVE  LoopInv' /\ DockInv'
<1>1. ASSUME UNCHANGED <<app, dock_index>>
      PROVE  DockInv'
  BY <1>1 DEF DockInv, DockFollows
<1>2. CASE \E key \in Key : PushKey(key)
  BY <1>1, <1>2, PressKeeps DEF PushKey
<1>3. CASE PitTick
  BY <1>1, <1>3 DEF PitTick, LoopInv, Counts, Shown, Awake, Visible
<1>4. CASE Pop
  BY <1>4, PopKeeps
<1>5. CASE NoMore
  <2>1. Len(queue) = 0
    BY <1>5 DEF NoMore
  <2> QED
    BY <1>1, <1>5, <2>1 DEF NoMore, LoopInv, Counts, Shown, Visible
<1>6. CASE DrawAndHalt
  <2>1. redraw => Due
    BY DEF Due
  <2> QED
    BY <1>1, <1>6, <2>1 DEF DrawAndHalt, LoopInv, Counts, Shown, Visible
<1>7. CASE UNCHANGED desktopVars
  BY <1>1, <1>7 DEF desktopVars, LoopInv, Counts, Shown, Visible
<1> QED
  BY <1>2, <1>3, <1>4, <1>5, <1>6, <1>7 DEF DesktopNext, Key

LEMMA LoopAlways == DesktopSpec => [](LoopInv /\ DockInv)
BY DesktopStarts, LoopKeeps, PTL DEF DesktopSpec

(* The dock marks what is open, whatever the lines of the terminal run.      *)
THEOREM DockAlwaysFollows == DesktopSpec => []DockFollows
<1>1. DockInv => DockFollows
  BY DEF DockInv
<1> QED
  BY <1>1, LoopAlways, PTL

(* No key that was there when the loop woke up is left to wait, and nothing  *)
(* that was handled is left unseen.                                          *)
THEOREM AlwaysSeen == DesktopSpec => []SeenWhenHalted
<1>1. LoopInv => SeenWhenHalted
  BY DEF LoopInv, Counts, Shown, SeenWhenHalted
<1> QED
  BY <1>1, LoopAlways, PTL

(***************************************************************************)
(* Days are counted as the calendar goes, for any century of the RTC: a    *)
(* month begins where the one before it ends, and so does a year.          *)
(***************************************************************************)

Leap(y) == IF LeapYear(y) THEN 1 ELSE 0

LEMMA LeapIs == ASSUME NEW y \in Nat PROVE is_leap_year(y) <=> LeapYear(y)
<1>1. CASE y % 4 # 0
  BY <1>1 DEF is_leap_year, LeapYear
<1>2. CASE y % 4 = 0 /\ y % 100 # 0
  BY <1>2 DEF is_leap_year, LeapYear
<1>3. CASE y % 4 = 0 /\ y % 100 = 0
  BY <1>3 DEF is_leap_year, LeapYear
<1> QED BY <1>1, <1>2, <1>3

LeapsIn(b) == {y \in 1970 .. b : is_leap_year(y)}

LEMMA LeapsAre ==
  ASSUME NEW b \in Nat
  PROVE  IsFiniteSet(LeapsIn(b)) /\ Cardinality(LeapsIn(b)) \in Nat
<1>1. IsFiniteSet(1970 .. b)
  BY FS_Interval
<1>2. LeapsIn(b) \in SUBSET (1970 .. b)
  BY DEF LeapsIn
<1>3. IsFiniteSet(LeapsIn(b))
  BY <1>1, <1>2, FS_Subset
<1> QED BY <1>3, FS_CardinalityType

LEMMA YearAfter ==
  ASSUME NEW y \in Nat, y >= 1970
  PROVE  /\ days_before_year(y) \in Nat
         /\ days_before_year(y + 1) = days_before_year(y) + 365 + Leap(y)
<1>1. PICK a \in Nat, b \in Nat :
        /\ a = Cardinality(LeapsIn(y - 1)) /\ b = Cardinality(LeapsIn(y))
        /\ IsFiniteSet(LeapsIn(y - 1))
  <2>1. y - 1 \in Nat
    OBVIOUS
  <2> QED BY <2>1, LeapsAre
<1>2. b = a + Leap(y)
  <2>1. CASE LeapYear(y)
    <3>1. LeapsIn(y) = LeapsIn(y - 1) \cup {y}
      <4>1. is_leap_year(y) /\ 1970 .. y = (1970 .. y - 1) \cup {y}
        BY <2>1, LeapIs
      <4> QED BY <4>1 DEF LeapsIn
    <3>2. y \notin LeapsIn(y - 1)
      BY DEF LeapsIn
    <3>3. Cardinality(LeapsIn(y - 1) \cup {y}) = Cardinality(LeapsIn(y - 1)) + 1
      BY <1>1, <3>2, FS_AddElement
    <3> QED BY <1>1, <2>1, <3>1, <3>3 DEF Leap
  <2>2. CASE ~ LeapYear(y)
    <3>1. LeapsIn(y) = LeapsIn(y - 1)
      <4>1. ~ is_leap_year(y) /\ 1970 .. y = (1970 .. y - 1) \cup {y}
        BY <2>2, LeapIs
      <4> QED BY <4>1 DEF LeapsIn
    <3> QED BY <1>1, <2>2, <3>1 DEF Leap
  <2> QED BY <2>1, <2>2
<1>3. days_before_year(y) = 365 * (y - 1970) + a
  BY <1>1 DEF days_before_year, Quantify, LeapsIn
<1>4. days_before_year(y + 1) = 365 * ((y + 1) - 1970) + b
  <2>1. (y + 1) - 1 = y
    OBVIOUS
  <2> QED BY <1>1, <2>1 DEF days_before_year, Quantify, LeapsIn
<1> QED BY <1>2, <1>3, <1>4 DEF Leap

LEMMA MonthAfter ==
  ASSUME NEW y \in Nat, NEW m \in 1 .. 12
  PROVE  /\ days_before_month(y, m) \in Nat /\ MonthDays(y, m) \in 28 .. 31
         /\ m < 12 => days_before_month(y, m + 1) = days_before_month(y, m) + MonthDays(y, m)
         /\ m = 12 => days_before_month(y, m) + MonthDays(y, m) = 365 + Leap(y)
         /\ days_before_month(y, 1) = 0
<1>1. is_leap_year(y) <=> LeapYear(y)
  BY LeapIs
<1>2. \/ m = 1 \/ m = 2 \/ m = 3 \/ m = 4 \/ m = 5 \/ m = 6
      \/ m = 7 \/ m = 8 \/ m = 9 \/ m = 10 \/ m = 11 \/ m = 12
  OBVIOUS
<1>3. \A k \in 1 .. 13 : days_before_month(y, k) =
        DAYS_BEFORE_MONTH[k] + (IF LeapYear(y) /\ k > 2 THEN 1 ELSE 0)
  BY <1>1 DEF days_before_month
<1>4. CASE m = 1
  BY <1>3, <1>4 DEF DAYS_BEFORE_MONTH, MonthDays, Leap
<1>5. CASE m = 2
  BY <1>3, <1>5 DEF DAYS_BEFORE_MONTH, MonthDays, Leap
<1>6. CASE m \in 3 .. 7
  BY <1>3, <1>6 DEF DAYS_BEFORE_MONTH, MonthDays, Leap
<1>7. CASE m \in 8 .. 12
  BY <1>3, <1>7 DEF DAYS_BEFORE_MONTH, MonthDays, Leap
<1> QED BY <1>4, <1>5, <1>6, <1>7

Days == [year : Nat, month : Nat, day : Nat]
LEMMA MonthSet ==
  ASSUME NEW d \in Days, NEW m \in Nat
  PROVE  [d EXCEPT !.month = m] = [year |-> d.year, month |-> m, day |-> d.day]
<1>1. d \in [year : Nat, month : Nat, day : Nat]
  BY DEF Days
<1>2. PICK e : e = [d EXCEPT !.month = m]
  OBVIOUS
<1>3. e \in [year : Nat, month : Nat, day : Nat]
  BY <1>1, <1>2
<1>4. e.year = d.year /\ e.month = m /\ e.day = d.day
  BY <1>1, <1>2
<1>5. e = [year |-> e.year, month |-> e.month, day |-> e.day]
  BY <1>3
<1> QED BY <1>2, <1>4, <1>5

LEMMA FirstOfNext ==
  ASSUME NEW d \in Days
  PROVE  [d EXCEPT !.day = 1, !.month = @ + 1] = [year |-> d.year, month |-> d.month + 1, day |-> 1]
<1>1. PICK x \in Days : x = [d EXCEPT !.day = 1]
  BY DEF Days
<1>2. x.year = d.year /\ x.day = 1
  BY <1>1 DEF Days
<1>3. PICK m \in Nat : m = d.month + 1
  BY DEF Days
<1>4. [d EXCEPT !.day = 1, !.month = @ + 1] = [x EXCEPT !.month = m]
  BY <1>1, <1>3 DEF Days
<1>5. [x EXCEPT !.month = m] = [year |-> x.year, month |-> m, day |-> x.day]
  BY MonthSet
<1> QED BY <1>2, <1>3, <1>4, <1>5

Dates ==
  [year : RTC_CENTURY .. RTC_CENTURY + YearMax, month : 1 .. 12, day : Nat \ {0}]

CalendarInv ==
  /\ date \in Dates /\ date.day <= MonthDays(date.year, date.month)
  /\ passed = epoch_days(date)

LEMMA CalendarStarts == CalendarInit => CalendarInv
<1> SUFFICES ASSUME CalendarInit PROVE CalendarInv
  OBVIOUS
<1>1. PICK c \in Nat : c = RTC_CENTURY /\ c >= 1970 /\ YearMax \in Nat
  BY CalendarAssumption
<1>2. date = [year |-> c, month |-> 1, day |-> 1]
  BY <1>1 DEF CalendarInit
<1>3. MonthDays(c, 1) \in 28 .. 31 /\ days_before_month(c, 1) = 0
  BY <1>1, MonthAfter
<1>4. passed = days_before_year(c)
  <2>1. {y \in 1970 .. c - 1 : LeapYear(y)} = {y \in 1970 .. c - 1 : is_leap_year(y)}
    <3>1. \A y \in 1970 .. c - 1 : LeapYear(y) <=> is_leap_year(y)
      BY <1>1, LeapIs
    <3> QED BY <3>1
  <2>2. passed = 365 * (c - 1970) + Cardinality({y \in 1970 .. c - 1 : LeapYear(y)})
    BY <1>1 DEF CalendarInit, Quantify
  <2>3. days_before_year(c) = 365 * (c - 1970) + Cardinality({y \in 1970 .. c - 1 : is_leap_year(y)})
    BY DEF days_before_year, Quantify
  <2> QED BY <2>1, <2>2, <2>3
<1>5. days_before_year(c) \in Nat
  BY <1>1, YearAfter
<1> QED BY <1>1, <1>2, <1>3, <1>4, <1>5 DEF CalendarInv, Dates, epoch_days

LEMMA CalendarStep == CalendarInv /\ [NextDay]_calendarVars => CalendarInv'
<1> SUFFICES ASSUME CalendarInv, [NextDay]_calendarVars PROVE CalendarInv'
  OBVIOUS
<1>1. PICK y \in Nat, m \in 1 .. 12, d \in Nat \ {0} :
        /\ date = [year |-> y, month |-> m, day |-> d] /\ d <= MonthDays(y, m)
        /\ y >= RTC_CENTURY /\ y <= RTC_CENTURY + YearMax /\ RTC_CENTURY \in Nat
        /\ RTC_CENTURY >= 1970 /\ YearMax \in Nat
  BY CalendarAssumption DEF CalendarInv, Dates
<1>2. PICK a \in Nat, b \in Nat : a = days_before_year(y) /\ b = days_before_month(y, m)
  <2>1. y >= 1970
    BY <1>1
  <2>2. days_before_year(y) \in Nat
    BY <2>1, YearAfter
  <2>3. days_before_month(y, m) \in Nat
    BY MonthAfter
  <2> QED BY <2>2, <2>3
<1>3. passed = a + b + d - 1
  BY <1>1, <1>2 DEF CalendarInv, epoch_days
<1>4. PICK l \in 28 .. 31 : l = MonthDays(y, m)
  BY MonthAfter
<1>5. CASE NextDay
  <2>1. CASE d < l
    <3>1. date' = [year |-> y, month |-> m, day |-> d + 1] /\ passed' = passed + 1
      BY <1>1, <1>4, <1>5, <2>1 DEF NextDay, NextDate
    <3> QED BY <1>1, <1>2, <1>3, <1>4, <2>1, <3>1 DEF CalendarInv, Dates, epoch_days
  <2>2. CASE d = l /\ m < 12
    <3>1. date' = [year |-> y, month |-> m + 1, day |-> 1] /\ passed' = passed + 1
      <4>1. NextDate(date) = [year |-> y, month |-> m + 1, day |-> 1]
        <5>1. ~ (date.day < MonthDays(date.year, date.month)) /\ date.month < 12
          BY <1>1, <1>4, <2>2
        <5>2. NextDate(date) = [date EXCEPT !.day = 1, !.month = @ + 1]
          BY <5>1 DEF NextDate
        <5>3. [date EXCEPT !.day = 1, !.month = @ + 1] = [year |-> y, month |-> m + 1, day |-> 1]
          <6>1. date \in Days /\ date.year = y /\ date.month = m
            BY <1>1 DEF Days
          <6> QED BY <6>1, FirstOfNext
        <5> QED BY <5>2, <5>3
      <4> QED BY <1>5, <4>1 DEF NextDay
    <3>2. days_before_month(y, m + 1) = b + l
      BY ZenonT(40), <1>2, <1>4, <2>2, MonthAfter
    <3>3. MonthDays(y, m + 1) \in 28 .. 31
      <4>1. m + 1 \in 1 .. 12
        BY <2>2
      <4> QED BY <4>1, MonthAfter
    <3> QED BY <1>1, <1>2, <1>3, <2>2, <3>1, <3>2, <3>3 DEF CalendarInv, Dates, epoch_days
  <2>3. CASE d = l /\ m = 12
    <3>1. /\ date' = [year |-> y + 1, month |-> 1, day |-> 1] /\ passed' = passed + 1
          /\ y + 1 <= RTC_CENTURY + YearMax
      BY <1>1, <1>4, <1>5, <2>3 DEF NextDay, NextDate
    <3>2. b + l = 365 + Leap(y)
      BY <1>2, <1>4, <2>3, MonthAfter
    <3>3. days_before_year(y + 1) = a + 365 + Leap(y)
      BY <1>1, <1>2, YearAfter
    <3>4. days_before_month(y + 1, 1) = 0 /\ MonthDays(y + 1, 1) \in 28 .. 31
      BY MonthAfter
    <3> QED BY <1>1, <1>2, <1>3, <2>3, <3>1, <3>2, <3>3, <3>4 DEF CalendarInv, Dates, epoch_days, Leap
  <2> QED BY <1>1, <1>4, <2>1, <2>2, <2>3
<1>6. CASE UNCHANGED calendarVars
  BY <1>6 DEF calendarVars, CalendarInv, epoch_days
<1> QED BY <1>5, <1>6

(* A byte has room for two decimal digits, four bits each. *)
LEMMA RegisterKeeps ==
  ASSUME NEW x \in 0 .. 99, NEW bcd \in BOOLEAN
  PROVE  rtc(update_rtc(x, bcd), bcd) = x
<1>1. PICK t \in 0 .. 9, u \in 0 .. 9 : x = 10 * t + u /\ x \div 10 = t /\ x % 10 = u
  OBVIOUS
<1>2. CASE bcd = TRUE
  <2>1. update_rtc(x, bcd) = 16 * t + u
    BY <1>1, <1>2 DEF update_rtc, Byte
  <2>2. (16 * t + u) % 16 = u /\ (16 * t + u) \div 16 = t
    BY <1>1
  <2>3. rtc(16 * t + u, bcd) = u + t * 10
    BY <1>2, <2>2 DEF rtc
  <2> QED BY <1>1, <2>1, <2>3
<1>3. CASE bcd = FALSE
  BY <1>3 DEF update_rtc, rtc, Byte
<1> QED BY <1>2, <1>3

LEMMA CountsRight == CalendarInv => DateCounts
<1> SUFFICES ASSUME CalendarInv, NEW bcd \in BOOLEAN
             PROVE  \E r \in write(date, bcd) :
                      \E d \in read(r, bcd) : d = date /\ epoch_days(d) = passed
  BY DEF DateCounts
<1>1. PICK y \in Nat, m \in 1 .. 12, d \in 1 .. 31 :
        /\ date = [year |-> y, month |-> m, day |-> d] /\ d <= MonthDays(y, m)
        /\ y - RTC_CENTURY \in 0 .. 99 /\ RTC_CENTURY \in Nat
        /\ y >= RTC_CENTURY /\ y <= RTC_CENTURY + 99
  <2>1. PICK y \in Nat, m \in 1 .. 12, d \in Nat \ {0} :
          /\ date = [year |-> y, month |-> m, day |-> d] /\ d <= MonthDays(y, m)
          /\ y >= RTC_CENTURY /\ y <= RTC_CENTURY + YearMax /\ RTC_CENTURY \in Nat
          /\ YearMax \in 0 .. 99
    BY CalendarAssumption DEF CalendarInv, Dates
  <2>2. MonthDays(y, m) \in 28 .. 31
    BY MonthAfter
  <2>3. d \in 1 .. 31 /\ y - RTC_CENTURY \in 0 .. 99 /\ y <= RTC_CENTURY + 99
    BY <2>1, <2>2
  <2> QED BY <2>1, <2>3
<1>2. PICK r : r = RegistersOf(date, bcd)
  OBVIOUS
<1>3. r \in write(date, bcd)
  BY <1>1, <1>2 DEF write
<1>4. ReadBack(r, bcd) = date
  <2>1. /\ r.year = update_rtc(y - RTC_CENTURY, bcd)
        /\ r.month = update_rtc(m, bcd) /\ r.day = update_rtc(d, bcd)
    BY <1>1, <1>2 DEF RegistersOf
  <2>2. rtc(r.year, bcd) = y - RTC_CENTURY /\ rtc(r.month, bcd) = m /\ rtc(r.day, bcd) = d
    BY <1>1, <2>1, RegisterKeeps
  <2>3. RTC_CENTURY + (y - RTC_CENTURY) = y
    BY <1>1
  <2> QED BY <1>1, <2>2, <2>3 DEF ReadBack
<1>5. date \in read(r, bcd)
  BY <1>1, <1>4 DEF read
<1> QED BY <1>3, <1>5 DEF CalendarInv

(* Whatever day it is, the clock's registers keep the date, in binary and in *)
(* BCD, and the days counted since 1970 skip none and count none twice       *)
(* (cmos.rs, epoch.rs).                                                      *)
THEOREM AlwaysCounts == CalendarInit /\ [][NextDay]_calendarVars => []DateCounts
BY CalendarStarts, CalendarStep, CountsRight, PTL

(***************************************************************************)
(* The text screen is the window on its buffer.  Each operation of the     *)
(* writer takes a sound writer to a sound one, a window to a window, and   *)
(* says which rows of the buffer it may touch: those of the window, once   *)
(* it is back at the end of the text.                                      *)
(***************************************************************************)

Shape(w) ==
  /\ w = [x |-> w.x, y |-> w.y, cx |-> w.cx, cy |-> w.cy, reader |-> w.reader,
          bottom |-> w.bottom, screen |-> w.screen, scroll |-> w.scroll]
  /\ w.screen = [y \in 0 .. Rows - 1 |-> w.screen[y]]
  /\ w.scroll = [y \in 0 .. BufferRows - 1 |-> w.scroll[y]]

Sound(w) ==
  /\ Shape(w) /\ W!Inside(w)
  /\ w.cx \in 0 .. Cols /\ w.cy \in 0 .. Rows - 1

(* A step from w to v that leaves the writer sound and the screen a window. *)
Keeps(v, w) == Sound(v) /\ (W!IsWindow(w) => W!IsWindow(v))

(* Above the text's last screen v is what w was; or all moved up by a row.  *)
StaysOff(v, w) == \A r \in 0 .. w.bottom - Rows - 1 : v.scroll[r] = w.scroll[r]
MovesUp(v, w) ==
  w.bottom = BufferRows /\ \A r \in 1 .. BufferRows - 1 : v.scroll[r - 1] = w.scroll[r]

(* The writer as it moves over rows it does not touch. *)
Still(v, w) ==
  /\ v.screen = w.screen /\ v.scroll = w.scroll
  /\ v.reader = w.reader /\ v.bottom = w.bottom

(* Where only positions change, the rows are what they were. *)
LEMMA MovesOnly ==
  ASSUME NEW v, NEW w, Sound(w), Still(v, w),
         v = [x |-> v.x, y |-> v.y, cx |-> v.cx, cy |-> v.cy, reader |-> v.reader,
              bottom |-> v.bottom, screen |-> v.screen, scroll |-> v.scroll],
         v.x \in 0 .. Cols, v.y \in 0 .. Rows - 1,
         v.cx \in 0 .. Cols, v.cy \in 0 .. Rows - 1
  PROVE  Keeps(v, w) /\ StaysOff(v, w)
  <1>1. Sound(v)
    BY DEF Sound, Shape, Still, W!Inside
  <1>2. W!IsWindow(w) => W!IsWindow(v)
    BY DEF Still, W!IsWindow
  <1>3. StaysOff(v, w)
    BY DEF Still, StaysOff
  <1> QED
    BY <1>1, <1>2, <1>3 DEF Keeps

(* The window moves to a row of the text and is drawn afresh. *)
LEMMA ScrollsTo ==
  ASSUME NEW w, Sound(w), NEW top \in 0 .. w.bottom - Rows
  PROVE  LET v == W!ScrolledTo(w, top)
         IN  /\ Sound(v) /\ W!IsWindow(v) /\ v.scroll = w.scroll
             /\ v.bottom = w.bottom /\ v.reader = top
  <1> DEFINE v == W!ScrolledTo(w, top)
  <1> DEFINE new == [y \in 0 .. Rows - 1 |-> w.scroll[y + top]]
  <1>0. v = [w EXCEPT !.reader = top, !.screen = new]
    BY DEF W!ScrolledTo
  <1> HIDE DEF v, new
  <1>1. v = [x |-> w.x, y |-> w.y, cx |-> w.cx, cy |-> w.cy, reader |-> top,
             bottom |-> w.bottom, screen |-> new, scroll |-> w.scroll]
    BY <1>0 DEF Sound, Shape
  <1> USE DEF new
  <1>2. Shape(v)
    BY <1>1 DEF Sound, Shape
  <1>3. Sound(v)
    BY <1>1, <1>2 DEF Sound, W!Inside
  <1>4. W!IsWindow(v)
    BY <1>1, ScreenConstants DEF W!IsWindow, Sound, W!Inside
  <1> QED
    BY <1>1, <1>3, <1>4 DEF v

(* A character is written where the text ends. *)
LEMMA ComesBack ==
  ASSUME NEW w, Sound(w)
  PROVE  LET v == W!Current(w)
         IN  /\ Keeps(v, w) /\ v.scroll = w.scroll
             /\ v.bottom = w.bottom /\ v.reader = w.bottom - Rows
  <1>1. w.bottom \in Nat /\ w.reader \in Nat /\ w.bottom - Rows \in 0 .. w.bottom - Rows
    BY ScreenConstants DEF Sound, W!Inside
  <1>2. CASE w.reader # w.bottom - Rows
    BY <1>1, <1>2, ScrollsTo DEF W!Current, W!is_scrolling, Keeps
  <1>3. CASE w.reader = w.bottom - Rows
    BY <1>1, <1>3 DEF W!Current, W!is_scrolling, Keeps
  <1> QED
    BY <1>2, <1>3

(* v is w with a row of the window written, on the screen and in the buffer. *)
Written(v, w, y, new, old) ==
  /\ v = [w EXCEPT !.screen = [w.screen EXCEPT ![y] = new],
                   !.scroll = [w.scroll EXCEPT ![y + w.reader] = old]]
  /\ w.screen[y] = w.scroll[y + w.reader] => new = old

(* It is sound, still a window, and no other row is touched. *)
Row(v, w, y) ==
  /\ Keeps(v, w)
  /\ v.x = w.x /\ v.y = w.y /\ v.cx = w.cx /\ v.cy = w.cy
  /\ v.reader = w.reader /\ v.bottom = w.bottom
  /\ \A r \in 0 .. BufferRows - 1 : r # y + w.reader => v.scroll[r] = w.scroll[r]

LEMMA OneRow ==
  ASSUME NEW v, NEW w, Sound(w), NEW y \in 0 .. Rows - 1, NEW new, NEW old,
         Written(v, w, y, new, old)
  PROVE  Row(v, w, y)
  <1>1. v = [x |-> w.x, y |-> w.y, cx |-> w.cx, cy |-> w.cy, reader |-> w.reader,
             bottom |-> w.bottom, screen |-> [w.screen EXCEPT ![y] = new],
             scroll |-> [w.scroll EXCEPT ![y + w.reader] = old]]
    BY DEF Written, Sound, Shape
  <1>2. /\ w.bottom \in Nat /\ w.reader \in Nat /\ y + w.reader \in 0 .. BufferRows - 1
    BY ScreenConstants DEF Sound, W!Inside
  <1>3. v.screen = [s \in 0 .. Rows - 1 |-> IF s = y THEN new ELSE w.screen[s]]
    BY <1>1 DEF Sound, Shape
  <1>4. v.scroll = [s \in 0 .. BufferRows - 1 |->
                      IF s = y + w.reader THEN old ELSE w.scroll[s]]
    BY <1>1 DEF Sound, Shape
  <1>5. Shape(v)
    BY <1>1, <1>3, <1>4 DEF Shape
  <1>6. Sound(v)
    BY <1>1, <1>5 DEF Sound, W!Inside
  <1>7. ASSUME W!IsWindow(w) PROVE W!IsWindow(v)
    <2> SUFFICES ASSUME NEW s \in 0 .. Rows - 1 PROVE v.screen[s] = v.scroll[v.reader + s]
      BY DEF W!IsWindow
    <2>1. w.screen[s] = w.scroll[w.reader + s] /\ v.reader = w.reader
      BY <1>1, <1>7 DEF W!IsWindow
    <2>2. w.reader + s \in 0 .. BufferRows - 1
      BY ScreenConstants DEF Sound, W!Inside
    <2>3. CASE s = y
      <3>1. w.reader + s = y + w.reader
        BY <2>3, <1>2
      <3>2. v.screen[s] = new /\ v.scroll[w.reader + s] = old
        BY <2>2, <2>3, <3>1, <1>3, <1>4
      <3>3. w.screen[y] = w.scroll[y + w.reader]
        BY <2>1, <2>3, <3>1
      <3> QED
        BY <2>1, <3>2, <3>3 DEF Written
    <2>4. CASE s # y
      <3>1. w.reader + s # y + w.reader
        BY <2>4, <1>2
      <3> QED
        BY <2>1, <2>2, <2>4, <3>1, <1>3, <1>4, ZenonT(40)
    <2> QED
      BY <2>3, <2>4
  <1> QED
    BY <1>1, <1>4, <1>6, <1>7 DEF Keeps, Row

LEMMA CellIsSet ==
  ASSUME NEW w, Sound(w), NEW x, NEW y \in 0 .. Rows - 1, NEW c
  PROVE  Row(W!SetCell(w, x, y, c), w, y)
  <1> DEFINE v == W!SetCell(w, x, y, c)
             new == [w.screen[y] EXCEPT ![x] = c]
             old == [w.scroll[y + w.reader] EXCEPT ![x] = c]
  <1>1. w.screen[y] = w.scroll[y + w.reader] => new = old
    OBVIOUS
  <1>2. Written(v, w, y, new, old)
    BY <1>1 DEF Written, W!SetCell
  <1> HIDE DEF v, new, old
  <1>3. Row(v, w, y)
    BY <1>2, OneRow
  <1> QED
    BY <1>3 DEF v

LEMMA RowIsCleared ==
  ASSUME NEW w, Sound(w), NEW x, NEW y \in 0 .. Rows - 1
  PROVE  Row(W!clear_row_after(w, x, y), w, y)
  <1> DEFINE v == W!clear_row_after(w, x, y)
             Cut(row) == [i \in 0 .. Cols - 1 |-> IF i < x THEN row[i] ELSE " "]
             new == Cut(w.screen[y])
             old == Cut(w.scroll[y + w.reader])
  <1>1. w.screen[y] = w.scroll[y + w.reader] => new = old
    OBVIOUS
  <1>2. Written(v, w, y, new, old)
    BY <1>1 DEF Written, W!clear_row_after
  <1> HIDE DEF v, new, old
  <1>3. Row(v, w, y)
    BY <1>2, OneRow
  <1> QED
    BY <1>3 DEF v

(* A row of the window is below all that has left the screen, once the       *)
(* window is at the end of the text.                                         *)
LEMMA RowStays ==
  ASSUME NEW v, NEW w, Sound(w), NEW y \in 0 .. Rows - 1, Row(v, w, y),
         w.reader = w.bottom - Rows
  PROVE  StaysOff(v, w)
  BY ScreenConstants DEF StaysOff, Row, Sound, W!Inside

(* The screen is cleared: the first window, all of it blank.                 *)
LEMMA ScreenIsCleared ==
  ASSUME NEW w, Sound(w)
  PROVE  LET v == W!clear_screen(w)
         IN  /\ Sound(v) /\ W!IsWindow(v)
             /\ v.bottom < w.bottom \/ StaysOff(v, w)
  <1> DEFINE v == W!clear_screen(w)
             new == [y \in 0 .. Rows - 1 |-> W!BlankRow]
             old == [y \in DOMAIN w.scroll |-> IF y < Rows THEN W!BlankRow ELSE w.scroll[y]]
  <1>1. v = [w EXCEPT !.reader = 0, !.bottom = Rows, !.screen = new, !.scroll = old]
    BY DEF W!clear_screen
  <1>2. old = [y \in 0 .. BufferRows - 1 |-> IF y < Rows THEN W!BlankRow ELSE w.scroll[y]]
    BY DEF Sound, Shape
  <1> HIDE DEF v, new, old
  <1>3. v = [x |-> w.x, y |-> w.y, cx |-> w.cx, cy |-> w.cy, reader |-> 0,
             bottom |-> Rows, screen |-> new, scroll |-> old]
    BY <1>1 DEF Sound, Shape
  <1>4. Shape(v)
    BY <1>2, <1>3 DEF Shape, new
  <1>5. Sound(v)
    BY <1>3, <1>4, ScreenConstants DEF Sound, W!Inside
  <1>6. W!IsWindow(v)
    BY <1>2, <1>3, ScreenConstants DEF W!IsWindow, new
  <1>7. v.bottom < w.bottom \/ StaysOff(v, w)
    BY <1>3, ScreenConstants DEF StaysOff, Sound, W!Inside
  <1> QED
    BY <1>5, <1>6, <1>7 DEF v

(* A cleared last row makes a window of what is one but for that row. *)
LEMMA LastIsCleared ==
  ASSUME NEW w, Sound(w), \A y \in 0 .. Rows - 2 : w.screen[y] = w.scroll[w.reader + y]
  PROVE  W!IsWindow(W!clear_row_after(w, 0, Rows - 1))
  <1> DEFINE v == W!clear_row_after(w, 0, Rows - 1)
             lastRow == Rows - 1
             new == [i \in 0 .. Cols - 1 |-> IF i < 0 THEN w.screen[lastRow][i] ELSE " "]
             old == [i \in 0 .. Cols - 1 |-> IF i < 0 THEN w.scroll[lastRow + w.reader][i] ELSE " "]
  <1>1. new = old
    <2>1. \A i \in 0 .. Cols - 1 : ~(i < 0)
      BY ScreenConstants
    <2>2. new = [i \in 0 .. Cols - 1 |-> " "] /\ old = [i \in 0 .. Cols - 1 |-> " "]
      BY <2>1
    <2> QED
      BY <2>2
  <1>2. Written(v, w, lastRow, new, old)
    BY <1>1 DEF Written, W!clear_row_after
  <1> HIDE DEF v, new, old
  <1>3. v = [x |-> w.x, y |-> w.y, cx |-> w.cx, cy |-> w.cy, reader |-> w.reader,
             bottom |-> w.bottom, screen |-> [w.screen EXCEPT ![lastRow] = new],
             scroll |-> [w.scroll EXCEPT ![lastRow + w.reader] = old]]
    BY <1>2 DEF Written, Sound, Shape
  <1>4. v.screen = [s \in 0 .. Rows - 1 |-> IF s = lastRow THEN new ELSE w.screen[s]]
    BY <1>3 DEF Sound, Shape
  <1>5. v.scroll = [s \in 0 .. BufferRows - 1 |->
                      IF s = lastRow + w.reader THEN old ELSE w.scroll[s]]
    BY <1>3 DEF Sound, Shape
  <1>6. ASSUME NEW s \in 0 .. Rows - 1 PROVE v.screen[s] = v.scroll[v.reader + s]
    <2>1. w.reader + s \in 0 .. BufferRows - 1 /\ v.reader = w.reader /\ w.reader \in Nat
      BY <1>3, ScreenConstants DEF Sound, W!Inside
    <2>2. CASE s = lastRow
      BY <1>1, <1>4, <1>5, <2>1, <2>2
    <2>3. CASE s # lastRow
      <3>1. s \in 0 .. Rows - 2 /\ w.reader + s # lastRow + w.reader
        BY <2>1, <2>3, ScreenConstants
      <3> QED
        BY <1>4, <1>5, <2>1, <2>3, <3>1
    <2> QED
      BY <2>2, <2>3
  <1> QED
    BY <1>6 DEF W!IsWindow, v

(* From the end of the text to the end of the text, which may be a row       *)
(* further, or a row up when the buffer is full.                             *)
Advances(v, w) ==
  /\ Keeps(v, w)
  /\ v.reader = v.bottom - Rows
  /\ \/ StaysOff(v, w) /\ v.bottom >= w.bottom
     \/ MovesUp(v, w) /\ v.y = Rows - 1 /\ v.bottom = BufferRows

LEMMA NextRow ==
  ASSUME NEW w, Sound(w), w.reader = w.bottom - Rows, w.y < Rows - 1
  PROVE  Advances(W!new_line(w), w) /\ W!new_line(w).x = 0
  <1> DEFINE v == W!new_line(w)
  <1>1. v = [w EXCEPT !.x = 0, !.y = w.y + 1]
    BY DEF W!new_line
  <1> HIDE DEF v
  <1>2. v = [x |-> 0, y |-> w.y + 1, cx |-> w.cx, cy |-> w.cy, reader |-> w.reader,
             bottom |-> w.bottom, screen |-> w.screen, scroll |-> w.scroll]
    BY <1>1 DEF Sound, Shape
  <1>3. /\ v.x \in 0 .. Cols /\ v.y \in 0 .. Rows - 1
        /\ v.cx \in 0 .. Cols /\ v.cy \in 0 .. Rows - 1
    BY <1>2, ScreenConstants DEF Sound, W!Inside
  <1>4. Keeps(v, w) /\ StaysOff(v, w)
    BY <1>2, <1>3, MovesOnly DEF Still
  <1>5. w.bottom \in Nat
    BY ScreenConstants DEF Sound, W!Inside
  <1> QED
    BY <1>2, <1>4, <1>5 DEF Advances, v

(* The screen moves up by a row, and the window with it down the buffer. *)
LEMMA WindowDown ==
  ASSUME NEW w, Sound(w), w.reader = w.bottom - Rows, w.y = Rows - 1,
         w.bottom # BufferRows
  PROVE  Advances(W!new_line(w), w) /\ W!new_line(w).x = 0
  <1> DEFINE higher == W!Up(w.screen, Rows - 1)
             moved == [w EXCEPT !.x = 0, !.screen = W!Up(@, Rows - 1)]
             m == [moved EXCEPT !.reader = @ + 1, !.bottom = @ + 1]
             v == W!clear_row_after(m, 0, Rows - 1)
  <1>0. ~(w.y < Rows - 1)
    BY ScreenConstants
  <1>1. W!new_line(w) = v
    BY <1>0 DEF W!new_line
  <1>2. higher = [y \in 0 .. Rows - 1 |-> IF y < Rows - 1 THEN w.screen[y + 1] ELSE w.screen[y]]
    BY DEF W!Up
  <1>a. moved = [w EXCEPT !.x = 0, !.screen = higher]
    BY DEF higher
  <1>b. m = [moved EXCEPT !.reader = moved.reader + 1, !.bottom = moved.bottom + 1]
    OBVIOUS
  <1> HIDE DEF moved, m, v, higher
  <1>c. moved = [x |-> 0, y |-> w.y, cx |-> w.cx, cy |-> w.cy, reader |-> w.reader,
                 bottom |-> w.bottom, screen |-> higher, scroll |-> w.scroll]
    BY <1>a DEF Sound, Shape
  <1>3. m = [x |-> 0, y |-> w.y, cx |-> w.cx, cy |-> w.cy, reader |-> w.reader + 1,
             bottom |-> w.bottom + 1, screen |-> higher, scroll |-> w.scroll]
    BY <1>b, <1>c
  <1>4. Shape(m)
    BY <1>2, <1>3 DEF Sound, Shape
  <1>5. Sound(m)
    BY <1>3, <1>4, ScreenConstants DEF Sound, W!Inside
  <1>6. Row(v, m, Rows - 1)
    BY <1>5, RowIsCleared, ScreenConstants DEF v
  <1>7. ASSUME W!IsWindow(w) PROVE W!IsWindow(v)
    <2>1. ASSUME NEW y \in 0 .. Rows - 2 PROVE m.screen[y] = m.scroll[m.reader + y]
      <3>1. m.screen[y] = w.screen[y + 1] /\ m.scroll[m.reader + y] = w.scroll[w.reader + 1 + y]
        BY <1>2, <1>3, ScreenConstants
      <3>2. w.screen[y + 1] = w.scroll[w.reader + (y + 1)]
        BY <1>7, ScreenConstants DEF W!IsWindow
      <3>3. w.reader + (y + 1) = w.reader + 1 + y
        BY DEF Sound, W!Inside
      <3> QED
        BY <3>1, <3>2, <3>3
    <2> QED
      BY <1>5, <2>1, LastIsCleared DEF v
  <1>8. StaysOff(v, w)
    <2> SUFFICES ASSUME NEW r \in 0 .. w.bottom - Rows - 1 PROVE v.scroll[r] = w.scroll[r]
      BY DEF StaysOff
    <2>1. r \in 0 .. BufferRows - 1 /\ r # Rows - 1 + m.reader
      BY <1>3, ScreenConstants DEF Sound, W!Inside
    <2> QED
      BY <1>3, <1>6, <2>1 DEF Row
  <1>9. v.reader = v.bottom - Rows /\ v.bottom >= w.bottom
    BY <1>3, <1>6, ScreenConstants DEF Row, Sound, W!Inside
  <1>10. Sound(v) /\ v.x = 0
    BY <1>3, <1>6 DEF Row, Keeps
  <1> QED
    BY <1>1, <1>7, <1>8, <1>9, <1>10 DEF Advances, Keeps

(* The buffer is full, and moves up with the screen. *)
LEMMA BufferUp ==
  ASSUME NEW w, Sound(w), w.reader = w.bottom - Rows, w.y = Rows - 1,
         w.bottom = BufferRows
  PROVE  Advances(W!new_line(w), w) /\ W!new_line(w).x = 0
  <1> DEFINE higher == W!Up(w.screen, Rows - 1)
             all == W!Up(w.scroll, BufferRows - 1)
             moved == [w EXCEPT !.x = 0, !.screen = W!Up(@, Rows - 1)]
             m == [moved EXCEPT !.scroll = W!Up(@, BufferRows - 1)]
             v == W!clear_row_after(m, 0, Rows - 1)
  <1>0. ~(w.y < Rows - 1)
    BY ScreenConstants
  <1>1. W!new_line(w) = v
    BY <1>0 DEF W!new_line
  <1>2. higher = [y \in 0 .. Rows - 1 |-> IF y < Rows - 1 THEN w.screen[y + 1] ELSE w.screen[y]]
    BY DEF W!Up
  <1>3. all = [y \in 0 .. BufferRows - 1 |->
                 IF y < BufferRows - 1 THEN w.scroll[y + 1] ELSE w.scroll[y]]
    BY DEF W!Up
  <1>a. moved = [w EXCEPT !.x = 0, !.screen = higher]
    BY DEF higher
  <1> HIDE DEF moved, higher
  <1>c. moved = [x |-> 0, y |-> w.y, cx |-> w.cx, cy |-> w.cy, reader |-> w.reader,
                 bottom |-> w.bottom, screen |-> higher, scroll |-> w.scroll]
    BY <1>a DEF Sound, Shape
  <1>b. m = [moved EXCEPT !.scroll = all]
    BY <1>c DEF all
  <1> HIDE DEF m, v, all
  <1>4. m = [x |-> 0, y |-> w.y, cx |-> w.cx, cy |-> w.cy, reader |-> w.reader,
             bottom |-> w.bottom, screen |-> higher, scroll |-> all]
    BY <1>b, <1>c
  <1>5. Shape(m)
    BY <1>2, <1>3, <1>4 DEF Sound, Shape
  <1>6. Sound(m)
    BY <1>4, <1>5, ScreenConstants DEF Sound, W!Inside
  <1>7. Row(v, m, Rows - 1)
    BY <1>6, RowIsCleared, ScreenConstants DEF v
  <1>8. ASSUME W!IsWindow(w) PROVE W!IsWindow(v)
    <2>1. ASSUME NEW y \in 0 .. Rows - 2 PROVE m.screen[y] = m.scroll[m.reader + y]
      <3>1. /\ y + 1 \in 0 .. Rows - 1 /\ w.reader \in Nat /\ w.reader + y < BufferRows - 1
        BY ScreenConstants DEF Sound, W!Inside
      <3>2. m.screen[y] = w.screen[y + 1] /\ m.scroll[m.reader + y] = w.scroll[w.reader + y + 1]
        BY <1>2, <1>3, <1>4, <3>1, ScreenConstants, SMTT(40)
      <3>3. w.screen[y + 1] = w.scroll[w.reader + (y + 1)]
        BY <1>8, <3>1 DEF W!IsWindow
      <3>4. w.reader + (y + 1) = w.reader + y + 1
        BY <3>1
      <3> QED
        BY <3>2, <3>3, <3>4
    <2> QED
      BY <1>6, <2>1, LastIsCleared DEF v
  <1>9. MovesUp(v, w)
    <2> SUFFICES ASSUME NEW r \in 1 .. BufferRows - 1 PROVE v.scroll[r - 1] = w.scroll[r]
      BY DEF MovesUp
    <2>1. r - 1 \in 0 .. BufferRows - 2 /\ r - 1 # Rows - 1 + m.reader
      BY <1>4, ScreenConstants DEF Sound, W!Inside
    <2>2. v.scroll[r - 1] = m.scroll[r - 1]
      BY <1>7, <2>1, ScreenConstants DEF Row
    <2>3. m.scroll[r - 1] = w.scroll[r]
      BY <1>3, <1>4, <2>1, ScreenConstants
    <2> QED
      BY <2>2, <2>3
  <1>10. Sound(v) /\ v.x = 0 /\ v.y = Rows - 1 /\ v.bottom = BufferRows
         /\ v.reader = v.bottom - Rows
    BY <1>4, <1>7 DEF Row, Keeps
  <1> QED
    BY <1>1, <1>8, <1>9, <1>10 DEF Advances, Keeps

LEMMA NewLineAdvances ==
  ASSUME NEW w, Sound(w), w.reader = w.bottom - Rows
  PROVE  Advances(W!new_line(w), w) /\ W!new_line(w).x = 0
  <1>1. w.y < Rows - 1 \/ w.y = Rows - 1
    BY ScreenConstants DEF Sound, W!Inside
  <1> QED
    BY <1>1, NextRow, WindowDown, BufferUp

(* A symbol taken: the writer is sound, the screen a window, and what has    *)
(* left the screen stays or moves up.                                        *)
Takes(v, w) == Keeps(v, w) /\ (StaysOff(v, w) \/ MovesUp(v, w))

(* A glyph is drawn where the writer is, in the next row if its row is full. *)
LEMMA GlyphIsDrawn ==
  ASSUME NEW w, Sound(w), w.reader = w.bottom - Rows, NEW c
  PROVE  Takes(W!Drawn(w, c), w)
  <1> DEFINE u == IF w.x >= Cols THEN W!new_line(w) ELSE w
             s == W!SetCell(u, u.x, u.y, c)
             v == [s EXCEPT !.x = @ + 1]
  <1>1. W!Drawn(w, c) = v
    BY DEF W!Drawn
  <1>2. Advances(u, w) /\ u.x \in 0 .. Cols - 1
    <2>1. CASE w.x >= Cols
      BY <2>1, NewLineAdvances, ScreenConstants
    <2>2. CASE ~(w.x >= Cols)
      BY <2>2, ScreenConstants DEF Advances, Keeps, StaysOff, Sound, W!Inside
    <2> QED
      BY <2>1, <2>2
  <1> HIDE DEF u
  <1>3. Sound(u) /\ u.y \in 0 .. Rows - 1 /\ u.bottom \in Nat /\ w.bottom \in Nat
    BY <1>2, ScreenConstants DEF Advances, Keeps, Sound, W!Inside
  <1>4. Row(s, u, u.y)
    BY <1>3, CellIsSet
  <1> HIDE DEF s
  <1>a. v = [s EXCEPT !.x = s.x + 1]
    OBVIOUS
  <1> HIDE DEF v
  <1>5. v = [x |-> u.x + 1, y |-> s.y, cx |-> s.cx, cy |-> s.cy, reader |-> s.reader,
             bottom |-> s.bottom, screen |-> s.screen, scroll |-> s.scroll]
    BY <1>a, <1>4 DEF Row, Keeps, Sound, Shape
  <1>6. Sound(s) /\ (W!IsWindow(u) => W!IsWindow(s))
    BY <1>4 DEF Row, Keeps
  <1>7. Keeps(v, s)
    <2>1. v.x \in 0 .. Cols
      BY <1>2, <1>5, ScreenConstants
    <2>2. /\ v.y \in 0 .. Rows - 1 /\ v.cx \in 0 .. Cols /\ v.cy \in 0 .. Rows - 1
          /\ Still(v, s)
      BY <1>5, <1>6 DEF Sound, W!Inside, Still
    <2> QED
      BY <1>5, <1>6, <2>1, <2>2, MovesOnly
  <1>8. Keeps(v, w)
    BY <1>2, <1>6, <1>7 DEF Advances, Keeps
  <1>9. ASSUME NEW r \in 0 .. BufferRows - 1, r # u.y + u.reader
        PROVE  v.scroll[r] = u.scroll[r]
    BY <1>4, <1>5, <1>9 DEF Row
  <1>10. CASE StaysOff(u, w) /\ u.bottom >= w.bottom
    <2> SUFFICES ASSUME NEW r \in 0 .. w.bottom - Rows - 1 PROVE v.scroll[r] = w.scroll[r]
      BY <1>1, <1>8 DEF Takes, StaysOff
    <2>1. r \in 0 .. BufferRows - 1 /\ r # u.y + u.reader
      BY <1>2, <1>3, <1>10, ScreenConstants DEF Advances, Sound, W!Inside
    <2> QED
      BY <1>9, <1>10, <2>1 DEF StaysOff
  <1>11. CASE MovesUp(u, w) /\ u.y = Rows - 1 /\ u.bottom = BufferRows
    <2> SUFFICES ASSUME NEW r \in 1 .. BufferRows - 1 PROVE v.scroll[r - 1] = w.scroll[r]
      BY <1>1, <1>8, <1>11 DEF Takes, MovesUp
    <2>1. r - 1 \in 0 .. BufferRows - 1 /\ r - 1 # u.y + u.reader
      BY <1>2, <1>11, ScreenConstants DEF Advances
    <2>2. v.scroll[r - 1] = u.scroll[r - 1]
      BY <1>9, <2>1
    <2> QED
      BY <1>11, <2>2 DEF MovesUp
  <1> QED
    BY <1>1, <1>2, <1>10, <1>11 DEF Advances

(* Backspace blanks the glyph before the writer. *)
LEMMA GlyphIsRubbedOut ==
  ASSUME NEW w, Sound(w), w.reader = w.bottom - Rows
  PROVE  Takes(W!RubbedOut(w), w)
  <1>1. CASE ~(w.x > 0)
    BY <1>1 DEF W!RubbedOut, Takes, Keeps, StaysOff
  <1>2. CASE w.x > 0
    <2> DEFINE s == W!SetCell(w, w.x - 1, w.y, " ")
               v == [s EXCEPT !.x = @ - 1]
    <2>1. W!RubbedOut(w) = v
      BY <1>2 DEF W!RubbedOut
    <2>2. Row(s, w, w.y)
      BY CellIsSet DEF Sound, W!Inside
    <2> HIDE DEF s
    <2>a. v = [s EXCEPT !.x = s.x - 1]
      OBVIOUS
    <2> HIDE DEF v
    <2>3. v = [x |-> w.x - 1, y |-> s.y, cx |-> s.cx, cy |-> s.cy, reader |-> s.reader,
               bottom |-> s.bottom, screen |-> s.screen, scroll |-> s.scroll]
      BY <2>a, <2>2 DEF Row, Keeps, Sound, Shape
    <2>4. Sound(s) /\ (W!IsWindow(w) => W!IsWindow(s))
      BY <2>2 DEF Row, Keeps
    <2>5. Keeps(v, s)
      <3>1. v.x \in 0 .. Cols
        BY <1>2, <2>3, ScreenConstants DEF Sound, W!Inside
      <3>2. /\ v.y \in 0 .. Rows - 1 /\ v.cx \in 0 .. Cols /\ v.cy \in 0 .. Rows - 1
            /\ Still(v, s)
        BY <2>3, <2>4 DEF Sound, W!Inside, Still
      <3> QED
        BY <2>3, <2>4, <3>1, <3>2, MovesOnly
    <2>6. StaysOff(s, w)
      BY <2>2, RowStays DEF Sound, W!Inside
    <2>7. StaysOff(v, w)
      BY <2>3, <2>6 DEF StaysOff
    <2> QED
      BY <2>1, <2>4, <2>5, <2>7 DEF Takes, Keeps
  <1> QED
    BY <1>1, <1>2

(* A character, whatever was being looked at. *)
LEMMA CharacterIsTaken ==
  ASSUME NEW w, Sound(w), NEW b, b[1] \in {"glyph", "nl", "cr", "bs"}
  PROVE  Takes(W!write_byte(w, b), w)
  <1> DEFINE u == W!Current(w)
             v == W!WriteAnywhere(u, b)
  <1>1. /\ Keeps(u, w) /\ u.scroll = w.scroll
        /\ u.bottom = w.bottom /\ u.reader = u.bottom - Rows
    BY ComesBack
  <1> HIDE DEF u
  <1>2. Sound(u)
    BY <1>1 DEF Keeps
  <1>3. Takes(v, u)
    <2>1. CASE b[1] = "nl"
      BY <1>1, <1>2, <2>1, NewLineAdvances DEF W!WriteAnywhere, Advances, Takes
    <2>2. CASE b[1] = "cr"
      BY <1>2, <2>2 DEF W!WriteAnywhere, Takes, Keeps, StaysOff
    <2>3. CASE b[1] = "bs"
      BY <1>1, <1>2, <2>3, GlyphIsRubbedOut DEF W!WriteAnywhere
    <2>4. CASE b[1] = "glyph"
      BY <1>1, <1>2, <2>4, GlyphIsDrawn DEF W!WriteAnywhere
    <2> QED
      BY <2>1, <2>2, <2>3, <2>4
  <1> HIDE DEF v
  <1>4. Takes(v, w)
    BY <1>1, <1>3 DEF Takes, Keeps, StaysOff, MovesUp
  <1> QED
    BY <1>4 DEF W!write_byte, u, v

(* The control sequences that move the writer and the cursor. *)
Moving(b) ==
  \/ b[1] \in {"A", "B", "C", "D"} /\ b[2] \in Nat
  \/ b[1] \in {"G", "H"}

(* They stay inside, and no row changes. *)
Moved(v, w) ==
  /\ v = [x |-> v.x, y |-> v.y, cx |-> v.cx, cy |-> v.cy, reader |-> v.reader,
          bottom |-> v.bottom, screen |-> v.screen, scroll |-> v.scroll]
  /\ Still(v, w)
  /\ v.x \in 0 .. Cols /\ v.y \in 0 .. Rows - 1
  /\ v.cx \in 0 .. Cols /\ v.cy \in 0 .. Rows - 1

(* Such a move is a symbol taken. *)
LEMMA MovedTakes ==
  ASSUME NEW v, NEW w, Sound(w), Moved(v, w)
  PROVE  Takes(v, w)
  BY MovesOnly DEF Moved, Takes

(* Writer and cursor move up or down, *)
LEMMA MovesUpright ==
  ASSUME NEW w, Sound(w), NEW y \in 0 .. Rows - 1, NEW cy \in 0 .. Rows - 1
  PROVE  Moved([w EXCEPT !.y = y, !.cy = cy], w)
  <1> DEFINE v == [w EXCEPT !.y = y, !.cy = cy]
  <1>1. v = [w EXCEPT !.y = y, !.cy = cy]
    OBVIOUS
  <1> HIDE DEF v
  <1>2. /\ v = [x |-> v.x, y |-> v.y, cx |-> v.cx, cy |-> v.cy, reader |-> v.reader,
                bottom |-> v.bottom, screen |-> v.screen, scroll |-> v.scroll]
        /\ Still(v, w)
    BY <1>1 DEF Still, Sound, Shape
  <1>3. /\ v.x \in 0 .. Cols /\ v.y \in 0 .. Rows - 1
        /\ v.cx \in 0 .. Cols /\ v.cy \in 0 .. Rows - 1
    BY <1>1 DEF Sound, Shape, W!Inside
  <1>4. Moved(v, w)
    BY <1>2, <1>3 DEF Moved
  <1> QED
    BY <1>4 DEF v

(* to the sides, *)
LEMMA MovesSideways ==
  ASSUME NEW w, Sound(w), NEW x \in 0 .. Cols, NEW cx \in 0 .. Cols
  PROVE  Moved([w EXCEPT !.x = x, !.cx = cx], w)
  <1> DEFINE v == [w EXCEPT !.x = x, !.cx = cx]
  <1>1. v = [w EXCEPT !.x = x, !.cx = cx]
    OBVIOUS
  <1> HIDE DEF v
  <1>2. /\ v = [x |-> v.x, y |-> v.y, cx |-> v.cx, cy |-> v.cy, reader |-> v.reader,
                bottom |-> v.bottom, screen |-> v.screen, scroll |-> v.scroll]
        /\ Still(v, w)
    BY <1>1 DEF Still, Sound, Shape
  <1>3. /\ v.x \in 0 .. Cols /\ v.y \in 0 .. Rows - 1
        /\ v.cx \in 0 .. Cols /\ v.cy \in 0 .. Rows - 1
    BY <1>1 DEF Sound, Shape, W!Inside
  <1>4. Moved(v, w)
    BY <1>2, <1>3 DEF Moved
  <1> QED
    BY <1>4 DEF v

(* or to a place. *)
LEMMA PlaceIsSet ==
  ASSUME NEW w, Sound(w), NEW x \in 0 .. Cols, NEW y \in 0 .. Rows - 1
  PROVE  Moved([w EXCEPT !.x = x, !.y = y, !.cx = x, !.cy = y], w)
  <1> DEFINE v == [w EXCEPT !.x = x, !.y = y, !.cx = x, !.cy = y]
  <1>1. v = [w EXCEPT !.x = x, !.y = y, !.cx = x, !.cy = y]
    OBVIOUS
  <1> HIDE DEF v
  <1>2. /\ v = [x |-> v.x, y |-> v.y, cx |-> v.cx, cy |-> v.cy, reader |-> v.reader,
                bottom |-> v.bottom, screen |-> v.screen, scroll |-> v.scroll]
        /\ Still(v, w)
    BY <1>1 DEF Still, Sound, Shape
  <1>3. /\ v.x \in 0 .. Cols /\ v.y \in 0 .. Rows - 1
        /\ v.cx \in 0 .. Cols /\ v.cy \in 0 .. Rows - 1
    BY <1>1 DEF Sound, Shape, W!Inside
  <1>4. Moved(v, w)
    BY <1>2, <1>3 DEF Moved
  <1> QED
    BY <1>4 DEF v

(* By a number within the window, or to a place in it. *)
LEMMA SequenceMoves ==
  ASSUME NEW w, Sound(w), NEW b, Moving(b)
  PROVE  Takes(W!csi_dispatch(w, b), w)
  <1> DEFINE n == b[2]
  <1>1. /\ w.x \in 0 .. Cols /\ w.y \in 0 .. Rows - 1
        /\ w.cx \in 0 .. Cols /\ w.cy \in 0 .. Rows - 1
    BY DEF Sound, W!Inside
  <1>s. Takes(w, w)
    BY DEF Takes, Keeps, StaysOff
  <1>2. CASE b[1] = "A" /\ n \in Nat
    <2> DEFINE v == [w EXCEPT !.y = W!Less(w.y, n), !.cy = W!Less(w.cy, n)]
    <2>1. W!csi_dispatch(w, b) = v
      BY <1>2, Zenon DEF W!csi_dispatch
    <2>2. W!Less(w.y, n) \in 0 .. Rows - 1 /\ W!Less(w.cy, n) \in 0 .. Rows - 1
      BY <1>1, <1>2, ScreenConstants DEF W!Less
    <2>3. Moved(v, w)
      BY <2>2, MovesUpright
    <2> QED
      BY <2>1, <2>3, MovedTakes
  <1>3. CASE b[1] = "B" /\ n \in Nat
    <2> DEFINE v == [w EXCEPT !.y = W!Smaller(w.y + n, Rows - 1),
                              !.cy = W!Smaller(w.cy + n, Rows - 1)]
    <2>1. W!csi_dispatch(w, b) = v
      BY <1>3, Zenon DEF W!csi_dispatch
    <2>2. /\ W!Smaller(w.y + n, Rows - 1) \in 0 .. Rows - 1
          /\ W!Smaller(w.cy + n, Rows - 1) \in 0 .. Rows - 1
      BY <1>1, <1>3, ScreenConstants DEF W!Smaller
    <2>3. Moved(v, w)
      BY <2>2, MovesUpright
    <2> QED
      BY <2>1, <2>3, MovedTakes
  <1>4. CASE b[1] = "C" /\ n \in Nat
    <2> DEFINE v == [w EXCEPT !.x = W!Smaller(w.x + n, Cols - 1),
                              !.cx = W!Smaller(w.cx + n, Cols - 1)]
    <2>1. W!csi_dispatch(w, b) = v
      BY <1>4, Zenon DEF W!csi_dispatch
    <2>2. /\ W!Smaller(w.x + n, Cols - 1) \in 0 .. Cols
          /\ W!Smaller(w.cx + n, Cols - 1) \in 0 .. Cols
      BY <1>1, <1>4, ScreenConstants DEF W!Smaller
    <2>3. Moved(v, w)
      BY <2>2, MovesSideways
    <2> QED
      BY <2>1, <2>3, MovedTakes
  <1>5. CASE b[1] = "D" /\ n \in Nat
    <2> DEFINE v == [w EXCEPT !.x = W!Less(w.x, n), !.cx = W!Less(w.cx, n)]
    <2>1. W!csi_dispatch(w, b) = v
      BY <1>5, Zenon DEF W!csi_dispatch
    <2>2. W!Less(w.x, n) \in 0 .. Cols /\ W!Less(w.cx, n) \in 0 .. Cols
      BY <1>1, <1>5, ScreenConstants DEF W!Less
    <2>3. Moved(v, w)
      BY <2>2, MovesSideways
    <2> QED
      BY <2>1, <2>3, MovedTakes
  <1>6. CASE b[1] = "G"
    <2>1. W!csi_dispatch(w, b) = IF n \in 1 .. Cols THEN W!At(w, n - 1, w.cy) ELSE w
      BY <1>6, Zenon DEF W!csi_dispatch
    <2>2. n \in 1 .. Cols => n - 1 \in 0 .. Cols
      BY ScreenConstants
    <2> QED
      BY <1>1, <1>s, <2>1, <2>2, PlaceIsSet, MovedTakes, ZenonT(40) DEF W!At
  <1>7. CASE b[1] = "H"
    <2>1. W!csi_dispatch(w, b) = IF n[1] \in 1 .. Rows /\ n[2] \in 1 .. Cols
                                 THEN W!At(w, n[2] - 1, n[1] - 1) ELSE w
      BY <1>7, Zenon DEF W!csi_dispatch
    <2>2. /\ n[2] \in 1 .. Cols => n[2] - 1 \in 0 .. Cols
          /\ n[1] \in 1 .. Rows => n[1] - 1 \in 0 .. Rows - 1
      BY ScreenConstants
    <2> QED
      BY <1>s, <2>1, <2>2, PlaceIsSet, MovedTakes DEF W!At
  <1> QED
    BY <1>2, <1>3, <1>4, <1>5, <1>6, <1>7 DEF Moving

(* Erasing in a line is in the row of the window that the cursor is in, and  *)
(* so in the text's last screen unless it is scrolled back.                  *)
LEMMA LineIsErased ==
  ASSUME NEW w, Sound(w), NEW b, b[1] = "K"
  PROVE  LET v == W!csi_dispatch(w, b)
         IN  /\ Keeps(v, w)
             /\ b[2] \notin {0, 2} => StaysOff(v, w)
             /\ w.reader = w.bottom - Rows => StaysOff(v, w)
  <1> DEFINE v == W!csi_dispatch(w, b)
             s == W!clear_row_after(w, IF b[2] = 0 THEN w.cx ELSE 0, w.cy)
  <1>1. v = IF b[2] \in {0, 2} THEN W!At(s, w.cx, w.cy) ELSE w
    BY Zenon DEF W!csi_dispatch
  <1>2. Row(s, w, w.cy) /\ w.cy \in 0 .. Rows - 1 /\ w.cx \in 0 .. Cols
    BY RowIsCleared DEF Sound
  <1> HIDE DEF v, s
  <1>3. CASE b[2] \notin {0, 2}
    BY <1>1, <1>3 DEF Keeps, StaysOff, v
  <1>4. CASE b[2] \in {0, 2}
    <2>1. Sound(s)
      BY <1>2 DEF Row, Keeps
    <2>2. Takes(v, s) /\ Still(v, s)
      <3>1. Moved(W!At(s, w.cx, w.cy), s)
        BY <1>2, <2>1, PlaceIsSet DEF W!At
      <3> QED
        BY <1>1, <1>4, <2>1, <3>1, MovedTakes DEF Moved
    <2>3. Keeps(v, w)
      BY <1>2, <2>2 DEF Row, Takes, Keeps
    <2>4. w.reader = w.bottom - Rows => StaysOff(s, w)
      BY <1>2, RowStays
    <2>5. w.reader = w.bottom - Rows => StaysOff(v, w)
      BY <2>2, <2>4 DEF StaysOff, Still
    <2> QED
      BY <1>4, <2>3, <2>5 DEF v
  <1> QED
    BY <1>3, <1>4

(* Clearing the screen leaves the first window, or forgets text. *)
LEMMA DisplayIsErased ==
  ASSUME NEW w, Sound(w), NEW b, b[1] = "J"
  PROVE  LET v == W!csi_dispatch(w, b)
         IN  /\ Keeps(v, w) /\ (b[2] = 2 => W!IsWindow(v))
             /\ StaysOff(v, w) \/ v.bottom < w.bottom
  <1> DEFINE v == W!csi_dispatch(w, b)
             s == W!clear_screen(w)
  <1>1. v = IF b[2] = 2 THEN W!At(s, 0, 0) ELSE w
    BY Zenon DEF W!csi_dispatch
  <1>2. Sound(s) /\ W!IsWindow(s) /\ (s.bottom < w.bottom \/ StaysOff(s, w))
    BY ScreenIsCleared
  <1> HIDE DEF v, s
  <1>3. CASE b[2] # 2
    BY <1>1, <1>3 DEF Keeps, StaysOff, v
  <1>4. CASE b[2] = 2
    <2>1. Takes(v, s) /\ Still(v, s)
      <3>1. Moved(W!At(s, 0, 0), s)
        <4>1. 0 \in 0 .. Cols /\ 0 \in 0 .. Rows - 1
          BY ScreenConstants
        <4> QED
          BY <1>2, <4>1, PlaceIsSet DEF W!At
      <3> QED
        BY <1>1, <1>2, <1>4, <3>1, MovedTakes DEF Moved
    <2> QED
      BY <1>2, <2>1 DEF Takes, Keeps, StaysOff, Still, v
  <1> QED
    BY <1>3, <1>4

(* Scrolling moves the window over text that stays. *)
LEMMA WindowScrolls ==
  ASSUME NEW w, Sound(w), NEW b, b[1] = "~"
  PROVE  LET v == W!csi_dispatch(w, b)
         IN  Keeps(v, w) /\ StaysOff(v, w) /\ (b[2] \in {5, 6} => W!IsWindow(v))
  <1> DEFINE v == W!csi_dispatch(w, b)
             higher == IF w.reader < Rows THEN 0 ELSE w.reader - Rows
             lower == W!Smaller(w.reader + Rows, w.bottom - Rows)
  <1>1. higher \in 0 .. w.bottom - Rows /\ lower \in 0 .. w.bottom - Rows
    BY ScreenConstants DEF W!Smaller, Sound, W!Inside
  <1>2. CASE b[2] = 5
    <2>1. v = W!ScrolledTo(w, higher)
      <3>1. v = W!scroll_up(w, Rows)
        <4>1. b[2] # 6
          BY <1>2
        <4> QED
          BY <1>2, <4>1, Zenon DEF W!csi_dispatch
      <3> QED
        BY <3>1 DEF W!scroll_up
    <2> HIDE DEF v, higher
    <2>2. Sound(v) /\ W!IsWindow(v) /\ v.scroll = w.scroll
      BY <1>1, <2>1, ScrollsTo
    <2> QED
      BY <2>2 DEF Keeps, StaysOff, v
  <1>3. CASE b[2] = 6
    <2>1. v = W!ScrolledTo(w, lower)
      <3>1. v = W!scroll_down(w, Rows)
        <4>1. b[2] # 5
          BY <1>3
        <4> QED
          BY <1>3, <4>1, Zenon DEF W!csi_dispatch
      <3> QED
        BY <3>1 DEF W!scroll_down
    <2> HIDE DEF v, lower
    <2>2. Sound(v) /\ W!IsWindow(v) /\ v.scroll = w.scroll
      BY <1>1, <2>1, ScrollsTo
    <2> QED
      BY <2>2 DEF Keeps, StaysOff, v
  <1>4. CASE b[2] # 5 /\ b[2] # 6
    <2>1. v = w
      BY <1>4 DEF W!csi_dispatch
    <2> QED
      BY <1>4, <2>1 DEF Keeps, StaysOff
  <1> QED
    BY <1>2, <1>3, <1>4

(* A symbol, of any kind, while w is what the writer was. *)
LEMMA SymbolIsTaken ==
  ASSUME NEW w, Sound(w), NEW b \in Symbols
  PROVE  LET v == W!advance(w, b)
         IN  /\ Keeps(v, w) /\ (b \in Afresh => W!IsWindow(v))
             /\ \/ StaysOff(v, w) \/ MovesUp(v, w) \/ v.bottom < w.bottom
                \/ /\ W!is_scrolling(w)
                   /\ \E n \in {0, 2} : v.scroll = W!csi_dispatch(w, W!Csi("K", n)).scroll
  <1> DEFINE v == W!advance(w, b)
  <1>f. b \in Afresh => \/ b[1] = "J" /\ b[2] = 2
                        \/ b[1] = "~" /\ b[2] \in {5, 6}
    <2>1. ASSUME NEW c, NEW n PROVE W!Csi(c, n)[1] = c /\ W!Csi(c, n)[2] = n
      BY DEF W!Csi
    <2>2. b = W!Csi("J", 2) => b[1] = "J" /\ b[2] = 2
      BY <2>1
    <2>3. b = W!Csi("~", 5) => b[1] = "~" /\ b[2] \in {5, 6}
      BY <2>1
    <2>4. b = W!Csi("~", 6) => b[1] = "~" /\ b[2] \in {5, 6}
      BY <2>1
    <2>5. b \in Afresh => b = W!Csi("J", 2) \/ b = W!Csi("~", 5) \/ b = W!Csi("~", 6)
      BY Zenon DEF Afresh
    <2> QED
      BY <2>2, <2>3, <2>4, <2>5, Zenon
  <1>1. CASE b[1] \in {"glyph", "nl", "cr", "bs"}
    <2>1. Takes(v, w)
      BY <1>1, CharacterIsTaken DEF W!advance
    <2> QED
      BY <1>1, <1>f, <2>1 DEF Takes
  <1>2. CASE b[1] \notin {"glyph", "nl", "cr", "bs"}
    <2>1. v = W!csi_dispatch(w, b)
      BY <1>2 DEF W!advance
    <2> HIDE DEF v
    <2>2. CASE b[1] \in {"A", "B", "C", "D", "G", "H"}
      <3>1. Moving(b)
        BY <2>2, ScreenConstants DEF Moving
      <3>2. Takes(v, w)
        BY <2>1, <3>1, SequenceMoves
      <3> QED
        BY <2>2, <1>f, <3>2 DEF Takes, v
    <2>3. CASE b[1] = "J"
      <3>1. Keeps(v, w) /\ (b[2] = 2 => W!IsWindow(v))
        BY <2>1, <2>3, DisplayIsErased
      <3>2. StaysOff(v, w) \/ v.bottom < w.bottom
        BY <2>1, <2>3, DisplayIsErased
      <3> QED
        BY <2>3, <1>f, <3>1, <3>2 DEF v
    <2>4. CASE b[1] = "~"
      <3>1. Keeps(v, w) /\ StaysOff(v, w) /\ (b[2] \in {5, 6} => W!IsWindow(v))
        BY <2>1, <2>4, WindowScrolls
      <3> QED
        BY <2>4, <1>f, <3>1 DEF v
    <2>5. CASE b[1] = "K"
      <3>1. Keeps(v, w)
        BY <2>1, <2>5, LineIsErased
      <3>2. CASE b[2] \notin {0, 2} \/ w.reader = w.bottom - Rows
        <4>1. StaysOff(v, w)
          BY <2>1, <2>5, <3>2, LineIsErased
        <4> QED
          BY <2>5, <1>f, <3>1, <4>1 DEF v
      <3>3. CASE b[2] \in {0, 2} /\ w.reader # w.bottom - Rows
        <4>1. W!csi_dispatch(w, b) = W!csi_dispatch(w, W!Csi("K", b[2]))
          <5> DEFINE k == W!Csi("K", b[2])
          <5>1. k[1] = "K" /\ k[2] = b[2]
            BY DEF W!Csi
          <5> HIDE DEF k
          <5>2. W!csi_dispatch(w, b) =
                  IF b[2] \in {0, 2}
                  THEN W!At(W!clear_row_after(w, IF b[2] = 0 THEN w.cx ELSE 0, w.cy), w.cx, w.cy)
                  ELSE w
            BY <2>5, Zenon DEF W!csi_dispatch
          <5>3. W!csi_dispatch(w, k) =
                  IF k[2] \in {0, 2}
                  THEN W!At(W!clear_row_after(w, IF k[2] = 0 THEN w.cx ELSE 0, w.cy), w.cx, w.cy)
                  ELSE w
            BY <5>1, Zenon DEF W!csi_dispatch
          <5>4. W!csi_dispatch(w, b) = W!csi_dispatch(w, k)
            BY <5>1, <5>2, <5>3
          <5> QED
            BY <5>4 DEF k
        <4>2. W!is_scrolling(w)
          BY <3>3 DEF W!is_scrolling
        <4> QED
          BY <2>1, <2>5, <1>f, <3>1, <3>3, <4>1, <4>2 DEF v
      <3> QED
        BY <3>2, <3>3
    <2>6. CASE b[1] \notin {"A", "B", "C", "D", "G", "H", "J", "K", "~"}
      <3>1. v = w
        BY <2>1, <2>6 DEF W!csi_dispatch
      <3> QED
        BY <2>6, <1>f, <3>1 DEF Keeps, StaysOff, v
    <2> QED
      BY <2>2, <2>3, <2>4, <2>5, <2>6
  <1> QED
    BY <1>1, <1>2

(* At the end of a piece the cursor is set where the writer is. *)
LEMMA PieceEnds ==
  ASSUME NEW w, Sound(w)
  PROVE  LET v == W!Settle(w) IN Keeps(v, w) /\ Still(v, w)
  <1> DEFINE v == W!Settle(w)
  <1>1. v = [w EXCEPT !.cx = w.x, !.cy = w.y]
    BY DEF W!Settle
  <1> HIDE DEF v
  <1>2. /\ v = [x |-> v.x, y |-> v.y, cx |-> v.cx, cy |-> v.cy, reader |-> v.reader,
                bottom |-> v.bottom, screen |-> v.screen, scroll |-> v.scroll]
        /\ Still(v, w)
    BY <1>1 DEF Still, Sound, Shape
  <1>3. /\ v.x \in 0 .. Cols /\ v.y \in 0 .. Rows - 1
        /\ v.cx \in 0 .. Cols /\ v.cy \in 0 .. Rows - 1
    BY <1>1 DEF Sound, Shape, W!Inside
  <1>4. Keeps(v, w)
    BY <1>2, <1>3, MovesOnly
  <1> QED
    BY <1>2, <1>4 DEF v

(* The desktop's cells are on the screen only. *)
LEMMA CellIsDrawn ==
  ASSUME NEW w, Sound(w), NEW x, NEW c
  PROVE  LET v == W!set_cell(w, x, 0, c)
         IN  Sound(v) /\ v.scroll = w.scroll /\ (~(x < Cols) => v = w)
  <1> DEFINE v == W!set_cell(w, x, 0, c)
             new == [w.screen EXCEPT ![0] = [@ EXCEPT ![x] = c]]
  <1>1. CASE ~(x < Cols)
    BY <1>1 DEF W!set_cell
  <1>2. CASE x < Cols
    <2>1. v = [w EXCEPT !.screen = new]
      BY <1>2, ScreenConstants DEF W!set_cell
    <2>2. new = [y \in 0 .. Rows - 1 |-> new[y]]
      BY DEF Sound, Shape
    <2> HIDE DEF v, new
    <2>3. v = [x |-> w.x, y |-> w.y, cx |-> w.cx, cy |-> w.cy, reader |-> w.reader,
               bottom |-> w.bottom, screen |-> new, scroll |-> w.scroll]
      BY <2>1 DEF Sound, Shape
    <2>4. Shape(v)
      BY <2>2, <2>3 DEF Sound, Shape
    <2>5. Sound(v)
      BY <2>3, <2>4 DEF Sound, W!Inside
    <2> QED
      BY <1>2, <2>3, <2>5 DEF v
  <1> QED
    BY <1>1, <1>2

(* The writer is sound, and the screen is the window unless a cell was drawn *)
(* since it was last drawn afresh.                                           *)
ScreenInv == Sound(tty) /\ drawn \in BOOLEAN /\ (drawn \/ W!IsWindow(tty))

LEMMA ScreenStarts == ScreenInit => ScreenInv
  <1> SUFFICES ASSUME ScreenInit PROVE ScreenInv
    OBVIOUS
  <1> DEFINE s == [y \in 0 .. Rows - 1 |-> W!BlankRow]
             t == [y \in 0 .. BufferRows - 1 |-> W!BlankRow]
  <1>1. tty = [x |-> 0, y |-> 0, cx |-> 0, cy |-> 0, reader |-> 0, bottom |-> Rows,
               screen |-> s, scroll |-> t]
    BY DEF ScreenInit, W!Fresh
  <1> HIDE DEF s, t
  <1>2. tty.screen = s /\ tty.scroll = t
    BY <1>1
  <1>3. Shape(tty)
    BY <1>1 DEF Shape, s, t
  <1>4. Sound(tty)
    BY <1>1, <1>3, ScreenConstants DEF Sound, W!Inside
  <1>5. W!IsWindow(tty)
    BY <1>1, ScreenConstants DEF W!IsWindow, s, t
  <1> QED
    BY <1>4, <1>5 DEF ScreenInv, ScreenInit

(* What a step does with the text that has left the screen. *)
TextKept ==
  \/ StaysOff(tty', tty) \/ MovesUp(tty', tty) \/ tty'.bottom < tty.bottom
  \/ Erases

LEMMA ScreenStep ==
  ASSUME ScreenInv, [ScreenNext]_screenVars
  PROVE  ScreenInv' /\ TextKept
  <1>1. ASSUME NEW b \in Symbols, NEW ends \in BOOLEAN, Put(b, ends)
        PROVE  ScreenInv' /\ TextKept
    <2> DEFINE v == W!advance(tty, b)
    <2>1. Sound(tty)
      BY DEF ScreenInv
    <2>2. Keeps(v, tty) /\ (b \in Afresh => W!IsWindow(v))
      BY <2>1, SymbolIsTaken
    <2>3. \/ StaysOff(v, tty) \/ MovesUp(v, tty) \/ v.bottom < tty.bottom
          \/ /\ W!is_scrolling(tty)
             /\ \E n \in {0, 2} : v.scroll = W!csi_dispatch(tty, W!Csi("K", n)).scroll
      BY <2>1, SymbolIsTaken
    <2>4. tty' = (IF ends THEN W!Settle(v) ELSE v) /\ drawn' = (drawn /\ b \notin Afresh)
      BY <1>1 DEF Put
    <2> HIDE DEF v
    <2>5. Keeps(W!Settle(v), v) /\ Still(W!Settle(v), v)
      BY <2>2, PieceEnds DEF Keeps
    <2>6. Keeps(tty', v) /\ Still(tty', v)
      BY <2>2, <2>4, <2>5 DEF Keeps, Still
    <2>7. ScreenInv'
      BY <2>2, <2>4, <2>6, Zenon DEF ScreenInv, Keeps
    <2>8. TextKept
      BY <2>3, <2>6 DEF TextKept, StaysOff, MovesUp, Still, Erases
    <2> QED
      BY <2>7, <2>8
  <1>2. ASSUME Draw PROVE ScreenInv' /\ TextKept
    <2>1. PICK x \in 0 .. Cols : tty' = W!set_cell(tty, x, 0, "#") /\ drawn' = (drawn \/ x < Cols)
      BY <1>2 DEF Draw
    <2>2. Sound(tty') /\ tty'.scroll = tty.scroll /\ (~(x < Cols) => tty' = tty)
      BY <2>1, CellIsDrawn DEF ScreenInv
    <2>3. ScreenInv'
      BY <2>1, <2>2 DEF ScreenInv
    <2>4. TextKept
      BY <2>2 DEF TextKept, StaysOff
    <2> QED
      BY <2>3, <2>4
  <1>3. ASSUME UNCHANGED screenVars PROVE ScreenInv' /\ TextKept
    <2>1. tty' = tty /\ drawn' = drawn
      BY <1>3 DEF screenVars
    <2> QED
      BY <2>1 DEF ScreenInv, TextKept, StaysOff
  <1> QED
    BY <1>1, <1>2, <1>3 DEF ScreenNext

LEMMA ScreenAlways == ScreenSpec => []ScreenInv
  BY ScreenStarts, ScreenStep, PTL DEF ScreenSpec

(***************************************************************************)
(* Whatever is written, on a screen of any size over a buffer of any size  *)
(* that holds it, the writer stays inside and the screen shows the window  *)
(* on the buffer, but for cells the desktop drew (writer.rs 177-271,       *)
(* 375-402).                                                               *)
(***************************************************************************)
THEOREM AlwaysWindow == ScreenSpec => []ScreenIsWindow
  <1>1. ScreenInv => ScreenIsWindow
    BY DEF ScreenInv, ScreenIsWindow, Sound
  <1> QED
    BY <1>1, ScreenAlways, PTL

(***************************************************************************)
(* Text that has left the screen stays as it was, unless a full buffer     *)
(* moves up by a row, clearing the screen forgets it, or a line is erased  *)
(* while the screen is scrolled back (writer.rs 177-252).                  *)
(***************************************************************************)
THEOREM TextStays == ScreenSpec => ScrolledOffStays
  <1> DEFINE Step ==
        \/ \A r \in 0..tty.bottom - Rows - 1 : tty'.scroll[r] = tty.scroll[r]
        \/ /\ tty.bottom = BufferRows
           /\ \A r \in 1..BufferRows - 1 : tty'.scroll[r - 1] = tty.scroll[r]
        \/ tty'.bottom < tty.bottom
        \/ Erases
  <1>1. ScreenInv /\ [ScreenNext]_screenVars => [Step]_screenVars
    BY ScreenStep DEF TextKept, StaysOff, MovesUp
  <1> QED
    BY <1>1, ScreenAlways, PTL DEF ScreenSpec, ScrolledOffStays
=============================================================================
