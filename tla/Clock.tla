------------------------------- MODULE Clock -------------------------------
(***************************************************************************)
(* The clocks of sys/clk: the real-time clock (RTC) behind the two CMOS    *)
(* ports, and the ticks of the timer, by which the kernel sleeps.          *)
(*                                                                         *)
(* A CMOS register is read by a select and a data access, and the RTC's    *)
(* interrupt handler, which selects register C, may come between the two.  *)
(* The six registers of the time are two here, lo and hi, which is enough  *)
(* for a carry between them; hi stands for the hours.  From the start of   *)
(* an update to its end they read as anything.  An update comes once in a  *)
(* second: a call, which takes microseconds when nothing holds it up,      *)
(* meets one at most.  A requested interrupt is served before the next     *)
(* access.  The RTC counts 24 hours, as register B says.                   *)
(***************************************************************************)
EXTENDS Integers, Sequences, SequencesExt

CONSTANTS
  Base,       \* A register of the time counts from 0 to Base - 1
  SleepMax,   \* Bound of the ticks to sleep
  TicksMax    \* Bound of the ticks, where they stop counting

ASSUME ClockAssumption ==
  /\ Base \in Nat \ {0, 1}
  /\ SleepMax \in Nat /\ TicksMax \in Nat

VARIABLES
  time,       \* The RTC's registers of the time
  uip,        \* An update is in progress
  irq,        \* The update-ended interrupt is requested
  selected,   \* The CMOS register selected at port 0x70
  ticks,      \* PIT_TICKS
  last,       \* LAST_RTC_UPDATE
  at,         \* rtc(): the place in Accesses; 0 outside of a call
  data,       \* It has selected the register, and reads the data port next
  got,        \* What it has read
  answer,     \* What it returned last, and which register it took for B
  met,        \* History: the call met an update
  shown,      \* History: the times there were since the call began
  asleep,     \* sleep(): "no", "looks" at the ticks, or in "hlt"
  start,      \* The ticks when it began
  count       \* The ticks to sleep

rtcVars == <<at, data, got, answer, met>>
sleepVars == <<asleep, start, count>>
clockVars == <<time, uip, irq, selected, ticks, last, rtcVars, shown, sleepVars>>

Digits == 0 .. Base - 1

(* The register of each access of rtc(): twice, the end of an update and the *)
(* time; then the mode, in which the hours are to be understood.             *)
Accesses == <<"A", "lo", "hi", "A", "lo", "hi", "B">>

Never == [time |-> [lo |-> 0, hi |-> 0], mode |-> "none"]

ClockInit ==
  /\ time \in [lo : Digits, hi : Digits] /\ uip = FALSE /\ irq = FALSE
  /\ selected = "A" /\ ticks = 0 /\ last = 0
  /\ at = 0 /\ data = FALSE /\ got = <<>> /\ answer = Never
  /\ met = FALSE /\ shown = {}
  /\ asleep = "no" /\ start = 0 /\ count = 0

-----------------------------------------------------------------------------
(* The hardware *)

UpdateStarts ==
  /\ ~uip /\ ~irq
  /\ at # 0 => ~met
  /\ uip' = TRUE /\ met' = TRUE
  /\ UNCHANGED <<time, irq, selected, ticks, last, at, data, got, answer, shown, sleepVars>>

Carried(t) ==
  IF t.lo < Base - 1 THEN [t EXCEPT !.lo = @ + 1]
                     ELSE [lo |-> 0, hi |-> (t.hi + 1) % Base]

UpdateEnds ==
  /\ uip /\ uip' = FALSE /\ irq' = TRUE
  /\ time' = Carried(time) /\ shown' = shown \cup {time'}
  /\ UNCHANGED <<selected, ticks, last, rtcVars, sleepVars>>

(* What the data port may say.  Register C reads as 0 when the handler has   *)
(* read it; its bits at the place of B's mode bits are 0 always.             *)
DataPort ==
  CASE selected = "A" -> IF uip THEN {1} ELSE {0}
    [] selected = "C" -> {0}
    [] OTHER -> IF uip THEN Digits ELSE {time[selected]}

-----------------------------------------------------------------------------
(* Interrupt handlers; either ends a hlt. *)

Woken == IF asleep = "hlt" THEN "looks" ELSE asleep

pit_interrupt_handler ==
  /\ ticks' = IF ticks < TicksMax THEN ticks + 1 ELSE ticks
  /\ asleep' = Woken
  /\ UNCHANGED <<time, uip, irq, selected, last, rtcVars, shown, start, count>>

rtc_interrupt_handler ==
  /\ irq /\ irq' = FALSE
  /\ last' = ticks /\ selected' = "C"
  /\ asleep' = Woken
  /\ UNCHANGED <<time, uip, ticks, rtcVars, shown, start, count>>

-----------------------------------------------------------------------------
(* CMOS::rtc *)

Rtc ==
  /\ at = 0 /\ asleep = "no"
  /\ at' = 1 /\ data' = FALSE /\ got' = <<>>
  /\ met' = (uip \/ irq) /\ shown' = {time}
  /\ UNCHANGED <<time, uip, irq, selected, ticks, last, answer, sleepVars>>

Select ==
  /\ at # 0 /\ ~irq /\ ~data
  /\ selected' = Accesses[at] /\ data' = TRUE
  /\ UNCHANGED <<time, uip, irq, ticks, last, at, got, answer, met, shown, sleepVars>>

(* Mutant: the time is read once. *)
AgreesAnyhow(values) == TRUE

Agrees(values) == values[2] = values[5] /\ values[3] = values[6]

(* A wait goes on while an update does; a time that reads in two ways is     *)
(* read again.                                                               *)
Again(values) ==
  CASE Accesses[at] = "A" -> IF Last(values) = 1 THEN at ELSE at + 1
    [] at = 6 -> IF Agrees(values) THEN 7 ELSE 1
    [] OTHER -> at + 1

Access ==
  /\ at \in 1 .. 6 /\ ~irq /\ data /\ data' = FALSE
  /\ \E v \in DataPort :
       LET values == Append(SubSeq(got, 1, at - 1), v)
       IN got' = values /\ at' = Again(values)
  /\ UNCHANGED <<time, uip, irq, selected, ticks, last, answer, met, shown, sleepVars>>

HalfADayOff(t) == [t EXCEPT !.hi = (@ + Base \div 2) % Base]

(* The hours are converted from a 12-hour clock unless the byte says that    *)
(* they count to 24.  Register B says so, and C, which the handler selects   *)
(* when it comes after B was, does not.  (That C says BCD changes nothing of *)
(* a clock that is in BCD.)                                                  *)
Mode ==
  /\ at = 7 /\ ~irq /\ data /\ data' = FALSE /\ at' = 0
  /\ LET counted == [lo |-> got[5], hi |-> got[6]]
     IN answer' = [time |-> IF selected = "B" THEN counted ELSE HalfADayOff(counted),
                   mode |-> selected]
  /\ got' = <<>>
  /\ UNCHANGED <<time, uip, irq, selected, ticks, last, met, shown, sleepVars>>

-----------------------------------------------------------------------------
(* sync::sleep *)

Sleep ==
  /\ at = 0 /\ asleep = "no" /\ asleep' = "looks"
  /\ count' \in 1 .. SleepMax /\ ticks + count' <= TicksMax
  /\ start' = ticks
  /\ UNCHANGED <<time, uip, irq, selected, ticks, last, rtcVars, shown>>

(* Mutant: it ends at the very tick. *)
SlepExactly == ticks - start = count

Slept == ticks - start >= count

Look ==
  /\ asleep = "looks"
  /\ asleep' = IF Slept THEN "no" ELSE "hlt"
  /\ UNCHANGED <<time, uip, irq, selected, ticks, last, rtcVars, shown, start, count>>

Reading == Select \/ Access \/ Mode

ClockNext ==
  \/ UpdateStarts \/ UpdateEnds
  \/ pit_interrupt_handler \/ rtc_interrupt_handler
  \/ Rtc \/ Reading \/ Sleep \/ Look

(* The timer ticks, an update ends, interrupts are served and the caller     *)
(* goes on.                                                                  *)
ClockFairness ==
  /\ WF_clockVars(pit_interrupt_handler) /\ WF_clockVars(UpdateEnds)
  /\ WF_clockVars(rtc_interrupt_handler)
  /\ WF_clockVars(Reading) /\ WF_clockVars(Look)

ClockSpec == ClockInit /\ [][ClockNext]_clockVars /\ ClockFairness

-----------------------------------------------------------------------------
(* The six registers that rtc() reads are of one time that there was since   *)
(* it was called: never the digits of two times, of an update in progress,   *)
(* or of another register that the interrupt handler selected in between.    *)
(* That time is what it returns, but for a call that met an update and took  *)
(* register C for B after it: it returns the time half a day off.            *)
RtcReadsATime ==
  at = 0 /\ answer # Never =>
    \E t \in shown :
      \/ answer.mode = "B" /\ answer.time = t
      \/ answer.mode = "C" /\ met /\ answer.time = HalfADayOff(t)

(* What rtc() returns is a time that there was since it was called: "Read    *)
(* twice the RTC, discard the result and try again if the reads happened     *)
(* during an update" (cmos.rs:31).  It is not: register B is read once.      *)
RtcReturnsATime == at = 0 /\ answer # Never => answer.time \in shown

(* A sleep ends, also when the tick it waits for comes after it looked and   *)
(* before it halts, or two come at once.                                     *)
SleepEnds == (asleep # "no") ~> (asleep = "no")
=============================================================================
