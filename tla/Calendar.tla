------------------------------ MODULE Calendar -----------------------------
(***************************************************************************)
(* The arithmetic of sys/clk: numbers to the RTC's registers and back      *)
(* (cmos.rs), in 24 hour format, and dates to days since 1970 (epoch.rs).  *)
(* The state is a date that walks day by day over the RTC's century.       *)
(***************************************************************************)
EXTENDS Integers, FiniteSetsExt

CONSTANTS
  RTC_CENTURY,    \* 2000
  YearMax         \* Bound of the walk: the last year of the century

ASSUME CalendarAssumption ==
  RTC_CENTURY \in Nat /\ RTC_CENTURY >= 1970 /\ YearMax \in 0 .. 99

VARIABLES
  date,      \* [year, month, day]
  passed     \* History: the days since 1970-01-01

calendarVars == <<date, passed>>

-----------------------------------------------------------------------------
(* cmos.rs: what a register holds and what is read of it.  Bit 2 of register *)
(* B says whether it is binary or BCD.                                       *)

Byte(x) == x % 256

update_rtc(x, bcd) == Byte(IF bcd THEN 16 * (x \div 10) + (x % 10) ELSE x)

(* Mutant: the tens are not multiplied. *)
rtc_tens_lost(r, bcd) == IF bcd THEN (r % 16) + r \div 16 ELSE r

rtc(r, bcd) == IF bcd THEN (r % 16) + (r \div 16) * 10 ELSE r

-----------------------------------------------------------------------------
(* epoch.rs *)

is_leap_year(y) ==
  CASE y % 4 # 0 -> FALSE
    [] y % 4 = 0 /\ y % 100 # 0 -> TRUE
    [] OTHER -> y % 400 = 0

days_before_year(y) == 365 * (y - 1970) + Quantify(1970 .. y - 1, is_leap_year)

DAYS_BEFORE_MONTH == <<0, 31, 59, 90, 120, 151, 181, 212, 243, 273, 304, 334, 365>>

(* Mutant: February of a leap year has its day at its beginning. *)
days_before_month_leap(y, m) ==
  DAYS_BEFORE_MONTH[m] + (IF is_leap_year(y) /\ m > 1 THEN 1 ELSE 0)

days_before_month(y, m) ==
  DAYS_BEFORE_MONTH[m] + (IF is_leap_year(y) /\ m > 2 THEN 1 ELSE 0)

epoch_days(d) == days_before_year(d.year) + days_before_month(d.year, d.month) + d.day - 1

-----------------------------------------------------------------------------
(* The RTC's date from one day to the next, which is the hardware's work and *)
(* the reference for the arithmetic.                                         *)
LeapYear(y) == (y % 4 = 0 /\ y % 100 # 0) \/ y % 400 = 0

MonthDays(y, m) ==
  CASE m = 2 -> IF LeapYear(y) THEN 29 ELSE 28
    [] m \in {4, 6, 9, 11} -> 30
    [] OTHER -> 31

NextDate(d) ==
  IF d.day < MonthDays(d.year, d.month)
  THEN [d EXCEPT !.day = @ + 1]
  ELSE IF d.month < 12
       THEN [d EXCEPT !.day = 1, !.month = @ + 1]
       ELSE [year |-> d.year + 1, month |-> 1, day |-> 1]

CalendarInit ==
  /\ date = [year |-> RTC_CENTURY, month |-> 1, day |-> 1]
  /\ passed = 365 * (RTC_CENTURY - 1970) + Quantify(1970 .. RTC_CENTURY - 1, LeapYear)

NextDay ==
  /\ NextDate(date).year <= RTC_CENTURY + YearMax
  /\ date' = NextDate(date) /\ passed' = passed + 1

-----------------------------------------------------------------------------
RegistersOf(d, bcd) ==
  [year |-> update_rtc(d.year - RTC_CENTURY, bcd),
   month |-> update_rtc(d.month, bcd), day |-> update_rtc(d.day, bcd)]

ReadBack(r, bcd) ==
  [year |-> RTC_CENTURY + rtc(r.year, bcd), month |-> rtc(r.month, bcd), day |-> rtc(r.day, bcd)]

(* rtc.rs: /dev/clk/rtc, of which the text has the length and the form of a  *)
(* date.  What is written of a date, if it is of the century, and what is    *)
(* read, if it is a date.                                                    *)

write(d, bcd) ==
  IF d.year < RTC_CENTURY \/ d.year > RTC_CENTURY + 99 THEN {} ELSE {RegistersOf(d, bcd)}

read(r, bcd) ==
  {d \in {ReadBack(r, bcd)} : d.month \in 1 .. 12 /\ d.day \in 1 .. MonthDays(d.year, d.month)}

(* A date of the century can be set in the RTC and counts as its own day     *)
(* when it is read: the bytes of its registers keep it, in binary and in     *)
(* BCD, and the days since 1970 that are made of it skip no day and count    *)
(* none twice, in every month.                                               *)
DateCounts ==
  \A bcd \in BOOLEAN :
     \E r \in write(date, bcd) :
        \E d \in read(r, bcd) : d = date /\ epoch_days(d) = passed
=============================================================================
