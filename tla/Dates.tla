-------------------------------- MODULE Dates --------------------------------
(***************************************************************************)
(* The calendar of src/src/Date.cc: the successor of a date, the first of a  *)
(* month a month later, the numbers by which dates are subtracted, and which *)
(* dates can be written. A calendar on the wall walks from one day to the     *)
(* next and counts the days, which is what the arithmetic is held against.   *)
(***************************************************************************)
EXTENDS Integers

CONSTANTS
  FirstDates,  \* the days on which the walk may start
  MaxDays      \* bound: the days of a walk

VARIABLES
  first,    \* a date: that of a backup, say
  day,      \* Date::today()
  elapsed   \* history: the days that have passed since then

calendar == <<first, day, elapsed>>

-----------------------------------------------------------------------------
(* mday: the days of a year that is no leap year before each month.          *)
MDay == <<0, 31, 59, 90, 120, 151, 181, 212, 243, 273, 304, 334, 365>>

IsLeapYear(y) == y % 4 = 0 /\ (y % 100 # 0 \/ y % 400 = 0)

MonthLength(y, m) ==
  MDay[m + 1] - MDay[m] + (IF m = 2 /\ IsLeapYear(y) THEN 1 ELSE 0)

(* operator=: what is read is a date if its parts are in range.              *)
Accepts(y, m, d) ==
  /\ y >= 1
  /\ m >= 1 /\ m <= 12
  /\ d >= 1 /\ d <= MonthLength(y, m)

Date == {t \in [y : Nat, m : 1 .. 12, d : 1 .. 31] : Accepts(t.y, t.m, t.d)}

ASSUME CalendarAssumption ==
  /\ FirstDates \subseteq Date
  /\ MaxDays \in Nat

(* operator++                                                               *)
Successor(t) ==
  IF t.d < MonthLength(t.y, t.m) THEN [y |-> t.y, m |-> t.m, d |-> t.d + 1]
  ELSE IF t.m < 12 THEN [y |-> t.y, m |-> t.m + 1, d |-> 1]
  ELSE [y |-> t.y + 1, m |-> 1, d |-> 1]

(* addMonth()                                                               *)
AddMonth(t) ==
  LET y == IF t.m < 12 THEN t.y ELSE t.y + 1
      m == IF t.m < 12 THEN t.m + 1 ELSE 1
      length == MonthLength(y, m)
  IN  [y |-> y, m |-> m, d |-> IF t.d < length THEN t.d ELSE length]

(* Faulty: the days of a leap year are numbered as those of any other.       *)
NumberWithoutLeapDay(t) ==
  365 * t.y + t.y \div 4 - t.y \div 100 + t.y \div 400 + MDay[t.m] + t.d - 1

(* toNumber(): the leap days of the years up to this one, this one included,   *)
(* from its first day on.                                                   *)
Number(t) ==
  365 * t.y + t.y \div 4 - t.y \div 100 + t.y \div 400
    + MDay[t.m] + (IF t.m > 2 /\ IsLeapYear(t.y) THEN 1 ELSE 0) + t.d - 1

(* operator- and operator<                                                  *)
Minus(t, u) == Number(t) - Number(u)

Before(t, u) ==
  \/ t.y < u.y
  \/ t.y = u.y /\ t.m < u.m
  \/ t.y = u.y /\ t.m = u.m /\ t.d < u.d

-----------------------------------------------------------------------------
CalendarInit ==
  /\ first \in FirstDates
  /\ day = first
  /\ elapsed = 0

(* Midnight.                                                                *)
NextDay ==
  /\ elapsed < MaxDays
  /\ day' = Successor(day)
  /\ elapsed' = elapsed + 1
  /\ UNCHANGED first

WalkEnds == elapsed = MaxDays /\ UNCHANGED calendar

CalendarNext == NextDay \/ WalkEnds

CalendarSpec == CalendarInit /\ [][CalendarNext]_calendar

-----------------------------------------------------------------------------
(* Only dates are walked through, and only they can be written;              *)
CalendarTypeOK ==
  /\ first \in FirstDates /\ day \in Date /\ elapsed \in 0 .. MaxDays

(* a day is later than the days before it;                                   *)
InOrder ==
  /\ elapsed = 0 <=> day = first
  /\ elapsed > 0 => Before(first, day)
  /\ Before(day, Successor(day))

(* a month later is in the next month, on the same day or its last.          *)
MonthLater ==
  LET next == AddMonth(day)
  IN  /\ next \in Date
      /\ next.m = (day.m % 12) + 1
      /\ Before(day, next)
      /\ next.d = day.d \/ (next.d < day.d /\ Successor(next).d = 1)

(* A date less another is the days between them, but for this: the leap day    *)
(* of a year counts from the first of its January, and once more from March.  *)
LeapDay(t) == IF IsLeapYear(t.y) THEN 1 ELSE 0

DifferenceIsDays ==
  Minus(day, first) = elapsed + LeapDay(day) - LeapDay(first)

(* The arithmetic of dates: valid, in order, and off by the leap day of the   *)
(* year alone, so that days never run backwards.                            *)
CalendarRight ==
  /\ InOrder /\ MonthLater /\ DifferenceIsDays
  /\ elapsed > 0 => Minus(day, first) >= 0
=============================================================================
