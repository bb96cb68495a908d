-------------------------------- MODULE Chrono --------------------------------
(***************************************************************************)
(* Chrono.cpp: class Date, the day numbers and the conversions to and from *)
(* seconds and MySQL.                                                      *)
(*                                                                         *)
(* A Date object has three fields and is changed by its setters only; each *)
(* one throws and leaves the object alone when the result is no date.      *)
(* Day numbers start with 1 at 1 January 1970 and go down from -1 at       *)
(* 31 December 1969.  Dates stay far from the ends of int.                 *)
(***************************************************************************)
EXTENDS Integers

CONSTANTS
  Years,   \* bound: years of the dates the object takes
  Spans    \* arguments of more_days

ASSUME ChronoConstants ==
  /\ Years \subseteq Int
  /\ Spans \subseteq Int

VARIABLES
  date,     \* a Date object
  raised    \* did the last call throw Date::invalid?

vars == <<date, raised>>

-----------------------------------------------------------------------------
LeapYear(y) == (y % 4 = 0 /\ y % 100 # 0) \/ y % 400 = 0

DaysInMonth(m, y) ==
  IF m \in {4, 6, 9, 11} THEN 30
  ELSE IF m = 2 THEN IF LeapYear(y) THEN 29 ELSE 28
  ELSE 31

DaysInYear(y) == IF LeapYear(y) THEN 366 ELSE 365

IsDate(d, m, y) == m \in 1..12 /\ d \in 1..DaysInMonth(m, y)

Date(d, m, y) == [d |-> d, m |-> m, y |-> y]

Valid(a) == IsDate(a.d, a.m, a.y)

\* What is left when Date::invalid is thrown: no date.
Invalid == Date(0, 0, 0)

\* The constructor.
NewDate(d, m, y) == IF IsDate(d, m, y) THEN Date(d, m, y) ELSE Invalid

\* Mutant: the months are not looked at when the years differ.
BeforeByYear(a, b) ==
  \/ a.y < b.y
  \/ a.m < b.m
  \/ a.m = b.m /\ a.d < b.d

\* operator<, that is !(a > b || a == b).
Before(a, b) ==
  \/ a.y < b.y
  \/ a.y = b.y /\ a.m < b.m
  \/ a.y = b.y /\ a.m = b.m /\ a.d < b.d

-----------------------------------------------------------------------------
(* Day numbers.  Each loop of the code is a function of the two variables it  *)
(* changes: a month or a year, and the days.                                  *)
Loop == Int \X Int

\* The loops of date_to_days from 1970 on: days += for the months before, and for
\* the years from y down to 1971, not from y - 1 to 1970.
AddMonths(y) ==
  LET loop[p \in Loop] ==
        IF p[1] >= 1 THEN loop[<<p[1] - 1, p[2] + DaysInMonth(p[1], y)>>] ELSE p
  IN  loop

AddYears[p \in Loop] ==
  IF p[1] > 1970 THEN AddYears[<<p[1] - 1, p[2] + DaysInYear(p[1])>>] ELSE p

\* Those before 1970: days -= for the months from 12 down to m, and for the years
\* after y.
TakeMonths(y, m) ==
  LET loop[p \in Loop] ==
        IF p[1] >= m THEN loop[<<p[1] - 1, p[2] - DaysInMonth(p[1], y)>>] ELSE p
  IN  loop

TakeYears[p \in Loop] ==
  IF p[1] < 1970 THEN TakeYears[<<p[1] + 1, p[2] - DaysInYear(p[1])>>] ELSE p

\* Mutant: the days of the date's own month are added too.
DateToDaysWholeMonth(a) ==
  IF a.y >= 1970
  THEN AddYears[<<a.y, AddMonths(a.y)[<<a.m, a.d>>][2]>>][2]
  ELSE TakeYears[<<a.y + 1, TakeMonths(a.y, a.m)[<<12, a.d - 1>>][2]>>][2]

DateToDays(a) ==
  IF a.y >= 1970
  THEN AddYears[<<a.y, AddMonths(a.y)[<<a.m - 1, a.d>>][2]>>][2]
  ELSE TakeYears[<<a.y + 1, TakeMonths(a.y, a.m)[<<12, a.d - 1>>][2]>>][2]

\* The loops of days_to_date: to the year, and to the month in it, upwards from
\* the epoch and downwards before it.
YearUp[p \in Loop] ==
  IF p[2] > DaysInYear(p[1]) THEN YearUp[<<p[1] + 1, p[2] - DaysInYear(p[1])>>] ELSE p

YearDown[p \in Loop] ==
  IF p[2] < -DaysInYear(p[1]) THEN YearDown[<<p[1] - 1, p[2] + DaysInYear(p[1])>>] ELSE p

MonthUp(y) ==
  LET loop[p \in Loop] ==
        IF p[2] > DaysInMonth(p[1], y)
        THEN loop[<<p[1] + 1, p[2] - DaysInMonth(p[1], y)>>] ELSE p
  IN  loop

\* The days of the last month looked at are still to be added.
MonthDown(y) ==
  LET loop[p \in Loop] ==
        IF p[2] + DaysInMonth(p[1], y) < 0 /\ p[1] > 0
        THEN loop[<<p[1] - 1, p[2] + DaysInMonth(p[1], y)>>] ELSE p
  IN  loop

\* Mutant: add_day(days) for add_day(days + 1) before the epoch (line 270).
DaysToDateShort(n) ==
  LET year  == IF n >= 0 THEN YearUp[<<1970, n>>] ELSE YearDown[<<1969, n>>]
      month == IF n >= 0 THEN MonthUp(year[1])[<<1, year[2]>>]
                         ELSE MonthDown(year[1])[<<12, year[2]>>]
      day   == IF n >= 0 THEN month[2]
                         ELSE month[2] + DaysInMonth(month[1], year[1])
  IN  NewDate(day, month[1], year[1])

\* days_to_date; day 0 is no day, add_day throws.
DaysToDate(n) ==
  LET year  == IF n >= 0 THEN YearUp[<<1970, n>>] ELSE YearDown[<<1969, n>>]
      month == IF n >= 0 THEN MonthUp(year[1])[<<1, year[2]>>]
                         ELSE MonthDown(year[1])[<<12, year[2]>>]
      day   == IF n >= 0 THEN month[2]
                         ELSE month[2] + DaysInMonth(month[1], year[1]) + 1
  IN  NewDate(day, month[1], year[1])

\* The C++ division truncates towards zero, \div rounds down.
Quotient(a, b) == IF a >= 0 THEN a \div b ELSE -((-a) \div b)

DaySeconds == 86400

DaysToSec(n) == IF n >= 0 THEN (n - 1) * DaySeconds ELSE (n + 1) * DaySeconds - 1

\* Mutant: the day is not counted from 1.
SecToDaysFromZero(s) ==
  IF s >= 0 THEN Quotient(s, DaySeconds) ELSE Quotient(s, DaySeconds) - 1

SecToDays(s) ==
  IF s >= 0 THEN Quotient(s, DaySeconds) + 1 ELSE Quotient(s, DaySeconds) - 1

SecToDate(s) == DaysToDate(SecToDays(s))

-----------------------------------------------------------------------------
(* MySQL: the three numbers of the text yyyy-mm-dd. *)

DateToMysql(a) == <<a.y, a.m, a.d>>

\* Mutant: the day is read from date[1] too.
DateFromMysqlMonth(t) == NewDate(t[2], t[2], t[2])

\* The third argument of the constructor is date[1], the month (line 320).
DateFromMysql(t) == NewDate(t[3], t[2], t[2])

-----------------------------------------------------------------------------
Dates == {a \in [d : 1..31, m : 1..12, y : Years] : Valid(a)}

Init == date \in Dates /\ raised = FALSE

\* The object becomes a, or a call that finds no date throws and leaves it.
Become(a) ==
  IF Valid(a) THEN /\ a.y \in Years
                   /\ date' = a /\ raised' = FALSE
              ELSE /\ raised' = TRUE /\ UNCHANGED date

AddDay(n) == Become([date EXCEPT !.d = n])

\* Mutant: the month is checked, the day of the new month is not.
AddMonthUnchecked(n) ==
  /\ n \in 1..12
  /\ date' = [date EXCEPT !.m = n]
  /\ raised' = FALSE

AddMonth(n) == Become([date EXCEPT !.m = n])

AddYear(n) == Become([date EXCEPT !.y = n])

MoreDays(n) == Become(DaysToDate(DateToDays(date) + n))

Next ==
  \/ \E n \in 0..32 : AddDay(n)
  \/ \E n \in 0..13 : AddMonth(n)
  \/ \E n \in Years : AddYear(n)
  \/ \E n \in Spans : MoreDays(n)

Spec == Init /\ [][Next]_vars

-----------------------------------------------------------------------------
(* The calendar, counted without loops: the day after a date has the next     *)
(* ordinal, and 1 January 1970 has ordinal 1.                                 *)
Ordinal(a) ==
  LET y == a.y - 1
      year == 365 * y + y \div 4 - y \div 100 + y \div 400
      month == <<0, 31, 59, 90, 120, 151, 181, 212, 243, 273, 304, 334>>[a.m]
      leap == IF a.m > 2 /\ LeapYear(a.y) THEN 1 ELSE 0
  IN  year + month + leap + a.d - 719162

\* The number Chrono gives the day with an ordinal: there is no day 0.
DayNumber(n) == IF n > 0 THEN n ELSE n - 1

\* The class invariant: no sequence of calls, whether they throw or not, leaves
\* an object that is_date rejects.
TypeOK == Valid(date) /\ date.y \in Years /\ raised \in BOOLEAN

\* days_to_date names the right day for every day number, on both sides of the
\* epoch.
DayIsRight == DaysToDate(DayNumber(Ordinal(date))) = date

\* From 1970 on, every second of a day, the first and the last too, is that day:
\* "today" in the program is right whatever the time.
TodayIsRight ==
  date.y >= 1970 =>
    \A s \in {0, 1, DaySeconds - 1} :
      SecToDate((Ordinal(date) - 1) * DaySeconds + s) = date

\* A date that is n days later, n > 0, is greater, and its day number is not
\* less: comparing due dates and subtracting day numbers never contradict.
OrderIsTime ==
  \A n \in Spans : n > 0 =>
    LET later == DaysToDate(DayNumber(Ordinal(date) + n))
    IN  /\ Before(date, later) /\ ~Before(later, date)
        /\ DateToDays(date) <= DateToDays(later)

\* date_from_mysql loses no day and no month, and throws on 29 February only,
\* of any year: such a row of patrons cannot be read (Patron.cpp:278-286).
DayIsReadBack ==
  LET read == DateFromMysql(DateToMysql(date))
  IN  IF date.d = 29 /\ date.m = 2 THEN read = Invalid
      ELSE read.d = date.d /\ read.m = date.m

\* more_days(n) that does not cross the epoch moves the date n days, and one
\* day more when it starts in a leap year from 1970 on; it never throws.
MoreDaysIsCloseToExact ==
  [][\A n \in Spans :
       /\ MoreDays(n)
       /\ (Ordinal(date) > 0) = (Ordinal(date) + n > 0)
       => LET late == IF date.y >= 1970 /\ LeapYear(date.y) THEN 1 ELSE 0
          IN  ~raised' /\ Ordinal(date') = Ordinal(date) + n + late]_vars

(* What Chrono.h says, and the code does not do. *)

\* more_days "adds the given number of days to the date" (Chrono.h:34), here
\* within the years from 1970 on.
MoreDaysAddsDays ==
  [][\A n \in Spans :
       MoreDays(n) /\ ~raised' => Ordinal(date') = Ordinal(date) + n]_vars

\* A date written to MySQL and read back has its year (Chrono.h:26).
YearIsReadBack == DateFromMysql(DateToMysql(date)).y = date.y
=============================================================================
