------------------------------ MODULE Calendar ------------------------------
(***************************************************************************)
(* The calendar arithmetic of date.h: days since 1970-01-01 and the fields  *)
(* of a date in the proleptic Gregorian calendar, in eras of 400 years that *)
(* begin in March; weekdays; months; the time of day.  Years are signed, of *)
(* 16 bits, and days and months unsigned, of 8: the casts to them wrap.     *)
(* A date is [y, m, d]; a time of day is [neg, h, m, s, mode], s in ticks.   *)
(***************************************************************************)
EXTENDS Integers, Sequences, SequencesExt

CONSTANTS
  Ticks,     \* of the clock, in a second
  Sub        \* decimals of a second; Ticks = 10^Sub

\* The division of C++, which cuts towards zero.
Cut(a, b) == IF a >= 0 THEN a \div b ELSE -((-a) \div b)
Short(n)  == ((n + 32768) % 65536) - 32768
Char(n)   == n % 256

Date(y, m, d) == [y |-> Short(y), m |-> Char(m), d |-> Char(d)]
nanyear       == -32768
-----------------------------------------------------------------------------
(* Rounding a number of ticks n to units of `to' ticks. *)

Trunc(n, to) == Cut(n, to)
Floor(n, to) == IF Trunc(n, to) * to > n THEN Trunc(n, to) - 1 ELSE Trunc(n, to)
Round(n, to) ==
  LET Nearest(t0) ==
        LET d0 == n - (t0 * to)
            d1 == ((t0 + 1) * to) - n
        IN IF d0 = d1 THEN (IF t0 - (Cut(t0, 2) * 2) = 0 THEN t0 ELSE t0 + 1)
           ELSE IF d0 < d1 THEN t0 ELSE t0 + 1
  IN Nearest(Floor(n, to))
Ceil(n, to) == IF Trunc(n, to) * to < n THEN Trunc(n, to) + 1 ELSE Trunc(n, to)
-----------------------------------------------------------------------------
(* Months, years, weekdays. *)

MonthOk(m) == m \in 1..12
YearOk(y)  == y # nanyear
\* Every century is taken for a year without a leap day.
IsLeapCentury(y) == y % 4 = 0 /\ y % 100 # 0
IsLeap(y) == y % 4 = 0 /\ (y % 100 # 0 \/ y % 400 = 0)

\* month + months: around the year.
PlusMonths(m, n) ==
  LET mu == m + (n - 1)
      yr == Cut(IF mu >= 0 THEN mu ELSE mu - 11, 12)
  IN mu - (yr * 12) + 1

\* month - month: the difference is unsigned.
MinusMonth(x, y) == IF x >= y THEN x - y ELSE x - y + 12

\* year_month + months.
YearMonthPlus(y, m, n) ==
  LET dmi == m - 1 + n
      dy  == Cut(IF dmi >= 0 THEN dmi ELSE dmi - 11, 12)
  IN [y |-> Short(y + dy), m |-> dmi - (dy * 12) + 1]
YearMonthMinus(a, b) == ((a.y - b.y) * 12) + (a.m - b.m)

WeekdayFromDays(z) == IF z >= -4 THEN (z + 4) % 7 ELSE (z + 5) - (Cut(z + 5, 7) * 7) + 6
MinusWeekday(a, b) ==
  LET n == a - b IN n - (Cut(IF n >= 0 THEN n ELSE n - 6, 7) * 7)
PlusWeekday(w, n) ==
  LET u == w + n IN u - (Cut(IF u >= 0 THEN u ELSE u - 6, 7) * 7)
WeekdayOk(w) == w <= 6
-----------------------------------------------------------------------------
(* Dates. *)

\* The most a month of some year has: month_day::ok.
MonthDayOk(m, d) ==
  MonthOk(m) /\ d >= 1 /\ d <= << 31, 29, 31, 30, 31, 30, 31, 31, 30, 31, 30, 31 >>[m]

\* year_month_day_last::day
LastDay(y, m) ==
  IF m # 2 \/ ~IsLeap(y) THEN << 31, 28, 31, 30, 31, 30, 31, 31, 30, 31, 30, 31 >>[m] ELSE 29

DateOk(x) == YearOk(x.y) /\ MonthOk(x.m) /\ x.d >= 1 /\ x.d <= LastDay(x.y, x.m)

ToDays(x) ==
  LET y   == IF x.m <= 2 THEN x.y - 1 ELSE x.y
      era == Cut(IF y >= 0 THEN y ELSE y - 399, 400)
      yoe == y - (era * 400)
      doy == (((153 * (IF x.m > 2 THEN x.m - 3 ELSE x.m + 9)) + 2) \div 5) + x.d - 1
      doe == (yoe * 365) + (yoe \div 4) - (yoe \div 100) + doy
  IN (era * 146097) + doe - 719468

FromDays(dp) ==
  LET z   == dp + 719468
      era == Cut(IF z >= 0 THEN z ELSE z - 146096, 146097)
      MonthOf(y, doy, mp) ==
        LET m == IF mp < 10 THEN mp + 3 ELSE mp - 9
        IN Date(y + (IF m <= 2 THEN 1 ELSE 0), m, doy - (((153 * mp) + 2) \div 5) + 1)
      OfYear(y, doy) == MonthOf(y, doy, ((5 * doy) + 2) \div 153)
      YearOf(doe, yoe) ==
        OfYear(yoe + (era * 400), doe - ((365 * yoe) + (yoe \div 4) - (yoe \div 100)))
      OfEra(doe) ==
        YearOf(doe, (doe - (doe \div 1460) + (doe \div 36524) - (doe \div 146096)) \div 365)
  IN OfEra(z - (era * 146097))

\* The index-th weekday of a month: year_month_weekday.
IndexedOk(y, m, wd, index) ==
  /\ YearOk(y) /\ MonthOk(m) /\ WeekdayOk(wd) /\ index >= 1
  /\ \/ index <= 4
     \/ MinusWeekday(wd, WeekdayFromDays(ToDays(Date(y, m, 1)))) + ((index - 1) * 7) + 1
          <= LastDay(y, m)
IndexedFromDays(z) ==
  LET x == FromDays(z)
  IN [y |-> x.y, m |-> x.m, wd |-> WeekdayFromDays(z), index |-> ((x.d - 1) \div 7) + 1]
IndexedToDays(y, m, wd, index) ==
  LET From(first) == first + MinusWeekday(wd, WeekdayFromDays(first)) + ((index - 1) * 7)
  IN From(ToDays(Date(y, m, 1)))

\* The last such weekday of a month: year_month_weekday_last.
LastToDays(y, m, wd) ==
  LET From(end) == end - MinusWeekday(WeekdayFromDays(end), wd)
  IN From(ToDays(Date(y, m, LastDay(y, m))))
-----------------------------------------------------------------------------
(* The time of day. *)

\* time_of_day of a signed number of ticks since midnight.
TimeOfDay(t) ==
  LET a == IF t >= 0 THEN t ELSE -t
      h == Cut(a, 3600 * Ticks)
      m == Cut(a - (h * 3600 * Ticks), 60 * Ticks)
  IN [neg |-> t < 0, h |-> h, m |-> m, s |-> a - (((h * 60) + m) * 60 * Ticks), mode |-> "24"]

To24(tod) ==
  CASE tod.mode = "pm" -> IF tod.h # 12 THEN tod.h + 12 ELSE 12
    [] tod.mode = "am" -> IF tod.h = 12 THEN 0 ELSE tod.h
    [] OTHER -> tod.h
Make24(tod) == [tod EXCEPT !.h = To24(tod), !.mode = "24"]
Make12(tod) ==
  IF tod.mode # "24" THEN tod
  ELSE IF tod.h >= 12 THEN [tod EXCEPT !.h = IF tod.h > 12 THEN @ - 12 ELSE @, !.mode = "pm"]
  ELSE [tod EXCEPT !.h = IF @ = 0 THEN 12 ELSE @, !.mode = "am"]

ToDuration(tod) ==
  LET n == (((To24(tod) * 60) + tod.m) * 60 * Ticks) + tod.s IN IF tod.neg THEN -n ELSE n

InConventionalRange(tod) == ~tod.neg /\ tod.h < 24 /\ tod.m < 60 /\ tod.s < 60 * Ticks
-----------------------------------------------------------------------------
(* What the calendar promises, for the day z. *)

\* The day behind a date, by the rules of the calendar.
Tomorrow(x) ==
  IF x.d < LastDay(x.y, x.m) THEN [x EXCEPT !.d = @ + 1]
  ELSE IF x.m < 12 THEN Date(x.y, x.m + 1, 1) ELSE Date(x.y + 1, 1, 1)

\* from_days and to_days are inverse, follow the calendar from one day to the
\* next, over the ends of months, leap years, centuries and eras, on both sides
\* of year 0, and the weekdays go round with them; the other names of a day,
\* counted by weekdays from the first or the last of the month, name it too.
DaySound(z) ==
  \A x \in {FromDays(z)}, w \in {WeekdayFromDays(z)}, i \in {IndexedFromDays(z)} :
     /\ DateOk(x) /\ MonthDayOk(x.m, x.d)
     /\ ToDays(x) = z
     /\ FromDays(z + 1) = Tomorrow(x)
     /\ w \in 0..6 /\ WeekdayFromDays(z + 1) = PlusWeekday(w, 1)
     /\ \A n \in -9..9 : /\ PlusWeekday(w, n) = WeekdayFromDays(z + n)
                         /\ PlusWeekday(PlusWeekday(w, n), MinusWeekday(w, PlusWeekday(w, n))) = w
     /\ IndexedOk(i.y, i.m, i.wd, i.index) /\ IndexedToDays(i.y, i.m, i.wd, i.index) = z
     /\ \A l \in {LastToDays(x.y, x.m, w)} :
           /\ l - z \in {0, 7, 14, 21, 28} /\ FromDays(l).m = x.m
           /\ IndexedOk(x.y, x.m, w, i.index + ((l - z) \div 7))
           /\ ~IndexedOk(x.y, x.m, w, i.index + ((l - z) \div 7) + 1)

\* Adding months goes round the year, carries into it, and is undone by the
\* difference.
MonthsSound(x, n) ==
  LET t == YearMonthPlus(x.y, x.m, n)
  IN /\ t.m = PlusMonths(x.m, n) /\ MonthOk(t.m)
     /\ YearMonthMinus(t, x) = n
     /\ YearMonthPlus(t.y, t.m, -n) = [y |-> x.y, m |-> x.m]
     /\ PlusMonths(x.m, MinusMonth(t.m, x.m)) = t.m

\* A signed number of ticks survives its split into hours, minutes and seconds
\* and the change between a clock of 12 and of 24 hours; the roundings of it to a
\* unit lie where they should, the nearest one even on a tie.
TimeSound(t) ==
  \A tod \in {TimeOfDay(t)} :
     /\ ToDuration(tod) = t /\ ToDuration(Make12(tod)) = t
     /\ Make24(Make12(tod)) = tod
     /\ (t \in 0 .. (86400 * Ticks) - 1) => InConventionalRange(tod) /\ Make12(tod).h \in 1..12
     /\ \A to \in {2, 60 * Ticks} :
          \A f \in {Floor(t, to)}, c \in {Ceil(t, to)}, r \in {Round(t, to)} :
             /\ f * to <= t /\ t < (f + 1) * to /\ c = -Floor(-t, to)
             /\ r \in {f, c} /\ 2 * (t - (r * to)) \in -to..to
             /\ 2 * (t - (f * to)) = to => r % 2 = 0
-----------------------------------------------------------------------------
(***************************************************************************)
(* to_stream and from_stream of date.h: a date and a time of day written    *)
(* under a format, and read under one.  This is the build with              *)
(* ONLY_C_LOCALE, in which the library itself writes and reads the names.   *)
(*                                                                          *)
(* A text is a sequence of characters, strings of length one; the name of a *)
(* weekday, of a month, AM and PM are single symbols.  Decimal fractions of *)
(* a second are exact, in place of long double.  What is written or read is *)
(*   [ymd, wd, tod, has]     (struct fields)                                *)
(***************************************************************************)

weekday_names == << "Sunday", "Monday", "Tuesday", "Wednesday", "Thursday", "Friday", "Saturday" >>
short_weekdays == << "Sun", "Mon", "Tue", "Wed", "Thu", "Fri", "Sat" >>
month_names == << "January", "February", "March", "April", "May", "June", "July", "August",
                  "September", "October", "November", "December" >>
short_months == << "Jan", "Feb", "Mar", "Apr", "May", "Jun", "Jul", "Aug", "Sep", "Oct", "Nov",
                   "Dec" >>
ampm_names == << "AM", "PM" >>

Digit     == << "0", "1", "2", "3", "4", "5", "6", "7", "8", "9" >>
DigitSet  == ToSet(Digit)
Value(c)  == CHOOSE n \in 0..9 : Digit[n + 1] = c
Blanks    == {" ", "\t", "\n"}
NotInZone == Blanks \cup {":", ".", ",", "%"}

\* A number in decimal; and in a field of w, filled on the left of any sign.
Decimal(n) ==
  LET k == CHOOSE k \in 1..9 : n < 10^k /\ (k = 1 \/ n >= 10^(k - 1))
  IN [i \in 1..k |-> Digit[((n \div (10^(k - i))) % 10) + 1]]
Signed(n) == IF n < 0 THEN << "-" >> \o Decimal(-n) ELSE Decimal(n)
Field(n, w, fill) ==
  LET In(t) == [i \in 1 .. (IF Len(t) < w THEN w - Len(t) ELSE 0) |-> fill] \o t
  IN In(Signed(n))
Pad(n, w) == Field(n, w, "0")

NoFields == [ymd |-> Date(nanyear, 0, 0), wd |-> 8, tod |-> TimeOfDay(0), has |-> FALSE]
-----------------------------------------------------------------------------
(* Writing.  A case of the switch gives what it writes, and whether it can:  *)
(* after a failure nothing more is written.                                  *)

Put(ok, out) == [ok |-> ok, out |-> IF ok THEN out ELSE << >>]

\* os << year, os << seconds, os << time_of_day.
OutYear(y) == IF y < 0 THEN << "-" >> \o Pad(-y, 4) ELSE Pad(y, 4)
OutSeconds(s) == Pad(s \div Ticks, 2) \o (IF Sub = 0 THEN << >> ELSE << "." >> \o Pad(s % Ticks, Sub))
OutTod(t) ==
  (IF t.neg THEN << "-" >> \o Pad(t.h, 2) ELSE Pad(t.h, 2))
  \o << ":" >> \o Pad(t.m, 2) \o << ":" >> \o OutSeconds(t.s)

\* 8: the fields hold no weekday, or one that contradicts the date.
extract_weekday(f) ==
  IF ~DateOk(f.ymd) THEN (IF WeekdayOk(f.wd) THEN f.wd ELSE 8)
  ELSE LET w == WeekdayFromDays(ToDays(f.ymd))
       IN IF WeekdayOk(f.wd) /\ w # f.wd THEN 8 ELSE w
extract_month(f) == IF MonthOk(f.ymd.m) THEN f.ymd.m ELSE 0

\* The Monday on which ISO year y begins; the ISO year and week of the day ld.
IsoStart(y) == LastToDays(Short(y - 1), 12, 4) + MinusWeekday(1, 4)
IsoYear(ld) ==
  LET At(y) == IF ld < IsoStart(y) THEN Short(y - 1) ELSE y IN At(FromDays(ld + 3).y)
IsoWeek(ld) == Cut(ld - IsoStart(IsoYear(ld)), 7) + 1

\* Weeks of a year that begin on weekday first; the days before the first such
\* day are in week 0.
WeekStart(y, first) == IndexedToDays(y, 1, first, 1)

PutWeekdayName(f, c) ==
  LET w == extract_weekday(f)
  IN Put(w # 8, << (IF c = "a" THEN short_weekdays ELSE weekday_names)[w + 1] >>)
PutMonthName(f, c) ==
  LET m == extract_month(f) IN Put(m # 0, << (IF c = "B" THEN month_names ELSE short_months)[m] >>)
MonthDayYear(x) == Pad(x.m, 2) \o << "/" >> \o Pad(x.d, 2) \o << "/" >>
                   \o Pad(x.y - (Cut(x.y, 100) * 100), 2)
PutDateTime(f, c) ==
  IF c = "x" THEN Put(DateOk(f.ymd), MonthDayYear(f.ymd))
  ELSE Put(DateOk(f.ymd) /\ f.has /\ extract_weekday(f) # 8,
           << short_weekdays[extract_weekday(f) + 1], " ", short_months[f.ymd.m], " " >>
           \o Field(f.ymd.d, 2, " ") \o << " " >>
           \o LET t == f.tod IN (IF t.neg THEN << "-" >> ELSE << >>) \o Pad(t.h, 2) \o << ":" >>
                \o Pad(t.m, 2) \o << ":" >> \o Pad(t.s \div Ticks, 2)
           \o << " " >> \o OutYear(f.ymd.y))
PutCentury(f) ==
  LET y == f.ymd.y
  IN Put(YearOk(y), IF y >= 0 THEN Pad(y \div 100, 2) ELSE << "-" >> \o Pad((99 - y) \div 100, 2))
PutDay(f, c) == Put(f.ymd.d \in 1..31, Field(f.ymd.d, 2, IF c = "d" THEN "0" ELSE " "))
PutUsDate(f) == Put(DateOk(f.ymd), MonthDayYear(f.ymd))
PutIsoDate(f) ==
  Put(DateOk(f.ymd), Pad(f.ymd.y, 4) \o << "-" >> \o Pad(f.ymd.m, 2) \o << "-" >> \o Pad(f.ymd.d, 2))
PutIsoYear(f, c) ==
  LET Out(y) == IF c = "G" THEN OutYear(y) ELSE Pad((IF y < 0 THEN -y ELSE y) % 100, 2)
  IN Put(DateOk(f.ymd), Out(IsoYear(ToDays(f.ymd))))
PutHour(f, c) == Put(f.has, Pad(IF c = "I" THEN Make12(f.tod).h ELSE f.tod.h, 2))
PutDayOfYear(f) ==
  Put(DateOk(f.ymd) \/ f.has,
      IF DateOk(f.ymd) THEN Pad(ToDays(f.ymd) - ToDays(Date(f.ymd.y, 1, 1)) + 1, 3)
      ELSE Pad(Cut(ToDuration(f.tod), 86400 * Ticks), 3))
PutMonth(f) == Put(MonthOk(f.ymd.m), Pad(f.ymd.m, 2))
PutMinute(f) == Put(f.has, Pad(f.tod.m, 2))
PutAmPm(f) == Put(f.has, << ampm_names[IF f.tod.h < 12 THEN 1 ELSE 2] >>)
\* The fill of zeros is set, and the field of each number.
PutTime12(f) ==
  Put(f.has, Pad(Make12(f.tod).h, 2) \o << ":" >> \o Pad(f.tod.m, 2) \o << ":" >>
             \o Pad(f.tod.s \div Ticks, 2) \o << " ", ampm_names[IF f.tod.h < 12 THEN 1 ELSE 2] >>)
PutHourMinute(f) == Put(f.has, Pad(f.tod.h, 2) \o << ":" >> \o Pad(f.tod.m, 2))
PutSeconds(f) == Put(f.has, OutSeconds(f.tod.s))
PutTime(f) == Put(f.has, OutTod(f.tod))
PutWeekday(f, c) ==
  LET w == extract_weekday(f) IN Put(w # 8, Decimal(IF c = "u" /\ w = 0 THEN 7 ELSE w))
PutWeek(f, first) ==
  LET ld == ToDays(f.ymd)
      st == WeekStart(f.ymd.y, first)
  IN Put(DateOk(f.ymd), Pad(IF ld < st THEN 0 ELSE ((ld - st) \div 7) + 1, 2))
PutIsoWeek(f) == Put(DateOk(f.ymd), Pad(IsoWeek(ToDays(f.ymd)), 2))
PutShortYear(f) ==
  Put(YearOk(f.ymd.y), Pad((IF f.ymd.y < 0 THEN -f.ymd.y ELSE f.ymd.y) % 100, 2))
PutYear(f) == Put(YearOk(f.ymd.y), OutYear(f.ymd.y))
PutOffset(zone, modified) ==
  LET m == Cut(zone.offset, 60)
      a == IF m < 0 THEN -m ELSE m
  IN Put(zone.known, << IF m < 0 THEN "-" ELSE "+" >> \o Pad(a \div 60, 2)
                     \o (IF modified = "" THEN << >> ELSE << ":" >>) \o Pad(a % 60, 2))
PutZone(zone) == Put(zone.known, zone.abbrev)

\* Which modifiers a command has; under another one it stands for itself.
Modifiers ==
  [c \in {"c", "x", "C", "X", "Y"} |-> {"", "E"}]
  @@ [c \in {"d", "e", "H", "I", "m", "M", "S", "u", "U", "V", "w", "W"} |-> {"", "O"}]
  @@ [c \in {"y", "z"} |-> {"", "E", "O"}]
  @@ [c \in {"a", "A", "b", "B", "h", "D", "F", "g", "G", "j", "n", "p", "r", "R", "t", "T", "Z",
             "%"} |-> {""}]

Write(c, modified, f, zone) ==
  CASE c \in {"a", "A"} -> PutWeekdayName(f, c)
    [] c \in {"b", "B", "h"} -> PutMonthName(f, c)
    [] c \in {"c", "x"} -> PutDateTime(f, c)
    [] c = "C" -> PutCentury(f)
    [] c \in {"d", "e"} -> PutDay(f, c)
    [] c = "D" -> PutUsDate(f)
    [] c = "F" -> PutIsoDate(f)
    [] c \in {"g", "G"} -> PutIsoYear(f, c)
    [] c \in {"H", "I"} -> PutHour(f, c)
    [] c = "j" -> PutDayOfYear(f)
    [] c = "m" -> PutMonth(f)
    [] c = "M" -> PutMinute(f)
    [] c = "n" -> Put(TRUE, << "\n" >>)
    [] c = "p" -> PutAmPm(f)
    [] c = "r" -> PutTime12(f)
    [] c = "R" -> PutHourMinute(f)
    [] c = "S" -> PutSeconds(f)
    [] c = "t" -> Put(TRUE, << "\t" >>)
    [] c \in {"T", "X"} -> PutTime(f)
    [] c \in {"u", "w"} -> PutWeekday(f, c)
    [] c = "U" -> PutWeek(f, 0)
    [] c = "V" -> PutIsoWeek(f)
    [] c = "W" -> PutWeek(f, 1)
    [] c = "y" -> PutShortYear(f)
    [] c = "Y" -> PutYear(f)
    [] c = "z" -> PutOffset(zone, modified)
    [] c = "Z" -> PutZone(zone)
    [] c = "%" -> Put(TRUE, << "%" >>)

\* What is left of a command that is none: its sign and modifier.
Pending(command, modified) ==
  (IF command THEN << "%" >> ELSE << >>) \o (IF modified = "" THEN << >> ELSE << modified >>)

\* One character of the format.  The sign of a negative time is written once, by
\* the first of the hours, minutes and seconds.
WriteStep(w, c, f, zone) ==
  IF w.fail THEN w
  ELSE IF c \notin DOMAIN Modifiers \cup {"E", "O"} \/ (~w.command /\ c # "%")
    THEN [w EXCEPT !.out = @ \o Pending(w.command, w.modified) \o << c >>,
                   !.command = FALSE, !.modified = ""]
  ELSE IF ~w.command THEN [w EXCEPT !.command = TRUE]
  ELSE IF c \in {"E", "O"} /\ w.modified = "" THEN [w EXCEPT !.modified = c]
  ELSE IF c \in {"E", "O"} \/ w.modified \notin Modifiers[c]
    THEN [w EXCEPT !.out = @ \o << "%", w.modified, c >>, !.command = FALSE, !.modified = "",
                   !.fail = c = "w" /\ extract_weekday(f) = 8]
  ELSE LET sign == w.neg /\ c \in {"H", "I", "M", "S"}
           Wrote(piece) ==
             [w EXCEPT !.out = @ \o (IF sign /\ piece.ok THEN << "-" >> ELSE << >>) \o piece.out,
                       !.neg = @ /\ ~sign, !.fail = ~piece.ok, !.command = FALSE, !.modified = ""]
       IN Wrote(Write(c, w.modified, f, zone))

to_stream(fmt, f, zone) ==
  LET Step(w, c) == WriteStep(w, c, f, zone)
      End(w) == Put(~w.fail, w.out \o Pending(w.command, w.modified))
  IN End(FoldLeft(Step, [out |-> << >>, fail |-> FALSE, command |-> FALSE, modified |-> "",
                         neg |-> f.has /\ ToDuration(f.tod) < 0], fmt))

-----------------------------------------------------------------------------
(* Reading.  r = [in, eof, fail, threw, v, command, modified, width, rest, f, *)
(* abbrev]: the stream, the numbers read by `read', the state of the loop,    *)
(* and the fields, each with a value that stands for none.                    *)

NotYear == -2147483647 - 1
None ==
  [Y |-> NotYear, y |-> 100, g |-> 100, G |-> NotYear, C |-> -21474836, m |-> 0, d |-> 0, j |-> -1,
   wd |-> 8, H |-> NotYear, I |-> 0, p |-> -1, M |-> NotYear, s |-> NotYear, U |-> 100, V |-> 100,
   W |-> 100, z |-> NotYear]

Good(r) == ~r.eof /\ ~r.fail
Fail(r) == [r EXCEPT !.fail = TRUE]
\* peek: at the end it sets eof, and fails when it was set before.
Peek(r) ==
  IF ~Good(r) THEN Fail(r) ELSE IF r.in = << >> THEN [r EXCEPT !.eof = TRUE] ELSE r
Has(r, chars) == Good(Peek(r)) /\ r.in[1] \in chars
Get(r, k) == [r EXCEPT !.in = SubSeq(@, k + 1, Len(@))]

\* The length of the longest beginning of t of characters in chars, at most M (0: any).
RunOf(t, chars, M) ==
  LET top == IF M = 0 \/ Len(t) < M THEN Len(t) ELSE M
  IN CHOOSE k \in 0..top : /\ \A i \in 1..k : t[i] \in chars
                           /\ k = top \/ t[k + 1] \notin chars
NumberOf(t) == FoldLeft(LAMBDA n, c : (10 * n) + Value(c), 0, t)

\* A number follows: it is left in v.
read_unsigned(r, m, M) ==
  IF ~Good(r) THEN Fail(r)
  ELSE LET k == RunOf(r.in, DigitSet, M)
       IN [Get(r, k) EXCEPT !.eof = k = Len(r.in) /\ k # M, !.fail = k < m,
                            !.v = IF k < m THEN @ ELSE Append(@, NumberOf(SubSeq(r.in, 1, k)))]
read_signed(r, m, M) ==
  IF ~Has(r, DigitSet \cup {"-", "+"}) THEN Fail(Peek(r))
  ELSE IF r.in[1] \in DigitSet THEN read_unsigned(r, m, M)
  ELSE LET u == read_unsigned(Get(r, 1), m, M)
       IN IF u.fail \/ r.in[1] = "+" THEN u ELSE [u EXCEPT !.v[Len(u.v)] = -@]
\* Digits and one decimal point, in ticks; a lone point makes stold throw.
read_long_double(r, m, M) ==
  IF ~Good(r) THEN Fail(r)
  ELSE LET Stop(p, n) == IF p = n THEN p ELSE p + 1 + RunOf(SubSeq(r.in, p + 2, n), DigitSet, 0)
           Taken(p, q, digits) ==
             [Get(r, q) EXCEPT !.eof = q = Len(r.in) /\ q # M, !.fail = q < m,
                               !.threw = q >= m /\ digits = << >>,
                               !.v = IF q < m THEN @
                                     ELSE Append(@, Round(NumberOf(digits) * Ticks,
                                                          10^(IF p = q THEN 0 ELSE q - p - 1)))]
           Upto(p, q) == Taken(p, q, SelectSeq(SubSeq(r.in, 1, q), LAMBDA c : c # "."))
           From(p) == Upto(p, Stop(p, RunOf(r.in, DigitSet \cup {"."}, M)))
       IN From(RunOf(r.in, DigitSet, M))

Lit(r, c) == IF Has(r, {c}) THEN Get(r, 1) ELSE Fail(Peek(r))
Lits(r, t) == FoldLeft(Lit, r, t)
SkipBlanks(r) ==
  IF ~Good(r) THEN r
  ELSE LET k == RunOf(r.in, Blanks, 0) IN [Get(r, k) EXCEPT !.eof = k = Len(r.in)]

\* A name in full or short.  Behind a short one the stream is looked at, in case
\* the full one goes on: at the end of the text that sets eof.
scan_keyword(r, full, short) ==
  IF ~Has(r, ToSet(full) \cup ToSet(short)) THEN Fail(Peek(r))
  ELSE LET i == CHOOSE i \in DOMAIN full : r.in[1] \in {full[i], short[i]}
       IN [Get(r, 1) EXCEPT !.v = Append(@, i - 1), !.eof = r.in[1] # full[i] /\ Len(r.in) = 1]

\* A field that has a value already must be read with it again.
checked_set(r, n, x) ==
  IF r.fail THEN r
  ELSE IF r.f[n] = None[n] THEN [r EXCEPT !.f[n] = x]
  ELSE IF r.f[n] # x THEN Fail(r) ELSE r
SetAll(r, names) ==
  FoldLeft(LAMBDA q, i : checked_set(q, names[i], r.v[i]), r,
           IF r.fail THEN << >> ELSE [i \in DOMAIN names |-> i])

Width(r, w) == IF r.width = -1 THEN w ELSE r.width
\* A plausible slip: the room for the decimal point is forgotten.
SecondsWidthNoPoint == 2 + Sub
SecondsWidth == IF Sub = 0 THEN 2 ELSE 3 + Sub
Pair(r, c) == Lit(read_unsigned(r, 1, 2), c)
ReadClock(r) == read_long_double(Pair(Pair(r, ":"), ":"), 1, SecondsWidth)
ReadMonthDayYear(r) ==
  SetAll(read_signed(Pair(Pair(r, "/"), "/"), 1, 2), << "m", "d", "y" >>)

GetWeekday(r, c) ==
  IF c \in {"a", "A"} THEN SetAll(scan_keyword(r, weekday_names, short_weekdays), << "wd" >>)
  ELSE LET u == read_unsigned(r, 1, Width(r, 1))
       IN IF u.fail THEN u
          ELSE IF u.v[1] \notin (IF c = "u" THEN 1..7 ELSE 0..6) THEN Fail(u)
          ELSE checked_set(u, "wd", u.v[1] % 7)
GetMonthName(r) ==
  LET u == scan_keyword(r, month_names, short_months)
  IN IF u.fail THEN u ELSE checked_set(u, "m", u.v[1] + 1)
GetDateTime(r) ==
  LET Part(q) == [SkipBlanks(q) EXCEPT !.v = << >>]
      Day(q)  == SetAll(read_signed(q, 1, 2), << "d" >>)
      Time(q) == SetAll(ReadClock(q), << "H", "M", "s" >>)
      Year(q) == SetAll(read_signed(q, 1, 4), << "Y" >>)
  IN Year(Part(Time(Part(Day(Part(GetMonthName(Part(GetWeekday(r, "a")))))))))
GetLocalDate(r) == ReadMonthDayYear(r)
GetLocalTime(r) == SetAll(ReadClock(r), << "H", "M", "s" >>)
GetCentury(r) == SetAll(read_signed(r, 1, Width(r, 2)), << "C" >>)
GetUsDate(r) == ReadMonthDayYear(r)
GetIsoDate(r) ==
  SetAll(read_unsigned(Pair(Lit(read_signed(r, 1, Width(r, 4)), "-"), "-"), 1, 2),
         << "Y", "m", "d" >>)
GetDay(r) == SetAll(read_signed(r, 1, Width(r, 2)), << "d" >>)
GetHour(r) == SetAll(read_unsigned(r, 1, Width(r, 2)), << "H" >>)
GetHour12(r) ==
  LET Store(u) == IF u.fail \/ u.v[1] \notin 1..12 THEN Fail(u) ELSE SetAll(u, << "I" >>)
  IN Store(read_signed(r, 1, Width(r, 2)))
GetDayOfYear(r) == SetAll(read_unsigned(r, 1, Width(r, 3)), << "j" >>)
GetMinute(r) == SetAll(read_unsigned(r, 1, Width(r, 2)), << "M" >>)
GetMonth(r) == SetAll(read_signed(r, 1, Width(r, 2)), << "m" >>)
GetBlank(r, c) ==
  IF Has(r, Blanks) THEN Get(r, 1) ELSE IF c = "n" THEN Fail(Peek(r)) ELSE Peek(r)
GetAmPm(r) == SetAll(scan_keyword(r, ampm_names, ampm_names), << "p" >>)
GetTime12(r) ==
  GetAmPm([SkipBlanks(SetAll(ReadClock(r), << "I", "M", "s" >>)) EXCEPT !.v = << >>])
GetHourMinute(r) ==
  SetAll(read_unsigned(Lit(read_unsigned(r, 1, 2), ":"), 1, 2), << "H", "M" >>)
GetSeconds(r) == SetAll(read_long_double(r, 1, Width(r, SecondsWidth)), << "s" >>)
GetTime(r) == SetAll(ReadClock(r), << "H", "M", "s" >>)
GetYear(r) == SetAll(read_signed(r, 1, Width(r, 4)), << "Y" >>)
GetShortYear(r) == SetAll(read_unsigned(r, 1, Width(r, 2)), << "y" >>)
GetShortIsoYear(r) == SetAll(read_unsigned(r, 1, Width(r, 2)), << "g" >>)
GetIsoYear(r) == SetAll(read_signed(r, 1, Width(r, 4)), << "G" >>)
GetSundayWeek(r) == SetAll(read_unsigned(r, 1, Width(r, 2)), << "U" >>)
GetIsoWeek(r) == SetAll(read_unsigned(r, 1, Width(r, 2)), << "V" >>)
GetMondayWeek(r) == SetAll(read_unsigned(r, 1, Width(r, 2)), << "W" >>)
GetOffset(r) ==
  LET plain == r.modified = ""
      Abs(n) == IF n < 0 THEN -n ELSE n
      Minutes(v) == (60 * Abs(v[1])) + (IF Len(v) = 2 THEN v[2] ELSE 0)
      Store(m, off) ==
        IF m.fail THEN m ELSE checked_set(m, "z", IF r.in[1] = "-" THEN -off ELSE off)
      Set(m) == Store(m, Minutes(m.v))
      Hours(h) ==
        Set(IF ~h.fail /\ Has(h, IF plain THEN DigitSet ELSE {":"})
            THEN read_unsigned(IF plain THEN h ELSE Get(h, 1), 2, 2)
            ELSE IF Good(h) THEN Peek(h) ELSE h)
  IN Hours(read_signed(r, IF plain THEN 2 ELSE 1, 2))
GetZone(r) ==
  LET k == RunOf(r.in, {r.in[i] : i \in DOMAIN r.in} \ NotInZone, 0)
      u == [Get(r, k) EXCEPT !.eof = k = Len(r.in)]
      buf == SubSeq(r.in, 1, k)
  IN IF k = 0 \/ (r.abbrev # << >> /\ r.abbrev # buf) THEN Fail(u) ELSE [u EXCEPT !.abbrev = buf]

ReadModifiers ==
  [c \in {"c", "x", "X", "Y"} |-> {"", "E"}]
  @@ [c \in {"d", "e", "H", "m", "M", "S", "u", "w"} |-> {"", "O"}]
  @@ [c \in {"C", "y", "z"} |-> {"", "E", "O"}]
  @@ [c \in {"a", "A", "b", "B", "h", "D", "F", "g", "G", "I", "j", "n", "p", "r", "R", "t", "T",
             "U", "V", "W", "Z", "%"} |-> {""}]

Read(r, c) ==
  CASE c \in {"a", "A", "u", "w"} -> GetWeekday(r, c)
    [] c \in {"b", "B", "h"} -> GetMonthName(r)
    [] c = "c" -> GetDateTime(r)
    [] c = "x" -> GetLocalDate(r)
    [] c = "X" -> GetLocalTime(r)
    [] c = "C" -> GetCentury(r)
    [] c = "D" -> GetUsDate(r)
    [] c = "F" -> GetIsoDate(r)
    [] c \in {"d", "e"} -> GetDay(r)
    [] c = "H" -> GetHour(r)
    [] c = "I" -> GetHour12(r)
    [] c = "j" -> GetDayOfYear(r)
    [] c = "M" -> GetMinute(r)
    [] c = "m" -> GetMonth(r)
    [] c \in {"n", "t"} -> GetBlank(r, c)
    [] c = "p" -> GetAmPm(r)
    [] c = "r" -> GetTime12(r)
    [] c = "R" -> GetHourMinute(r)
    [] c = "S" -> GetSeconds(r)
    [] c = "T" -> GetTime(r)
    [] c = "Y" -> GetYear(r)
    [] c = "y" -> GetShortYear(r)
    [] c = "g" -> GetShortIsoYear(r)
    [] c = "G" -> GetIsoYear(r)
    [] c = "U" -> GetSundayWeek(r)
    [] c = "V" -> GetIsoWeek(r)
    [] c = "W" -> GetMondayWeek(r)
    [] c = "z" -> GetOffset(r)
    [] c = "Z" -> GetZone(r)
    [] c = "%" -> Lit(r, "%")

\* The characters a command stands for when it is none.
Itself(r) ==
  << "%" >> \o (IF r.width = -1 THEN << >> ELSE Decimal(r.width))
  \o (IF r.modified = "" THEN << >> ELSE << r.modified >>)
Done(r) == [r EXCEPT !.command = FALSE, !.modified = "", !.width = -1, !.v = << >>]

ReadStep(r, c) ==
  IF ~Good(r) THEN [r EXCEPT !.rest = TRUE]
  ELSE IF ~r.command
    THEN IF c = "%" THEN [r EXCEPT !.command = TRUE]
         ELSE IF c \in Blanks THEN SkipBlanks(r) ELSE Lit(r, c)
  ELSE IF c \in DigitSet /\ r.modified = ""
    THEN [r EXCEPT !.width = (IF @ = -1 THEN 0 ELSE 10 * @) + Value(c)]
  ELSE IF c \in {"E", "O"} /\ r.modified = "" THEN [r EXCEPT !.modified = c]
  ELSE IF c \notin DOMAIN ReadModifiers \/ r.modified \notin ReadModifiers[c]
    THEN Done(Lits(r, Itself(r) \o << c >>))
  ELSE Done(Read(r, c))

ReadAll(fmt, t) ==
  LET Pended(r) == IF Good(r) /\ r.command THEN Lits(r, Itself(r)) ELSE r
      End(e) == [e EXCEPT !.fail = @ \/ e.rest]
  IN End(Pended(FoldLeft(ReadStep,
           [in |-> t, eof |-> FALSE, fail |-> FALSE, threw |-> FALSE, v |-> << >>,
            command |-> FALSE, modified |-> "", width |-> -1, rest |-> FALSE, f |-> None,
            abbrev |-> << >>], fmt)))
-----------------------------------------------------------------------------
(* What was read is put together.  q: the fields, whether they agree, and    *)
(* whether a week number gave the date.                                      *)

\* The two digits lo of a year hi, in the century read, or the one of the whole
\* year read, or this one and the last.
WholeYear(q, lo, hi) ==
  LET c == IF q.C # None.C THEN q.C
           ELSE IF q[hi] = NotYear THEN (IF q[lo] >= 69 THEN 19 ELSE 20)
           ELSE Cut(IF q[hi] >= 0 THEN q[hi] ELSE q[hi] - 100, 100)
      t == IF c >= 0 THEN (100 * c) + q[lo]
           ELSE (100 * (c + 1)) - (IF q[lo] = 0 THEN 100 ELSE q[lo])
  IN IF ~q.ok \/ q[lo] = 100 THEN q
     ELSE [q EXCEPT !.ok = q[lo] \in 0..99 /\ q[hi] \in {NotYear, t}, !.C = c, ![hi] = t]

\* The day that other fields name must be the one that was read.
Agree(q, day) ==
  LET With(x) ==
        [q EXCEPT !.ok = /\ q.Y = NotYear \/ Short(q.Y) = x.y
                         /\ q.m = 0 \/ Char(q.m) = x.m
                         /\ q.d = 0 \/ Char(q.d) = x.d,
                  !.Y = IF @ = NotYear THEN x.y ELSE @, !.m = IF @ = 0 THEN x.m ELSE @,
                  !.d = IF @ = 0 THEN x.d ELSE @]
  IN With(FromDays(day))

ByIsoWeek(q) ==
  IF ~q.ok \/ q.G = NotYear \/ q.V = 100 \/ q.wd = 8 THEN q
  ELSE [Agree(q, IsoStart(Short(q.G)) + (7 * (q.V - 1)) + MinusWeekday(q.wd, 1)) EXCEPT !.computed = TRUE]
\* The weeks of field n that begin on weekday first.
ByWeek(q, n, first) ==
  IF ~q.ok \/ q.Y = NotYear \/ q[n] = 100 \/ q.wd = 8 THEN q
  ELSE [Agree(q, WeekStart(Short(q.Y), first) + (7 * (q[n] - 1)) + MinusWeekday(q.wd, first))
          EXCEPT !.computed = TRUE]
ByDayOfYear(q) ==
  IF ~q.ok \/ q.j = -1 \/ q.Y = NotYear THEN q
  ELSE LET With(x) ==
             [q EXCEPT !.ok = (q.m = 0 \/ Char(q.m) = x.m) /\ (q.d = 0 \/ Char(q.d) = x.d),
                       !.m = IF @ = 0 THEN x.m ELSE @, !.d = IF @ = 0 THEN x.d ELSE @, !.j = -1]
       IN With(FromDays(ToDays(Date(q.Y, 1, 1)) + q.j - 1))

\* A whole date has its weekday, its ISO year and week, and its weeks.
Consistent(q) ==
  LET x == Date(q.Y, q.m, q.d)
      Week(sd, first) == Floor(sd - WeekStart(x.y, first), 7) + 1
      With(sd) ==
        [q EXCEPT
           !.wd = IF @ = 8 THEN WeekdayFromDays(sd) ELSE @,
           !.ok = /\ q.wd \in {8, WeekdayFromDays(sd)}
                  /\ q.computed \/ /\ q.G \in {NotYear, IsoYear(sd)}
                                   /\ q.V \in {100, IsoWeek(sd)}
                                   /\ q.U \in {100, Week(sd, 0)}
                                   /\ q.W \in {100, Week(sd, 1)}]
  IN IF ~q.ok \/ ~DateOk(x) THEN q ELSE With(ToDays(x))

\* The hour of 12 and the half of the day.
Hours(q) ==
  LET i == q.I + ((IF q.I = 12 THEN q.p - 1 ELSE q.p) * 12)
  IN IF ~q.ok \/ q.I = 0 THEN q
     ELSE IF q.I \notin 1..12 THEN [q EXCEPT !.ok = FALSE]
     ELSE IF q.p # -1 THEN [q EXCEPT !.ok = q.H \in {NotYear, i}, !.H = i]
     ELSE [q EXCEPT !.ok = \/ q.H = NotYear
                           \/ IF q.I = 12 THEN q.H \in {0, 12} ELSE q.I \in {q.H, q.H + 12}]

Resolve(f) ==
  LET q0 == WholeYear(WholeYear(f @@ [ok |-> TRUE, computed |-> FALSE], "y", "Y"), "g", "G")
      q1 == [q0 EXCEPT !.Y = IF @ \in -32767..32767 THEN @ ELSE NotYear]
  IN Hours(Consistent(ByDayOfYear(ByWeek(ByWeek(ByIsoWeek(q1), "U", 0), "W", 1))))

\* from_stream of the fields.  They are left as they were when the reading fails.
from_stream(fmt, t) ==
  LET Tod(q) ==
        [neg |-> FALSE, h |-> (IF q.H = NotYear THEN 0 ELSE q.H) + (IF q.j = -1 THEN 0 ELSE 24 * q.j),
         m |-> IF q.M = NotYear THEN 0 ELSE q.M, s |-> IF q.s = NotYear THEN 0 ELSE q.s,
         mode |-> "24"]
      Result(r, q) ==
        IF r.threw \/ r.fail \/ ~q.ok
        THEN [ok |-> FALSE, threw |-> r.threw, offset |-> 0, left |-> r.in] @@ NoFields
        ELSE [ok |-> TRUE, threw |-> FALSE, left |-> r.in, ymd |-> Date(q.Y, q.m, q.d),
              wd |-> IF q.wd = 8 THEN 8 ELSE (IF q.wd = 7 THEN 0 ELSE q.wd), tod |-> Tod(q),
              has |-> q.H # NotYear \/ q.M # NotYear \/ q.s # NotYear \/ q.j # -1,
              offset |-> IF q.z = NotYear THEN 0 ELSE q.z]
      Together(r) == Result(r, Resolve(r.f))
  IN Together(ReadAll(fmt, t))

\* The overloads for a date and for a point of time, in ticks since 1970.
DateFrom(fmt, t) ==
  LET Checked(r) == [r EXCEPT !.ok = @ /\ DateOk(r.ymd)] IN Checked(from_stream(fmt, t))
FieldsOf(day, ticks) == [ymd |-> FromDays(day), wd |-> 8, tod |-> TimeOfDay(ticks), has |-> TRUE]
TimeFrom(fmt, t) ==
  LET Checked(r) == [ok |-> r.ok /\ DateOk(r.ymd) /\ InConventionalRange(r.tod),
                     day |-> IF r.ok THEN ToDays(r.ymd) ELSE 0,
                     ticks |-> ToDuration(r.tod) - (60 * Ticks * r.offset)]
  IN Checked(from_stream(fmt, t))
-----------------------------------------------------------------------------
(* What the two promise each other.  Utc is the zone of a point of time.     *)

Utc == [known |-> TRUE, offset |-> 0, abbrev |-> << "U", "T", "C" >>]

\* A point of time written under a format that holds its date and time whole is
\* read back from it, to the tick, and nothing of the text is left.
RoundTrip(fmt, day, ticks) ==
  \A w \in {to_stream(fmt, FieldsOf(day, ticks), Utc)} :
    \A r \in {TimeFrom(fmt, w.out)} : w.ok /\ r.ok /\ r.day = day /\ r.ticks = ticks

\* The same of a date alone.
DateRoundTrip(fmt, day) ==
  \A w \in {to_stream(fmt, [NoFields EXCEPT !.ymd = FromDays(day)], [Utc EXCEPT !.known = FALSE])} :
    \A r \in {DateFrom(fmt, w.out)} :
      w.ok /\ r.ok /\ ToDays(r.ymd) = day /\ r.left = << >>

\* Whatever the format: what a format has written is read by it with the values
\* that were written, or not at all.
ReadsWhatItWrote(fmt, day, ticks) ==
  \A f \in {FieldsOf(day, ticks)} : \A w \in {to_stream(fmt, f, Utc)} :
    \A r \in {from_stream(fmt, w.out)} :
      w.ok /\ r.ok => /\ r.ymd.m \in {0, f.ymd.m} /\ r.ymd.d \in {0, f.ymd.d}
                      /\ r.tod.h % 24 \in {0, f.tod.h} /\ r.tod.m \in {0, f.tod.m}

=============================================================================
