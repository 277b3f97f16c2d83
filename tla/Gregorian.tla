------------------------------ MODULE Gregorian ------------------------------
(***************************************************************************)
(* The calendar arithmetic of src/src/util/gregorian.cpp: the class        *)
(* gregorian_calendar behind every date_time of the std, posix and winapi  *)
(* backends.  A calendar object is a record                                *)
(*                                                                         *)
(*   fdow        first_day_of_week_ (0 is Sunday)                          *)
(*   time        time_, the instant in seconds since 1970                  *)
(*   tm          tm_, the fields every get_value reads                     *)
(*   upd         tm_updated_, the fields every set_value writes            *)
(*   normalized  normalized_                                               *)
(*   local       is_local_                                                 *)
(*   tzoff       tzoff_, in seconds                                        *)
(*                                                                         *)
(* and a std::tm is the record of its fields, with the full year in place  *)
(* of tm_year and without tm_isdst.  extended_year is the same period as   *)
(* year everywhere in the class and is not repeated.                       *)
(***************************************************************************)
EXTENDS Integers

Tm == [year : Int, mon : Int, mday : Int, hour : Int, min : Int, sec : Int,
       wday : Int, yday : Int]

\* What the C library makes of an instant.
ShownTm == [year : Int, mon : 0 .. 11, mday : 1 .. 31, hour : 0 .. 23, min : 0 .. 59,
            sec : 0 .. 59, wday : 0 .. 6, yday : 0 .. 365]

Calendar == [fdow : 0 .. 6, time : Int, tm : Tm, upd : Tm,
             normalized : BOOLEAN, local : BOOLEAN, tzoff : Int]

CONSTANTS
    Windows,     \* TRUE in a BOOST_WINDOWS build: instants before 1970 fail
    SystemOffset \* the system zone's offset, in seconds (no DST change)

ASSUME WindowsAssumption == Windows \in BOOLEAN
ASSUME SystemOffsetAssumption == SystemOffset \in Int

ClockPeriods == {"hour", "hour_12", "am_pm", "minute", "second"}
DayPeriods == {"day", "day_of_year", "day_of_week", "day_of_week_local"}
WeekPeriods == {"week_of_year", "week_of_month", "day_of_week_in_month"}
Periods == {"year", "month"} \cup DayPeriods \cup WeekPeriods \cup ClockPeriods

-----------------------------------------------------------------------------
(* C's integer division truncates towards zero, TLA+'s rounds down. *)

CDiv(a, b) == IF a >= 0 THEN a \div b ELSE -((-a) \div b)
CMod(a, b) == a - b * CDiv(a, b)

is_leap(y) == y % 400 = 0 \/ (y % 100 # 0 /\ y % 4 = 0)

MonthDays == <<31, 28, 31, 30, 31, 30, 31, 31, 30, 31, 30, 31>>
DaysBefore == <<0, 31, 59, 90, 120, 151, 181, 212, 243, 273, 304, 334>>
LeapDay(y) == IF is_leap(y) THEN 1 ELSE 0

days_in_month(y, m) == MonthDays[m] + IF m = 2 THEN LeapDay(y) ELSE 0
days_in_year(y) == 365 + LeapDay(y)

days_from_0(y) ==
    LET p == y - 1 IN 365 * p + CDiv(p, 400) - CDiv(p, 100) + CDiv(p, 4)

\* Faulty: the leap day is counted from February on.
days_from_1jan_Early(y, m, d) == DaysBefore[m] + (IF m > 1 THEN LeapDay(y) ELSE 0) + d - 1

days_from_1jan(y, m, d) ==
    DaysBefore[m] + (IF m > 2 THEN LeapDay(y) ELSE 0) + d - 1

\* A month outside 0..11 carries into the year; every other field of t
\* enters linearly, so only the month has to be brought into range.
internal_timegm(t) ==
    LET carry == IF t.mon > 11 THEN t.mon \div 12
                 ELSE IF t.mon < 0 THEN -((11 - t.mon) \div 12) ELSE 0
        year  == t.year + carry
        month == t.mon - 12 * carry + 1
        days  == days_from_0(year) - days_from_0(1970)
                    + days_from_1jan(year, month, t.mday)
    IN  86400 * days + 3600 * t.hour + 60 * t.min + t.sec

-----------------------------------------------------------------------------
(* The C library.  gmtime_r is written from the definition of the proleptic *)
(* Gregorian calendar (a 400-year era that starts on 1 March), not from the *)
(* tables above, so that comparing the two is a check of the tables.        *)

gmtime(t) ==
    LET z    == t \div 86400
        s    == t % 86400
        era  == (z + 719468) \div 146097
        doe  == (z + 719468) % 146097
        yoe  == (doe - doe \div 1460 + doe \div 36524 - doe \div 146096) \div 365
        doy  == doe - (365 * yoe + yoe \div 4 - yoe \div 100)
        mp   == (5 * doy + 2) \div 153
        mon  == IF mp < 10 THEN mp + 2 ELSE mp - 10
        year == yoe + 400 * era + IF mon <= 1 THEN 1 ELSE 0
    IN  [year |-> year, mon |-> mon,
         mday |-> doy - (153 * mp + 2) \div 5 + 1,
         hour |-> s \div 3600, min |-> (s % 3600) \div 60, sec |-> s % 60,
         wday |-> (z + 4) % 7,
         yday |-> IF mon <= 1 THEN doy - 306 ELSE doy + 59 + LeapDay(year)]

\* localtime_r: the fields of an instant in the system zone.
localtime(t) == gmtime(t + SystemOffset)

\* mktime reads the fields in the system zone and brings them into range.
mktime(t) == internal_timegm(t) - SystemOffset

-----------------------------------------------------------------------------
(* Reading.  get_value always reads tm, also while upd is ahead of it. *)

LocalDow(c) == (c.tm.wday - c.fdow + 7) % 7

\* Faulty: every week starts on Sunday.
get_week_number_Sunday(day, wday, fdow) ==
    LET first == (wday + 700 - day) % 7
        start == IF first < 4 THEN -first ELSE 7 - first
    IN  IF day < start THEN -1 ELSE (day - start) \div 7 + 1

\* -1 when the week of the given day belongs to the previous period.
get_week_number(day, wday, fdow) ==
    LET first == (((wday - fdow + 7) % 7) + 700 - day) % 7
        start == IF first < 4 THEN -first ELSE 7 - first
    IN  IF day < start THEN -1 ELSE (day - start) \div 7 + 1

OrElse(week, last) == IF week < 0 THEN last ELSE week

Current(c) ==
    [year |-> c.tm.year, month |-> c.tm.mon, day |-> c.tm.mday,
     day_of_year |-> c.tm.yday + 1, day_of_week |-> c.tm.wday + 1,
     day_of_week_local |-> LocalDow(c) + 1,
     week_of_year |-> OrElse(get_week_number(c.tm.yday, c.tm.wday, c.fdow), 53),
     week_of_month |-> OrElse(get_week_number(c.tm.mday, c.tm.wday, c.fdow), 5),
     day_of_week_in_month |-> (c.tm.mday - 1) \div 7 + 1,
     hour |-> c.tm.hour, hour_12 |-> c.tm.hour % 12,
     am_pm |-> c.tm.hour \div 12, minute |-> c.tm.min, second |-> c.tm.sec]

\* absolute_minimum, greatest_minimum and actual_minimum are all this one.
Minimum(m) ==
    IF m = "year" THEN (IF Windows THEN 1970 ELSE 1)
    ELSE IF m \in DayPeriods \cup WeekPeriods THEN 1 ELSE 0

YearMax == 2147483647 \div 365

LeastMaximum ==
    [year |-> YearMax, month |-> 11, day |-> 28, day_of_year |-> 365,
     day_of_week |-> 7, day_of_week_local |-> 7, week_of_year |-> 52,
     week_of_month |-> 4, day_of_week_in_month |-> 4, hour |-> 23,
     hour_12 |-> 11, am_pm |-> 1, minute |-> 59, second |-> 59]

AbsoluteMaximum ==
    [LeastMaximum EXCEPT !.day = 31, !.day_of_year = 366, !.week_of_year = 53,
                         !.week_of_month = 5, !.day_of_week_in_month = 5]

ActualMaximum(c) ==
    LET y    == c.tm.year
        last == days_in_month(y, c.tm.mon + 1)
        end  == days_in_year(y) - 1
    IN  [LeastMaximum EXCEPT
            !.day = last,
            !.day_of_year = days_in_year(y),
            !.week_of_year =
                get_week_number(end, (end - c.tm.yday + c.tm.wday) % 7, c.fdow),
            !.week_of_month =
                get_week_number(last, (last - c.tm.mday + c.tm.wday) % 7, c.fdow),
            !.day_of_week_in_month =
                IF c.tm.mon = 1 /\ ~is_leap(y) THEN 4 ELSE 5]

-----------------------------------------------------------------------------
(* Writing. *)

from_time(c, t) ==
    LET f == IF c.local THEN localtime(t + c.tzoff) ELSE gmtime(t + c.tzoff)
    IN  [c EXCEPT !.time = t, !.tm = f, !.upd = f, !.normalized = TRUE]

\* The instant the pending fields denote, before the zone offset is taken off.
Point(c) == IF c.local THEN mktime(c.upd) ELSE internal_timegm(c.upd)

\* Faulty: an instant before 1970 is not refused.
CanNormalize_Always(c) == TRUE

\* normalize throws date_time_error otherwise, and has then changed nothing.
CanNormalize(c) == c.normalized \/ ~Windows \/ Point(c) >= 0

\* Faulty: the zone is forgotten; the pending fields are shown as they are;
\* they are dropped.
normalize_Zoneless(c) ==
    IF c.normalized THEN c
    ELSE LET f == IF c.local THEN localtime(Point(c)) ELSE gmtime(Point(c))
         IN  [c EXCEPT !.time = Point(c), !.tm = f, !.upd = f, !.normalized = TRUE]

normalize_Drops(c) == [c EXCEPT !.upd = c.tm, !.normalized = TRUE]

normalize(c) ==
    IF c.normalized THEN c
    ELSE LET f == IF c.local THEN localtime(Point(c)) ELSE gmtime(Point(c))
         IN  [c EXCEPT !.time = Point(c) - c.tzoff, !.tm = f, !.upd = f,
                       !.normalized = TRUE]

Pending(c, u) == [c EXCEPT !.upd = u, !.normalized = FALSE]

\* Faulty: normalized_ is not cleared.
ShiftDays_Settled(c, n) == [c EXCEPT !.upd.mday = @ + n]

ShiftDays(c, n) == Pending(c, [c.upd EXCEPT !.mday = @ + n])

\* These marks normalize first; the others only write a field.
RelativeMarks == {"day_of_year", "day_of_week", "day_of_week_local"} \cup WeekPeriods

\* set_value(day_of_week): from Sunday = 1 to the local week, any sign.
ToLocalDow(v, fdow) ==
    LET positive == IF v < 1 THEN v + ((-v) \div 7) * 7 + 7 ELSE v
    IN  CMod(positive - 1 - fdow + 14, 7) + 1

\* set_value of a relative mark, once normalize has succeeded.
SetRelative(c, m, v) ==
    CASE m = "day_of_year" -> ShiftDays(c, v - (c.upd.yday + 1))
      [] m = "day_of_week" ->
            ShiftDays(c, ToLocalDow(v, c.fdow) - 1 - ((c.upd.wday - c.fdow + 7) % 7))
      [] m = "day_of_week_local" ->
            ShiftDays(c, v - 1 - ((c.upd.wday - c.fdow + 7) % 7))
      [] OTHER -> ShiftDays(c, 7 * (v - Current(c)[m]))

SetPlain(c, m, v) ==
    Pending(c,
        CASE m = "year"    -> [c.upd EXCEPT !.year = v]
          [] m = "month"   -> [c.upd EXCEPT !.mon = v]
          [] m = "day"     -> [c.upd EXCEPT !.mday = v]
          [] m = "hour"    -> [c.upd EXCEPT !.hour = v]
          [] m = "hour_12" -> [c.upd EXCEPT !.hour = CDiv(@, 12) * 12 + v]
          [] m = "am_pm"   -> [c.upd EXCEPT !.hour = 12 * v + CMod(@, 12)]
          [] m = "minute"  -> [c.upd EXCEPT !.min = v]
          [] m = "second"  -> [c.upd EXCEPT !.sec = v])

set_value(c, m, v) ==
    IF m \in RelativeMarks THEN SetRelative(normalize(c), m, v)
                           ELSE SetPlain(c, m, v)

\* adjust_value(m, move, n) up to its call of normalize.
MovePending(c, m, n) ==
    Pending(c,
        CASE m = "year"                  -> [c.upd EXCEPT !.year = @ + n]
          [] m = "month"                 -> [c.upd EXCEPT !.mon = @ + n]
          [] m \in DayPeriods            -> [c.upd EXCEPT !.mday = @ + n]
          [] m \in WeekPeriods           -> [c.upd EXCEPT !.mday = @ + 7 * n]
          [] m \in {"hour", "hour_12"}   -> [c.upd EXCEPT !.hour = @ + n]
          [] m = "am_pm"                 -> [c.upd EXCEPT !.hour = @ + 12 * n]
          [] m = "minute"                -> [c.upd EXCEPT !.min = @ + n]
          [] m = "second"                -> [c.upd EXCEPT !.sec = @ + n])

Move(c, m, n) == normalize(MovePending(c, m, n))

\* Faulty: every month rolls through 31 days; a roll stops at the ends.
RollRange_Longest(c, m) == AbsoluteMaximum[m] - Minimum(m) + 1

\* adjust_value(m, roll, n): the value the field is rolled to.
RollRange(c, m) == ActualMaximum(c)[m] - Minimum(m) + 1
RollValue(c, m, n) ==
    LET range == RollRange(c, m)
        v     == CMod(Current(c)[m] - Minimum(m) + n, range)
    IN  (IF v < 0 THEN v + range ELSE v) + Minimum(m)

Roll(c, m, n) == normalize(set_value(c, m, RollValue(c, m, n)))

\* Faulty: the period that is not over yet counts.
get_diff_Rounds(c, m, diff, other) == diff

\* get_diff: one back when moving by diff runs past the other instant.
get_diff(c, m, diff, other) ==
    LET moved == Move(c, m, diff).time
    IN  CASE diff > 0 /\ moved > other.time -> diff - 1
          [] diff < 0 /\ moved < other.time -> diff + 1
          [] OTHER -> diff

difference(c, other, m) ==
    LET years   == other.tm.year - c.tm.year
        days    == other.tm.yday - c.tm.yday
                     + days_from_0(other.tm.year) - days_from_0(c.tm.year)
        seconds == other.time - c.time
    IN  CASE m = "year"  -> get_diff(c, "year", years, other)
          [] m = "month" ->
                get_diff(c, "month", 12 * years + other.tm.mon - c.tm.mon, other)
          [] m \in DayPeriods  -> get_diff(c, "day", days, other)
          [] m \in WeekPeriods -> CDiv(get_diff(c, "day", days, other), 7)
          [] m = "am_pm"       -> CDiv(seconds, 43200)
          [] m \in {"hour", "hour_12"} -> CDiv(seconds, 3600)
          [] m = "minute"      -> CDiv(seconds, 60)
          [] m = "second"      -> seconds

\* from_time throws date_time_error otherwise.
CanShow(c, t) == ~Windows \/ t + c.tzoff >= 0

\* A new calendar, its zone set by set_timezone, showing the instant t.
At(fdow, local, tzoff, t) ==
    from_time([fdow |-> fdow, time |-> 0, tm |-> gmtime(0), upd |-> gmtime(0),
               normalized |-> TRUE, local |-> local, tzoff |-> tzoff], t)
=============================================================================
