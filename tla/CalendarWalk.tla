---------------------------- MODULE CalendarWalk ----------------------------
(***************************************************************************)
(* One calendar object walking forward a day at a time with adjust_value,  *)
(* and the calendar that its fields are computed by.                       *)
(***************************************************************************)
EXTENDS Gregorian

CONSTANT
    Walks   \* the walks: records [fdow, local, tzoff, time, days] of the calendar's
            \* first day of the week and zone, the first instant, and the bound

VARIABLES walker, left

walkVars == <<walker, left>>

WalkInit ==
    \E w \in Walks :
        /\ walker = At(w.fdow, w.local, w.tzoff, w.time)
        /\ left = w.days

NextDay ==
    /\ left > 0
    /\ walker' = Move(walker, "day", 1)
    /\ left' = left - 1

\* The walks start in no earlier year than the calendar's limits allow.
WalksStartInLimits ==
    \A w \in Walks :
        /\ w.fdow \in 0 .. 6 /\ w.local \in BOOLEAN /\ w.tzoff \in Int
        /\ w.time \in Int /\ w.days \in Nat
        /\ At(w.fdow, w.local, w.tzoff, w.time).tm.year >= Minimum("year")

WalkSpec == WalkInit /\ [][NextDay]_walkVars

-----------------------------------------------------------------------------
\* internal_timegm inverts gmtime: the fields of every day, with days counted
\* by the code's tables from the year 0, make the instant that they were computed
\* from (internal_timegm, days_from_1jan, days_from_0).
NormalizeIsExact == Point(walker) - walker.tzoff = walker.time

\* The limits get_value reports bracket each other and the current value, at
\* every date and for every first day of the week.
LimitsBracketCurrent ==
    LET now  == Current(walker)
        last == ActualMaximum(walker)
    IN  \A m \in Periods \ {"year"} :
            /\ Minimum(m) <= now[m] /\ now[m] <= AbsoluteMaximum[m]
            /\ LeastMaximum[m] <= last[m] /\ last[m] <= AbsoluteMaximum[m]

\* A week belongs to the year that holds its fourth day (days_in_full_week is
\* 4), and week_of_year counts the fourth days up to it.
FourthDaysAreCounted ==
    LET fourth == walker.tm.yday - LocalDow(walker) + 3
    IN  fourth >= 0 => Current(walker)["week_of_year"] = fourth \div 7 + 1

\* From one day to the next of the same year or month the week number turns
\* exactly on the first day of the local week, and to 1 when the week before
\* belonged to the previous year or month.
TurnsOnFirstDay(c, d, m, day) ==
    Current(d)[m] =
        IF LocalDow(d) # 0 THEN Current(c)[m]
        ELSE IF get_week_number(day, c.tm.wday, c.fdow) < 0 THEN 1
        ELSE Current(c)[m] + 1

WeeksTurnOnFirstDay ==
    LET next == Move(walker, "day", 1)
    IN  /\ next.tm.year = walker.tm.year => TurnsOnFirstDay(walker, next, "week_of_year", walker.tm.yday)
        /\ next.tm.mon = walker.tm.mon => TurnsOnFirstDay(walker, next, "week_of_month", walker.tm.mday)

\* The week numbers get_value reports count weeks: they name the week's fourth
\* day, turn with the week, and stay, with the other fields, within the limits
\* that it reports.
WeeksAreCounted == FourthDaysAreCounted /\ WeeksTurnOnFirstDay /\ LimitsBracketCurrent
=============================================================================
