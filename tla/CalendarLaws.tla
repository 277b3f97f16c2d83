---------------------------- MODULE CalendarLaws ----------------------------
(***************************************************************************)
(* What reading, setting, rolling, moving and measuring differences must   *)
(* give on every day that a calendar's walk reaches.  The laws are about   *)
(* the instants that normalize computes, by the same arithmetic in every   *)
(* build but for the least year, also where a Windows build goes on to     *)
(* refuse them.                                                            *)
(***************************************************************************)
EXTENDS CalendarWalk

CONSTANTS
    Steps,  \* the amounts moved and rolled by
    Years,  \* the years set_value is called with
    Deltas  \* distances, in seconds, to the other end of a difference

\* Everything that is set, moved to or measured lies after the first year that
\* days_from_0 counts from.
ASSUME StepsAssumption == Steps \subseteq Int
ASSUME YearsAssumption == \A y \in Years : y \in Int /\ y >= 1
ASSUME DeltasAssumption == Deltas \subseteq Int
ASSUME WalksAssumption ==
    /\ WalksStartInLimits
    /\ \A w \in Walks :
        LET Year(s) == At(w.fdow, w.local, w.tzoff, w.time + s).tm.year
        IN  /\ Year(0) >= 2
            /\ \A n \in Steps : Year(0) + n >= 1
            /\ \A s \in Deltas : Year(s) >= 2

(* A date that has the same day number in every month and every year. *)
DayInEveryMonth(c) == c.tm.mday <= 28
DayInEveryYear(c) == ~(c.tm.mon = 1 /\ c.tm.mday = 29)
EasyToMove(c, m) ==
    /\ m = "month" => DayInEveryMonth(c)
    /\ m = "year" => DayInEveryYear(c)

\* After set(p, v) with v in p's actual range, get(p) is v, unless no such
\* date exists in the year (or month) p counts in.
SetDone(m, v) == normalize(set_value(walker, m, v))
Exists(m, v) ==
    CASE m = "month" -> walker.tm.mday <= days_in_month(walker.tm.year, v + 1)
      [] m = "year"  -> walker.tm.mday <= days_in_month(v, walker.tm.mon + 1)
      [] m = "week_of_year" -> SetDone(m, v).tm.year = walker.tm.year
      [] m \in {"week_of_month", "day_of_week_in_month"} ->
            SetDone(m, v).tm.mon = walker.tm.mon
      [] OTHER -> TRUE
Settable(m) ==
    IF m = "year" THEN Years
    ELSE {v \in Minimum(m) .. ActualMaximum(walker)[m] :
            m \in {"day_of_year", "minute", "second"} =>
                v % 7 = 0 \/ v \in {Minimum(m), ActualMaximum(walker)[m]}}

SetThenGet ==
    \A m \in Periods : \A v \in Settable(m) :
        Exists(m, v) => Current(SetDone(m, v))[m] = v

\* Setting a day of the week stays in the local week and keeps the clock.
WeekStart(c) == (c.time + c.tzoff + (IF c.local THEN SystemOffset ELSE 0)) \div 86400
                    - LocalDow(c)
SettingWeekdayStaysInWeek ==
    \A v \in -8 .. 7 : \A m \in {"day_of_week", "day_of_week_local"} :
        (m = "day_of_week" \/ v \in 1 .. 7) =>
            LET d == SetDone(m, v)
            IN  /\ WeekStart(d) = WeekStart(walker)
                /\ (d.time - walker.time) % 86400 = 0
                /\ m = "day_of_week" => (d.tm.wday + 1 - v) % 7 = 0

-----------------------------------------------------------------------------
(* Rolling. *)

Clock == {"hour", "minute", "second"}
\* The fields that rolling m must leave alone.
Others(m) ==
    CASE m \in {"year", "month", "day"} -> ({"year", "month", "day"} \cup Clock) \ {m}
      [] m = "day_of_year" -> {"year"} \cup Clock
      [] m \in {"day_of_week", "day_of_week_local"} -> Clock
      [] m \in WeekPeriods -> {"day_of_week"} \cup Clock
      [] m = "hour_12" -> {"year", "month", "day", "am_pm", "minute", "second"}
      [] m = "am_pm" -> {"year", "month", "day", "hour_12", "minute", "second"}
      [] m \in Clock -> ({"year", "month", "day"} \cup Clock) \ {m}

KeepsOthers(c, d, m) == \A p \in Others(m) : Current(d)[p] = Current(c)[p]

\* "roll: Change the value up or down not effecting others"
\* (date_time_facet.hpp:112), where the date rolled to exists.
RollKeepsOtherFields ==
    \A m \in Periods, n \in Steps :
        Exists(m, RollValue(walker, m, n)) => KeepsOthers(walker, Roll(walker, m, n), m)

\* Rolling back by as much returns to the same instant when the first roll
\* stayed in its year or month and started from a value in range.
CurrentInRange(c, m) == Current(c)[m] - Minimum(m) \in 0 .. RollRange(c, m) - 1

RollIsUndone ==
    \A m \in Periods, n \in Steps :
        CurrentInRange(walker, m) /\ Exists(m, RollValue(walker, m, n))
            => Roll(Roll(walker, m, n), m, -n).time = walker.time

RollsStartInRange == \A m \in Periods : CurrentInRange(walker, m)

-----------------------------------------------------------------------------
(* Moving and measuring. *)

\* Moving there and back is the identity.
MoveIsUndone ==
    \A m \in Periods, n \in Steps :
        EasyToMove(walker, m) => Move(Move(walker, m, n), m, -n).time = walker.time

\* A month any number of years out of range denotes the same instant as the
\* month of the year it carries into.
MonthsCarry ==
    \A k \in -30 .. 30 :
        LET months == 12 * walker.tm.year + walker.tm.mon + k
        IN  internal_timegm([walker.tm EXCEPT !.mon = @ + k]) =
              internal_timegm([walker.tm EXCEPT !.year = months \div 12,
                                             !.mon = months % 12])

\* The month n months on has no day of c's number, so that moving there runs on
\* into the next month; and it is over when other comes.
MonthNumber(c) == 12 * c.tm.year + c.tm.mon
DaysOf(months) == days_in_month(months \div 12, (months % 12) + 1)
Overrun(c, other, m, n) ==
    /\ m = "month"
    /\ c.tm.mday > DaysOf(MonthNumber(c) + n)
    /\ MonthNumber(other) > MonthNumber(c) + n

\* difference is the number of whole periods that fit before the other end:
\* moving by it does not pass the other end, moving by one more does.  A month
\* that is too short for the day counts once it is over, although the move
\* may pass the other end: from 31 January to 1 March it is one month.
Fits(c, other, m, n) ==
    /\ n >= 0 => /\ Move(c, m, n).time <= other.time \/ n = 0 \/ Overrun(c, other, m, n)
                 /\ Move(c, m, n + 1).time > other.time
    /\ n <= 0 => /\ Move(c, m, n).time >= other.time \/ n = 0
                 /\ Move(c, m, n - 1).time < other.time \/ Overrun(c, other, m, n - 1)

DifferencesFit ==
    \A m \in Periods, s \in Deltas :
        LET other == At(walker.fdow, walker.local, walker.tzoff, walker.time + s)
        IN  Fits(walker, other, m, difference(walker, other, m))
=============================================================================
