------------------------------- MODULE Dates -------------------------------
(***************************************************************************)
(* One of two things happens, chosen in the beginning (part): calls on a   *)
(* date_time object, or a calendar's walk from day to day.                 *)
(***************************************************************************)
EXTENDS DateTime, CalendarLaws

VARIABLE part

Resting ==
    /\ cal = At(0, FALSE, 0, 0)
    /\ setting = FALSE /\ asked = <<>> /\ stages = <<cal>> /\ threw = FALSE /\ calls = 0

DatesInit ==
    \/ part = "object" /\ Init /\ walker = At(0, FALSE, 0, 0) /\ left = 0
    \/ part = "walk" /\ WalkInit /\ Resting

DatesNext ==
    /\ UNCHANGED part
    /\ \/ part = "object" /\ Next /\ UNCHANGED walkVars
       \/ part = "walk" /\ NextDay /\ UNCHANGED vars

DatesSpec == DatesInit /\ [][DatesNext]_<<part, vars, walkVars>>

-----------------------------------------------------------------------------
\* What is written is read again: a field that is set, a weekday that is set
\* within its week, a move that is taken back, a month out of range.
WritesAreRead ==
    part = "walk" => SetThenGet /\ SettingWeekdayStaysInWeek /\ MoveIsUndone /\ MonthsCarry

\* A roll changes its own field and nothing else, so that it can be undone.
RollsStayInField == part = "walk" => RollKeepsOtherFields /\ RollIsUndone

\* The number of periods between two instants is the number of whole ones, on
\* every day; a month too short for the day counts once it is over.
DifferenceFits == part = "walk" => DifferencesFit

\* BOOST_ASSERT(value >= 0 && value < range) of adjust_value, gregorian.cpp:552.
RollAssertion == part = "walk" => RollsStartInRange
=============================================================================
