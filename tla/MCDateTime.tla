----------------------------- MODULE MCDateTime -----------------------------
(* A small instance: a date_time around the epoch of a Windows build, and   *)
(* calendars that walk through two years.                                   *)
EXTENDS Dates

Utc == [local |-> FALSE, tzoff |-> 0]
Local == [local |-> TRUE, tzoff |-> 0]
East == [local |-> FALSE, tzoff |-> 45000]
West == [local |-> FALSE, tzoff |-> -34200]

MCZones == {Local, West}
Monday == {1}

\* 2 January 1970 12:00:00 and 31 January 2012 13:59:58.
MCInstants == {129600, 1328018398}

MCValues ==
    [year |-> {1969}, month |-> {-1, 1}, day |-> {-2, 30}, hour |-> {-11, 17},
     hour_12 |-> {7}, am_pm |-> {-1}, minute |-> {75}, second |-> {7},
     day_of_year |-> {366}, day_of_week |-> {-1, 2}, day_of_week_local |-> {3},
     week_of_year |-> {-1}, week_of_month |-> {5}, day_of_week_in_month |-> {2}]

MCAmounts == {-1, 5}

MCYearWindow == 1902 .. 2036

\* From 30 December 1999 23:59:58 through a leap year, and with every zone and
\* first day of the week to the leap day; from 27 February 2005 23:59:58 through
\* a year that is not.
Walk(f, z, t, n) == [fdow |-> f, local |-> z.local, tzoff |-> z.tzoff, time |-> t, days |-> n]
MCWalks ==
    {Walk(f, Utc, 946598398, IF f = 1 THEN 375 ELSE 65) : f \in 0 .. 6}
        \cup {Walk(1, z, 946598398, 65) : z \in {Local, East, West}}
        \cup {Walk(5, Utc, 1109548798, 375)}

Day == 86400

MCSteps == {-13, -1, 2, 30}
MCYears == {1969, 1972, 2000, 2001, 2036}
MCDeltas == {-366 * Day - 1, -31 * Day, -29 * Day, -28 * Day + 1, -1, 0, Day - 1, 29 * Day,
             31 * Day + 1, 366 * Day - 1}
=============================================================================
