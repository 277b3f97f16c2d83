------------------------------ MODULE DateTime ------------------------------
(***************************************************************************)
(* One boost::locale::date_time object and the calls its owner makes       *)
(* (src/src/shared/date_time.cpp over src/src/util/gregorian.cpp).         *)
(* Assigning a period set, and set(f, v), which is a set of one, is a      *)
(* sequence of set_value calls that leaves the object with pending fields, *)
(* and a final normalize.  In a Windows build a call may throw between two *)
(* of them, and the object lives on with whatever was pending.             *)
(***************************************************************************)
EXTENDS Gregorian, Sequences

CONSTANTS
    FirstDays, \* first days of the week
    Zones,     \* the zones an object may be created in: records [local, tzoff]
    Instants,  \* the instants passed to the constructor and to time(t)
    Values,    \* Values[m]: the values the period m is set to
    Amounts,   \* the amounts periods are moved and rolled by
    YearWindow, \* bound: the years whose dates an object is moved to
    MaxCalls,  \* bound: the calls made on the object
    MaxWork    \* bound: those calls and the elements of a period set together

ASSUME DomainAssumption ==
    /\ FirstDays \subseteq 0 .. 6
    /\ \A z \in Zones : z.local \in BOOLEAN /\ z.tzoff \in Int
    /\ Instants \subseteq Int
    /\ \A m \in Periods : Values[m] \subseteq Int
    /\ Amounts \subseteq Int

VARIABLES
    cal,     \* impl_, the calendar object
    setting, \* TRUE while operator=(period set) is running
    asked,   \* history: the <<period, value>> pairs that call has set so far
    stages,  \* history: the calendar when the call that runs, if any, began, and
             \* after each set_value of it since
    threw,   \* the last call ended in date_time_error
    calls    \* the calls made so far

vars == <<cal, setting, asked, stages, threw, calls>>

Init ==
    /\ \E f \in FirstDays, z \in Zones, t \in Instants :
            /\ cal = At(f, z.local, z.tzoff, t)
            /\ CanShow(cal, t)
    /\ setting = FALSE
    /\ asked = <<>>
    /\ stages = <<cal>>
    /\ threw = FALSE
    /\ calls = 0

Call ==
    /\ ~setting
    /\ calls < MaxCalls
    /\ calls' = calls + 1

\* Faulty: the fields are taken over before the instant is checked.
Finish_Early(c) ==
    /\ cal' = normalize(c)
    /\ threw' = ~CanNormalize(c)

\* Normalizing c is the last thing a call does: either it succeeds, or it
\* throws and c keeps its pending fields.
Finish(c) ==
    /\ cal' = IF CanNormalize(c) THEN normalize(c) ELSE c
    /\ threw' = ~CanNormalize(c)

\* operator=(s), set(f, v): the loop over the set's elements begins.
BeginSet ==
    /\ Call
    /\ setting' = TRUE
    /\ asked' = <<>>
    /\ threw' = FALSE
    /\ UNCHANGED <<cal, stages>>

\* One set_value.  A relative mark normalizes first, and that may throw.
SetValue(m, v) ==
    /\ setting
    /\ Len(asked) + calls < MaxWork
    /\ IF m \in RelativeMarks /\ ~CanNormalize(cal)
       THEN /\ setting' = FALSE /\ threw' = TRUE /\ asked' = <<>> /\ stages' = <<cal>>
            /\ UNCHANGED cal
       ELSE /\ cal' = set_value(cal, m, v)
            /\ asked' = Append(asked, <<m, v>>)
            /\ stages' = Append(stages, cal')
            /\ UNCHANGED <<setting, threw>>
    /\ UNCHANGED calls

\* Faulty: the final normalize is left out.
EndSet_Pending ==
    /\ setting
    /\ threw' = FALSE /\ setting' = FALSE /\ asked' = <<>> /\ stages' = <<cal>>
    /\ UNCHANGED <<cal, calls>>

EndSet ==
    /\ setting
    /\ Finish(cal)
    /\ setting' = FALSE
    /\ asked' = <<>>
    /\ stages' = <<cal'>>
    /\ UNCHANGED calls

\* operator+=, operator-= with one period.
MoveBy(m, n) ==
    /\ Call
    /\ MovePending(cal, m, n).upd.year \in YearWindow
    /\ Finish(MovePending(cal, m, n))
    /\ stages' = <<cal'>>
    /\ UNCHANGED <<setting, asked>>

\* operator<<=, operator>>= with one period.
RollBy(m, n) ==
    /\ Call
    /\ m = "year" => RollValue(cal, m, n) \in YearWindow
    /\ IF m \in RelativeMarks /\ ~CanNormalize(cal)
       THEN threw' = TRUE /\ UNCHANGED cal
       ELSE Finish(set_value(cal, m, RollValue(cal, m, n)))
    /\ stages' = <<cal'>>
    /\ UNCHANGED <<setting, asked>>

\* time(t).
SetTime(t) ==
    /\ Call
    /\ cal' = IF CanShow(cal, t) THEN from_time(cal, t) ELSE cal
    /\ threw' = ~CanShow(cal, t)
    /\ stages' = <<cal'>>
    /\ UNCHANGED <<setting, asked>>

Next ==
    \/ BeginSet
    \/ EndSet
    \/ \E m \in Periods : \E v \in Values[m] : SetValue(m, v)
    \/ \E m \in Periods, n \in Amounts : MoveBy(m, n) \/ RollBy(m, n)
    \/ \E t \in Instants : SetTime(t)

Spec == Init /\ [][Next]_vars

-----------------------------------------------------------------------------
Fields(c) == IF c.local THEN localtime(c.time + c.tzoff) ELSE gmtime(c.time + c.tzoff)

TypeOK ==
    /\ cal \in Calendar
    /\ cal.tm \in ShownTm
    /\ setting \in BOOLEAN
    /\ asked \in Seq(Periods \X Int)
    /\ stages \in Seq(Calendar) /\ Len(stages) = Len(asked) + 1
    /\ threw \in BOOLEAN
    /\ calls \in Nat

\* Whatever was set, moved, rolled or thrown, the fields get() reads are the
\* fields of the instant time() returns, in the object's zone; and when
\* nothing is pending the next update starts from those fields.
FieldsDescribeTime ==
    /\ cal.tm = Fields(cal)
    /\ cal.normalized => cal.upd = cal.tm

\* A call that returns normally leaves nothing pending, also when a call
\* before it threw and left the object half updated.
SuccessLeavesNothingPending == ~setting /\ ~threw => cal.normalized

\* In a Windows build no call, and no call cut short by an exception, takes the
\* object to an instant that the C library would refuse to show.
NeverBeforeEpoch == Windows => cal.time + cal.tzoff >= 0

\* The call began with nothing pending.
Clean == stages[1].normalized

\* Every field a period set asked for is there when the assignment is done, in
\* whatever order the set lists them, if all its values are in range: the clock
\* fields always, year, month and day when that date exists and no relative mark
\* moved it, a weekday or a day that the year has when it came last.  Of two values
\* for one period the later one counts.
Marks == {asked[i][1] : i \in DOMAIN asked}
SameClock(p, q) == {p, q} \in {{"hour", "hour_12"}, {"hour", "am_pm"}}
DateExists ==
    LET u == cal.upd IN u.mon \in 0 .. 11 /\ u.mday \in 1 .. days_in_month(u.year, u.mon + 1)

InRange(p) == p[2] >= Minimum(p[1]) /\ p[2] <= AbsoluteMaximum[p[1]]

Certain(i) ==
    LET m == asked[i][1]
    IN  CASE m \in ClockPeriods -> \A p \in Marks : ~SameClock(m, p)
          [] m \in {"year", "month", "day"} -> DateExists /\ Marks \cap RelativeMarks = {}
          [] m \in {"day_of_year", "day_of_week", "day_of_week_local"} ->
                i = Len(asked) /\ asked[i][2] <= ActualMaximum(cal)[m]
          [] OTHER -> FALSE
SetAgain(i) == \E j \in i + 1 .. Len(asked) : asked[j][1] = asked[i][1]

CertainAreGot ==
    \A i \in DOMAIN asked :
        Certain(i) /\ ~SetAgain(i) => Current(cal')[asked[i][1]] = asked[i][2]

AskedIsGot ==
    [][EndSet /\ Clean /\ ~threw' /\ (\A i \in DOMAIN asked : InRange(asked[i]))
           => CertainAreGot]_vars

\* A call that throws shows no half of a change, whatever failed before it: the
\* instant and the fields are together those from before the call, or those of
\* what was pending when one of its elements, a relative mark, normalized it.
\* (A roll by a relative mark is like a set of that one element.)
Shown(c) == <<c.time, c.tm>>

NormalizedAt(k) ==
    /\ CanNormalize(stages[k])
    /\ IF asked = <<>> THEN k = 1 ELSE k \in DOMAIN asked /\ asked[k][1] \in RelativeMarks

PartsShown ==
    {Shown(stages[1])}
        \cup {Shown(normalize(stages[k])) : k \in {k \in DOMAIN stages : NormalizedAt(k)}}

ThrowShowsPart == [][threw' => Shown(cal') \in PartsShown]_vars
=============================================================================
