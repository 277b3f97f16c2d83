--------------------------- MODULE DateTimeProofs ---------------------------
(***************************************************************************)
(* What holds of a date_time object after every sequence of calls, for     *)
(* every zone, first day of the week, instant, value and amount; and what  *)
(* holds on every day that a calendar reaches.                             *)
(***************************************************************************)
EXTENDS Dates, GregorianProofs

\* What get() can show: the fields of the instant, and so a month that exists.
Shows(c) == c \in Calendar /\ c.tm = Fields(c) /\ (c.normalized => c.upd = c.tm)

LEMMA ShowsMonth ==
    ASSUME NEW c, Shows(c)
    PROVE  c.tm.mon \in 0 .. 11
<1>1. c.time + c.tzoff \in Int /\ c.time + c.tzoff + SystemOffset \in Int
  BY SystemOffsetAssumption DEF Shows, Calendar
<1> QED BY <1>1, GmtimeRange DEF Shows, Fields, localtime

LEMMA FromTimeShows ==
    ASSUME NEW c \in Calendar, NEW t \in Int
    PROVE  Shows(from_time(c, t)) /\ from_time(c, t).normalized
<1>1. from_time(c, t) \in Calendar
  BY FromTimeTyped
<1> QED BY <1>1 DEF from_time, Shows, Fields, Calendar

LEMMA NormalizeShows ==
    ASSUME NEW c, Shows(c)
    PROVE  Shows(normalize(c)) /\ normalize(c).normalized
<1>1. CASE c.normalized
  BY <1>1 DEF normalize, Shows
<1>2. CASE ~c.normalized
  <2> DEFINE p == Point(c)
             f == IF c.local THEN localtime(p) ELSE gmtime(p)
             d == [c EXCEPT !.time = p - c.tzoff, !.tm = f, !.upd = f, !.normalized = TRUE]
  <2>1. normalize(c) = d
    BY <1>2 DEF normalize
  <2>2. normalize(c) \in Calendar
    BY NormalizeTyped DEF Shows
  <2>3. p \in Int /\ c.tzoff \in Int
    BY PointInt DEF Shows, Calendar
  <2> HIDE DEF p
  <2>4. /\ d.time = p - c.tzoff /\ d.tm = f /\ d.upd = f /\ d.normalized
        /\ d.local = c.local /\ d.tzoff = c.tzoff
    BY DEF Shows, Calendar
  <2>5. d.time + d.tzoff = p
    BY <2>3, <2>4
  <2>6. d.tm = Fields(d)
    <3> HIDE DEF d
    <3> QED BY <2>4, <2>5 DEF Fields
  <2> QED BY <2>1, <2>2, <2>4, <2>6 DEF Shows
<1> QED BY <1>1, <1>2

LEMMA PendingShows ==
    ASSUME NEW c, Shows(c), NEW d, OnlyPending(c, d)
    PROVE  Shows(d)
  BY DEF Shows, OnlyPending, Fields

LEMMA SetValueShows ==
    ASSUME NEW c, Shows(c), NEW m \in Periods, NEW v \in Int
    PROVE  Shows(set_value(c, m, v))
<1>1. CASE m \in RelativeMarks
  <2>1. Shows(normalize(c))
    BY NormalizeShows
  <2>2. OnlyPending(normalize(c), SetRelative(normalize(c), m, v))
    BY <1>1, <2>1, SetRelativeTyped DEF Shows
  <2> QED BY <1>1, <2>1, <2>2, PendingShows DEF set_value
<1>2. CASE m \notin RelativeMarks
  <2>1. OnlyPending(c, SetPlain(c, m, v))
    BY <1>2, SetPlainTyped DEF Shows
  <2> QED BY <1>2, <2>1, PendingShows DEF set_value
<1> QED BY <1>1, <1>2

-----------------------------------------------------------------------------
TypeInv ==
    /\ cal \in Calendar
    /\ setting \in BOOLEAN
    /\ asked \in Seq(Periods \X Int)
    /\ threw \in BOOLEAN
    /\ calls \in Nat

Inv == TypeInv /\ Shows(cal)

\* The last step of every call: the object shows a normalized or an unchanged
\* instant, and only an exception leaves fields pending.
LEMMA FinishShows ==
    ASSUME NEW c, Shows(c), Finish(c)
    PROVE  /\ Shows(cal') /\ threw' \in BOOLEAN
           /\ ~threw' => cal'.normalized
  BY NormalizeShows DEF Finish, CanNormalize

LEMMA NothingAsked == <<>> \in Seq(Periods \X Int)
  OBVIOUS

LEMMA SetValueInv ==
    ASSUME Inv, NEW m \in Periods, NEW v \in Values[m], SetValue(m, v)
    PROVE  Inv'
<1>1. v \in Int
  BY DomainAssumption
<1>2. CASE m \in RelativeMarks /\ ~CanNormalize(cal)
  BY <1>2, NothingAsked DEF SetValue, Inv, TypeInv
<1>3. CASE ~(m \in RelativeMarks /\ ~CanNormalize(cal))
  <2>1. /\ cal' = set_value(cal, m, v) /\ asked' = Append(asked, <<m, v>>)
        /\ UNCHANGED <<setting, threw, calls>>
    BY <1>3 DEF SetValue
  <2>2. Shows(cal')
    BY <1>1, <2>1, SetValueShows DEF Inv
  <2>3. asked' \in Seq(Periods \X Int)
    BY <1>1, <2>1 DEF Inv, TypeInv
  <2> QED BY <2>1, <2>2, <2>3 DEF Inv, TypeInv, Shows
<1> QED BY <1>2, <1>3

LEMMA MoveByInv ==
    ASSUME Inv, NEW m \in Periods, NEW n \in Amounts, MoveBy(m, n)
    PROVE  Inv' /\ (~threw' => cal'.normalized)
<1>1. n \in Int
  BY DomainAssumption
<1>2. OnlyPending(cal, MovePending(cal, m, n))
  BY <1>1, MoveTyped DEF Inv, Shows
<1>3. Shows(MovePending(cal, m, n))
  BY <1>2, PendingShows DEF Inv
<1>4. Shows(cal') /\ threw' \in BOOLEAN /\ (~threw' => cal'.normalized)
  BY <1>3, FinishShows DEF MoveBy
<1> QED BY <1>4 DEF MoveBy, Call, Inv, TypeInv, Shows

LEMMA RollByInv ==
    ASSUME Inv, NEW m \in Periods, NEW n \in Amounts, RollBy(m, n)
    PROVE  Inv' /\ (~threw' => cal'.normalized)
<1>1. RollValue(cal, m, n) \in Int
  BY DomainAssumption, ShowsMonth, RollValueInt DEF Inv, Shows
<1>2. Shows(cal') /\ threw' \in BOOLEAN /\ (~threw' => cal'.normalized)
  <2>1. CASE m \in RelativeMarks /\ ~CanNormalize(cal)
    BY <2>1 DEF RollBy, Inv
  <2>2. CASE ~(m \in RelativeMarks /\ ~CanNormalize(cal))
    <3>1. Finish(set_value(cal, m, RollValue(cal, m, n)))
      BY <2>2 DEF RollBy
    <3> QED BY <1>1, <3>1, SetValueShows, FinishShows DEF Inv
  <2> QED BY <2>1, <2>2
<1> QED BY <1>2 DEF RollBy, Call, Inv, TypeInv, Shows

LEMMA SetTimeInv ==
    ASSUME Inv, NEW t \in Instants, SetTime(t)
    PROVE  Inv' /\ (~threw' => cal'.normalized)
<1>1. t \in Int
  BY DomainAssumption
<1>2. Shows(from_time(cal, t)) /\ from_time(cal, t).normalized
  BY <1>1, FromTimeShows DEF Inv, Shows
<1>3. Shows(cal') /\ threw' \in BOOLEAN /\ (~threw' => cal'.normalized)
  BY <1>2 DEF SetTime, CanShow, Inv
<1> QED BY <1>3 DEF SetTime, Call, Inv, TypeInv, Shows

LEMMA InitInv == Init => Inv /\ SuccessLeavesNothingPending
<1> SUFFICES ASSUME Init
             PROVE  Inv /\ SuccessLeavesNothingPending
  OBVIOUS
<1>1. PICK f \in FirstDays, z \in Zones, t \in Instants : cal = At(f, z.local, z.tzoff, t)
  BY DEF Init
<1> DEFINE c == [fdow |-> f, time |-> 0, tm |-> gmtime(0), upd |-> gmtime(0),
                 normalized |-> TRUE, local |-> z.local, tzoff |-> z.tzoff]
<1>2. f \in 0 .. 6 /\ z.local \in BOOLEAN /\ z.tzoff \in Int /\ t \in Int
  BY DomainAssumption
<1>3. c \in Calendar
  BY <1>2, GmtimeRange DEF Calendar
<1>4. cal = from_time(c, t)
  BY <1>1 DEF At
<1>5. Shows(cal) /\ cal.normalized
  <2> HIDE DEF c
  <2> QED BY <1>2, <1>3, <1>4, FromTimeShows
<1> QED BY <1>5, NothingAsked DEF Init, Inv, TypeInv, Shows, SuccessLeavesNothingPending

LEMMA NextInv ==
    Inv /\ SuccessLeavesNothingPending /\ [Next]_vars
        => Inv' /\ SuccessLeavesNothingPending'
<1> SUFFICES ASSUME Inv, SuccessLeavesNothingPending, [Next]_vars
             PROVE  Inv' /\ SuccessLeavesNothingPending'
  OBVIOUS
<1>1. CASE BeginSet
  <2>1. calls' \in Nat
    BY <1>1 DEF BeginSet, Call, Inv, TypeInv
  <2> QED BY <1>1, <2>1, NothingAsked
          DEF BeginSet, Inv, TypeInv, Shows, Fields, SuccessLeavesNothingPending
<1>2. CASE EndSet
  <2>1. Shows(cal') /\ threw' \in BOOLEAN /\ (~threw' => cal'.normalized)
    BY <1>2, FinishShows DEF EndSet, Inv
  <2> QED BY <1>2, <2>1, NothingAsked
          DEF EndSet, Inv, TypeInv, Shows, SuccessLeavesNothingPending
<1>3. ASSUME NEW m \in Periods, NEW v \in Values[m], SetValue(m, v)
      PROVE  Inv' /\ SuccessLeavesNothingPending'
  <2>1. Inv'
    BY <1>3, SetValueInv
  <2>2. SuccessLeavesNothingPending'
    BY <1>3 DEF SetValue, SuccessLeavesNothingPending
  <2> QED BY <2>1, <2>2
<1>4. ASSUME NEW m \in Periods, NEW n \in Amounts, MoveBy(m, n) \/ RollBy(m, n)
      PROVE  Inv' /\ SuccessLeavesNothingPending'
  BY <1>4, MoveByInv, RollByInv DEF SuccessLeavesNothingPending
<1>5. ASSUME NEW t \in Instants, SetTime(t)
      PROVE  Inv' /\ SuccessLeavesNothingPending'
  BY <1>5, SetTimeInv DEF SuccessLeavesNothingPending
<1>6. CASE UNCHANGED vars
  BY <1>6 DEF vars, Inv, TypeInv, Shows, Fields, SuccessLeavesNothingPending
<1> QED BY <1>1, <1>2, <1>3, <1>4, <1>5, <1>6 DEF Next

\* The calendars that stages keeps: one before each element and the one of now.
Staged ==
    /\ stages \in Seq(Calendar) /\ Len(stages) = Len(asked) + 1
    /\ stages[Len(stages)] = cal
    /\ IF setting THEN ~threw ELSE asked = <<>>

LEMMA OneStage ==
    ASSUME cal' \in Calendar, stages' = <<cal'>>, asked' = <<>>, ~setting'
    PROVE  Staged'
  BY DEF Staged

\* What one stage more leaves.
LEMMA StagesGrow ==
    ASSUME NEW s \in Seq(Calendar), NEW c \in Calendar, NEW t, t = Append(s, c)
    PROVE  /\ t \in Seq(Calendar) /\ Len(t) = Len(s) + 1 /\ t[Len(t)] = c
           /\ \A i \in 1 .. Len(s) : t[i] = s[i]
  OBVIOUS

LEMMA InitStaged == Init /\ Inv => Staged
  BY DEF Init, Inv, TypeInv, Staged

LEMMA NextStaged == Inv /\ Staged /\ Inv' /\ [Next]_vars => Staged'
<1> SUFFICES ASSUME Inv, Staged, Inv', [Next]_vars
             PROVE  Staged'
  OBVIOUS
<1>1. cal' \in Calendar
  BY DEF Inv, TypeInv
<1>2. CASE BeginSet
  BY <1>2 DEF BeginSet, Call, Staged
<1>3. CASE EndSet
  BY <1>1, <1>3, OneStage DEF EndSet
<1>4. ASSUME NEW m \in Periods, NEW v \in Values[m], SetValue(m, v)
      PROVE  Staged'
  <2>1. CASE m \in RelativeMarks /\ ~CanNormalize(cal)
    BY <1>1, <1>4, <2>1, OneStage DEF SetValue
  <2>2. CASE ~(m \in RelativeMarks /\ ~CanNormalize(cal))
    <3>1. /\ stages' = Append(stages, cal') /\ asked' = Append(asked, <<m, v>>)
          /\ setting /\ UNCHANGED <<setting, threw>>
      BY <1>4, <2>2 DEF SetValue
    <3>2. Len(asked') = Len(asked) + 1
      BY <3>1 DEF Inv, TypeInv
    <3>3. /\ stages' \in Seq(Calendar) /\ Len(stages') = Len(stages) + 1
          /\ stages'[Len(stages')] = cal'
      BY <1>1, <3>1, StagesGrow DEF Staged
    <3> QED BY <3>1, <3>2, <3>3 DEF Staged
  <2> QED BY <2>1, <2>2
<1>5. ASSUME NEW m \in Periods, NEW n \in Amounts, MoveBy(m, n) \/ RollBy(m, n)
      PROVE  Staged'
  BY <1>1, <1>5, OneStage DEF MoveBy, RollBy, Call, Staged
<1>6. ASSUME NEW t \in Instants, SetTime(t)
      PROVE  Staged'
  BY <1>1, <1>6, OneStage DEF SetTime, Call, Staged
<1>7. CASE UNCHANGED vars
  BY <1>7 DEF vars, Staged
<1> QED BY <1>2, <1>3, <1>4, <1>5, <1>6, <1>7 DEF Next

LEMMA ShowsTm ==
    ASSUME NEW c, Shows(c)
    PROVE  c.tm \in ShownTm
<1>1. c.time + c.tzoff \in Int /\ c.time + c.tzoff + SystemOffset \in Int
  BY SystemOffsetAssumption DEF Shows, Calendar
<1>2. \A t \in Int : gmtime(t) \in ShownTm
  <2> SUFFICES ASSUME NEW t \in Int
               PROVE  gmtime(t) \in ShownTm
    OBVIOUS
  <2> DEFINE f == gmtime(t)
  <2>1. /\ f \in Tm /\ f.mon \in 0 .. 11 /\ f.mday \in 1 .. 31 /\ f.hour \in 0 .. 23
        /\ f.min \in 0 .. 59 /\ f.sec \in 0 .. 59 /\ f.wday \in 0 .. 6 /\ f.yday \in 0 .. 365
    BY GmtimeRange
  <2> HIDE DEF f
  <2>2. f \in ShownTm
    BY <2>1 DEF Tm, ShownTm
  <2> QED BY <2>2 DEF f
<1> QED BY <1>1, <1>2 DEF Shows, Fields, localtime

\* date_time: whatever was set, moved, rolled or thrown, get() reads the fields
\* of the instant that time() returns, in the object's zone.
THEOREM FieldsAlwaysDescribeTime == Spec => [](TypeOK /\ FieldsDescribeTime)
<1>1. Inv /\ Staged => TypeOK /\ FieldsDescribeTime
  BY ShowsTm DEF Inv, Staged, TypeInv, TypeOK, Shows, FieldsDescribeTime
<1> QED BY <1>1, InitInv, NextInv, InitStaged, NextStaged, PTL DEF Spec

\* A call of date_time that returns normally leaves no field pending, also when
\* calls before it were cut short by an exception.
THEOREM SuccessAlwaysNormalizes == Spec => []SuccessLeavesNothingPending
  BY InitInv, NextInv, PTL DEF Spec

-----------------------------------------------------------------------------
(* A Windows build refuses what lies before 1970. *)

Late(c) == Windows => c.time + c.tzoff >= 0

LEMMA NormalizeLate ==
    ASSUME NEW c, Shows(c), Late(c), CanNormalize(c)
    PROVE  Late(normalize(c))
<1>1. CASE c.normalized
  BY <1>1 DEF normalize
<1>2. CASE ~c.normalized
  <2>1. Point(c) \in Int /\ c.tzoff \in Int
    BY PointInt DEF Shows, Calendar
  <2>2. normalize(c).time = Point(c) - c.tzoff /\ normalize(c).tzoff = c.tzoff
    BY <1>2 DEF normalize, Shows, Calendar
  <2> QED BY <1>2, <2>1, <2>2 DEF CanNormalize, Late
<1> QED BY <1>1, <1>2

LEMMA SetValueLate ==
    ASSUME NEW c, Shows(c), Late(c), NEW m \in Periods, NEW v \in Int,
           m \in RelativeMarks => CanNormalize(c)
    PROVE  Late(set_value(c, m, v))
<1>1. CASE m \in RelativeMarks
  <2>1. Shows(normalize(c)) /\ Late(normalize(c))
    BY <1>1, NormalizeShows, NormalizeLate
  <2>2. OnlyPending(normalize(c), SetRelative(normalize(c), m, v))
    BY <1>1, <2>1, SetRelativeTyped DEF Shows
  <2> QED BY <1>1, <2>1, <2>2 DEF set_value, OnlyPending, Late
<1>2. CASE m \notin RelativeMarks
  <2>1. OnlyPending(c, SetPlain(c, m, v))
    BY <1>2, SetPlainTyped DEF Shows
  <2> QED BY <1>2, <2>1 DEF set_value, OnlyPending, Late
<1> QED BY <1>1, <1>2

LEMMA FinishLate ==
    ASSUME NEW c, Shows(c), Late(c), Finish(c)
    PROVE  Late(cal')
  BY NormalizeLate DEF Finish

LEMMA FromTimeLate ==
    ASSUME NEW c \in Calendar, NEW t \in Int, CanShow(c, t)
    PROVE  Late(from_time(c, t))
<1>1. from_time(c, t).time = t /\ from_time(c, t).tzoff = c.tzoff
  BY DEF from_time, Calendar
<1> QED BY <1>1 DEF CanShow, Late

LEMMA InitLate == Init => Late(cal)
<1> SUFFICES ASSUME Init
             PROVE  Late(cal)
  OBVIOUS
<1>1. PICK f \in FirstDays, z \in Zones, t \in Instants :
        cal = At(f, z.local, z.tzoff, t) /\ CanShow(cal, t)
  BY DEF Init
<1> DEFINE c == [fdow |-> f, time |-> 0, tm |-> gmtime(0), upd |-> gmtime(0),
                 normalized |-> TRUE, local |-> z.local, tzoff |-> z.tzoff]
<1>2. f \in 0 .. 6 /\ z.local \in BOOLEAN /\ z.tzoff \in Int /\ t \in Int
  BY DomainAssumption
<1>3. c \in Calendar /\ c.tzoff = z.tzoff
  BY <1>2, GmtimeRange DEF Calendar
<1>4. cal = from_time(c, t)
  BY <1>1 DEF At
<1>5. cal.tzoff = c.tzoff
  BY <1>3, <1>4 DEF from_time, Calendar
<1> HIDE DEF c
<1> QED BY <1>1, <1>2, <1>3, <1>4, <1>5, FromTimeLate DEF CanShow

LEMMA NextLate == Inv /\ Late(cal) /\ [Next]_vars => Late(cal)'
<1> SUFFICES ASSUME Inv, Late(cal), [Next]_vars
             PROVE  Late(cal')
  BY DEF Late
<1>1. CASE BeginSet
  BY <1>1 DEF BeginSet
<1>2. CASE EndSet
  BY <1>2, FinishLate DEF EndSet, Inv
<1>3. ASSUME NEW m \in Periods, NEW v \in Values[m], SetValue(m, v)
      PROVE  Late(cal')
  <2>1. v \in Int
    BY DomainAssumption
  <2>2. CASE m \in RelativeMarks /\ ~CanNormalize(cal)
    BY <1>3, <2>2 DEF SetValue
  <2>3. CASE ~(m \in RelativeMarks /\ ~CanNormalize(cal))
    <3>1. cal' = set_value(cal, m, v)
      BY <1>3, <2>3 DEF SetValue
    <3>2. Late(set_value(cal, m, v))
      BY <2>1, <2>3, SetValueLate DEF Inv
    <3> QED BY <3>1, <3>2
  <2> QED BY <2>2, <2>3
<1>4. ASSUME NEW m \in Periods, NEW n \in Amounts, MoveBy(m, n)
      PROVE  Late(cal')
  <2>1. n \in Int
    BY DomainAssumption
  <2>2. OnlyPending(cal, MovePending(cal, m, n))
    BY <2>1, MoveTyped DEF Inv, Shows
  <2>3. Shows(MovePending(cal, m, n)) /\ Late(MovePending(cal, m, n))
    BY <2>2, PendingShows DEF Inv, OnlyPending, Late
  <2> QED BY <1>4, <2>3, FinishLate DEF MoveBy
<1>5. ASSUME NEW m \in Periods, NEW n \in Amounts, RollBy(m, n)
      PROVE  Late(cal')
  <2>1. RollValue(cal, m, n) \in Int
    BY DomainAssumption, ShowsMonth, RollValueInt DEF Inv, Shows
  <2>2. CASE m \in RelativeMarks /\ ~CanNormalize(cal)
    BY <1>5, <2>2 DEF RollBy
  <2>3. CASE ~(m \in RelativeMarks /\ ~CanNormalize(cal))
    <3>1. Finish(set_value(cal, m, RollValue(cal, m, n)))
      BY <1>5, <2>3 DEF RollBy
    <3>2. /\ Shows(set_value(cal, m, RollValue(cal, m, n)))
          /\ Late(set_value(cal, m, RollValue(cal, m, n)))
      BY <2>1, <2>3, SetValueShows, SetValueLate DEF Inv
    <3> QED BY <3>1, <3>2, FinishLate
  <2> QED BY <2>2, <2>3
<1>6. ASSUME NEW t \in Instants, SetTime(t)
      PROVE  Late(cal')
  <2>1. t \in Int
    BY DomainAssumption
  <2> QED BY <1>6, <2>1, FromTimeLate DEF SetTime, Inv, Shows
<1>7. CASE UNCHANGED vars
  BY <1>7 DEF vars
<1> QED BY <1>1, <1>2, <1>3, <1>4, <1>5, <1>6, <1>7 DEF Next

\* In a Windows build a date_time never gets to an instant before 1970, also
\* when a call throws half way through a period set.
THEOREM NeverGetsBeforeEpoch == Spec => []NeverBeforeEpoch
<1>1. Late(cal) <=> NeverBeforeEpoch
  BY DEF Late, NeverBeforeEpoch
<1> QED BY <1>1, InitInv, NextInv, InitLate, NextLate, PTL DEF Spec

-----------------------------------------------------------------------------
(* A call that throws. *)

\* While a set is worked off the object shows what it showed before, or what was
\* pending when one of its elements normalized it.
PartInv ==
    \/ Shown(cal) = Shown(stages[1])
    \/ \E k \in DOMAIN asked : /\ asked[k][1] \in RelativeMarks /\ CanNormalize(stages[k])
                              /\ Shown(cal) = Shown(normalize(stages[k]))

LEMMA FirstStage == Staged /\ asked = <<>> => stages[1] = cal
  BY DEF Staged

LEMMA PartIsShown ==
    ASSUME Inv, Staged, PartInv
    PROVE  Shown(cal) \in PartsShown
<1>1. CASE Shown(cal) = Shown(stages[1])
  BY <1>1 DEF PartsShown
<1>2. ASSUME NEW k \in DOMAIN asked, asked[k][1] \in RelativeMarks, CanNormalize(stages[k]),
             Shown(cal) = Shown(normalize(stages[k]))
      PROVE  Shown(cal) \in PartsShown
  <2>1. asked # <<>> /\ k \in DOMAIN stages
    BY DEF Inv, TypeInv, Staged
  <2> QED BY <1>2, <2>1 DEF PartsShown, NormalizedAt
<1> QED BY <1>1, <1>2 DEF PartInv

LEMMA PendingShown ==
    ASSUME NEW c, NEW d, OnlyPending(c, d)
    PROVE  Shown(d) = Shown(c)
  BY DEF OnlyPending, Shown

\* A value that is set shows what normalizing first shows, or nothing new.
LEMMA SetValueShown ==
    ASSUME NEW c, Shows(c), NEW m \in Periods, NEW v \in Int
    PROVE  Shown(set_value(c, m, v)) = IF m \in RelativeMarks THEN Shown(normalize(c)) ELSE Shown(c)
<1>1. CASE m \in RelativeMarks
  <2>1. Shows(normalize(c))
    BY NormalizeShows
  <2>2. OnlyPending(normalize(c), SetRelative(normalize(c), m, v))
    BY <1>1, <2>1, SetRelativeTyped DEF Shows
  <2> QED BY <1>1, <2>2, PendingShown DEF set_value
<1>2. CASE m \notin RelativeMarks
  <2>1. OnlyPending(c, SetPlain(c, m, v))
    BY <1>2, SetPlainTyped DEF Shows
  <2> QED BY <1>2, <2>1, PendingShown DEF set_value
<1> QED BY <1>1, <1>2

LEMMA SetValuePart ==
    ASSUME Inv, Staged, PartInv, Inv', NEW m \in Periods, NEW v \in Values[m], SetValue(m, v),
           ~(m \in RelativeMarks /\ ~CanNormalize(cal))
    PROVE  PartInv'
<1>1. /\ cal' = set_value(cal, m, v) /\ stages' = Append(stages, cal')
      /\ asked' = Append(asked, <<m, v>>)
  BY DEF SetValue
<1>2. /\ stages \in Seq(Calendar) /\ Len(stages) = Len(asked) + 1 /\ stages[Len(stages)] = cal
      /\ asked \in Seq(Periods \X Int) /\ Len(asked) \in Nat /\ v \in Int /\ cal' \in Calendar
  BY DomainAssumption DEF Inv, TypeInv, Staged
<1>3. /\ stages'[1] = stages[1]
      /\ \A k \in DOMAIN asked : k \in DOMAIN asked' /\ asked'[k] = asked[k] /\ stages'[k] = stages[k]
  BY <1>1, <1>2
<1>4. LET k == Len(stages)
      IN k \in DOMAIN asked' /\ asked'[k][1] = m /\ stages'[k] = cal
  BY <1>1, <1>2
<1>5. Shown(cal') = IF m \in RelativeMarks THEN Shown(normalize(cal)) ELSE Shown(cal)
  BY <1>1, <1>2, SetValueShown DEF Inv
<1>6. CASE m \in RelativeMarks
  BY <1>4, <1>5, <1>6 DEF PartInv
<1>7. CASE m \notin RelativeMarks
  BY <1>3, <1>5, <1>7 DEF PartInv
<1> QED BY <1>6, <1>7

LEMMA NextPart == Inv /\ Staged /\ PartInv /\ Inv' /\ Staged' /\ [Next]_vars => PartInv'
<1> SUFFICES ASSUME Inv, Staged, PartInv, Inv', Staged', [Next]_vars
             PROVE  PartInv'
  OBVIOUS
<1>1. CASE asked' = <<>>
  <2>1. stages'[1] = cal'
    BY <1>1 DEF Staged
  <2> QED BY <2>1 DEF PartInv
<1>2. CASE asked' # <<>>
  <2>1. ASSUME NEW m \in Periods, NEW v \in Values[m], SetValue(m, v)
        PROVE  PartInv'
    <3>1. ~(m \in RelativeMarks /\ ~CanNormalize(cal))
      BY <1>2, <2>1 DEF SetValue
    <3> QED BY <2>1, <3>1, SetValuePart
  <2>2. CASE UNCHANGED vars
    BY <2>2 DEF vars, PartInv
  <2>3. CASE BeginSet \/ EndSet
    BY <1>2, <2>3 DEF BeginSet, EndSet
  <2>4. ASSUME NEW m \in Periods, NEW n \in Amounts, MoveBy(m, n) \/ RollBy(m, n)
        PROVE  FALSE
    BY <1>2, <2>4 DEF MoveBy, RollBy, Call, Staged
  <2>5. ASSUME NEW t \in Instants, SetTime(t)
        PROVE  FALSE
    BY <1>2, <2>5 DEF SetTime, Call, Staged
  <2> QED BY <2>1, <2>2, <2>3, <2>4, <2>5 DEF Next
<1> QED BY <1>1, <1>2

LEMMA ThrowShows ==
    ASSUME Inv, Staged, PartInv, Next, threw'
    PROVE  Shown(cal') \in PartsShown
<1>1. Shown(cal) \in PartsShown
  BY PartIsShown
<1>2. CASE BeginSet
  BY <1>2 DEF BeginSet
<1>3. CASE EndSet
  BY <1>1, <1>3 DEF EndSet, Finish
<1>4. ASSUME NEW m \in Periods, NEW v \in Values[m], SetValue(m, v)
      PROVE  Shown(cal') \in PartsShown
  BY <1>1, <1>4 DEF SetValue, Staged
<1>5. ASSUME NEW m \in Periods, NEW n \in Amounts, MoveBy(m, n)
      PROVE  Shown(cal') \in PartsShown
  <2>1. n \in Int
    BY DomainAssumption
  <2>2. OnlyPending(cal, MovePending(cal, m, n))
    BY <2>1, MoveTyped DEF Inv, Shows
  <2>3. cal' = MovePending(cal, m, n)
    BY <1>5 DEF MoveBy, Finish
  <2> QED BY <1>1, <2>2, <2>3, PendingShown
<1>6. ASSUME NEW m \in Periods, NEW n \in Amounts, RollBy(m, n)
      PROVE  Shown(cal') \in PartsShown
  <2> DEFINE v == RollValue(cal, m, n)
  <2>1. v \in Int
    BY DomainAssumption, ShowsMonth, RollValueInt DEF Inv, Shows
  <2>2. asked = <<>> /\ stages[1] = cal /\ 1 \in DOMAIN stages
    BY <1>6, FirstStage DEF RollBy, Call, Staged
  <2>3. CASE m \in RelativeMarks /\ ~CanNormalize(cal)
    BY <1>1, <1>6, <2>3 DEF RollBy
  <2>4. CASE ~(m \in RelativeMarks /\ ~CanNormalize(cal))
    <3>1. cal' = set_value(cal, m, v)
      BY <1>6, <2>4 DEF RollBy, Finish
    <3> HIDE DEF v
    <3>2. Shown(cal') = IF m \in RelativeMarks THEN Shown(normalize(cal)) ELSE Shown(cal)
      BY <2>1, <3>1, SetValueShown DEF Inv
    <3>3. CASE m \in RelativeMarks
      BY <2>2, <2>4, <3>2, <3>3 DEF PartsShown, NormalizedAt
    <3> QED BY <1>1, <3>2, <3>3
  <2> QED BY <2>3, <2>4
<1>7. ASSUME NEW t \in Instants, SetTime(t)
      PROVE  Shown(cal') \in PartsShown
  BY <1>1, <1>7 DEF SetTime
<1> QED BY <1>2, <1>3, <1>4, <1>5, <1>6, <1>7 DEF Next

\* date_time: a call that throws, in the middle of a period set or after other
\* calls that threw, shows no half of a change: what was shown when it began, or what
\* was pending, from the elements so far or from before, when one of its relative
\* marks normalized it (operator=, date_time.cpp:173).
THEOREM ThrowAlwaysShowsPart == Spec => ThrowShowsPart
<1>1. Init /\ Inv => PartInv
  BY DEF Init, PartInv
<1>2. Inv /\ Staged /\ PartInv /\ [Next]_vars => [threw' => Shown(cal') \in PartsShown]_vars
  BY ThrowShows
<1> QED BY <1>1, <1>2, InitInv, NextInv, InitStaged, NextStaged, NextPart, PTL
        DEF Spec, ThrowShowsPart

-----------------------------------------------------------------------------
(* Every day since the year 1. *)

\* What localtime and mktime add and take off besides the zone offset.
Shift(c) == IF c.local THEN SystemOffset ELSE 0

LEMMA FieldsAndPoint ==
    ASSUME NEW c \in Calendar
    PROVE  /\ Shift(c) \in Int /\ c.time \in Int /\ c.tzoff \in Int /\ c.upd \in Tm
           /\ Fields(c) = gmtime(c.time + c.tzoff + Shift(c))
           /\ Point(c) = internal_timegm(c.upd) - Shift(c)
<1>1. Shift(c) \in Int /\ c.time \in Int /\ c.tzoff \in Int /\ c.upd \in Tm
  BY SystemOffsetAssumption DEF Shift, Calendar
<1>2. Fields(c) = gmtime(c.time + c.tzoff + Shift(c))
  BY <1>1 DEF Fields, localtime, Shift
<1>3. Point(c) = internal_timegm(c.upd) - Shift(c)
  BY <1>1, TimegmInt DEF Point, mktime, Shift
<1> QED BY <1>1, <1>2, <1>3

\* The pending fields of an object with nothing pending denote its instant.
LEMMA PointIsExact ==
    ASSUME NEW c, Shows(c), c.normalized, c.tm.year >= 1
    PROVE  Point(c) - c.tzoff = c.time
<1> DEFINE t == c.time + c.tzoff + Shift(c)
<1>1. /\ Shift(c) \in Int /\ c.time \in Int /\ c.tzoff \in Int
      /\ c.upd = gmtime(t) /\ Point(c) = internal_timegm(c.upd) - Shift(c)
  BY FieldsAndPoint DEF Shows
<1>2. t \in Int /\ gmtime(t).year >= 1
  BY <1>1 DEF Shows
<1>3. internal_timegm(c.upd) = t
  <2> HIDE DEF t
  <2> QED BY <1>1, <1>2, TimegmInvertsGmtime
<1> QED BY <1>1, <1>3

\* adjust_value(day, move, n), on every date since the year 1 and in every zone,
\* is n days of 86400 seconds, whatever months and leap years lie between.
THEOREM MovingDaysIsExact ==
    ASSUME NEW c, Shows(c), c.normalized, c.tm.year >= 1, NEW n \in Int
    PROVE  /\ Move(c, "day", n).time = c.time + 86400 * n
           /\ Move(c, "day", n).local = c.local /\ Move(c, "day", n).tzoff = c.tzoff
<1> DEFINE u == [c.upd EXCEPT !.mday = @ + n]
           d == Pending(c, u)
<1>1. c.upd \in Tm /\ c.time \in Int /\ c.tzoff \in Int /\ Shift(c) \in Int
  BY FieldsAndPoint DEF Shows
<1>2. MovePending(c, "day", n) = d
  BY DEF MovePending, DayPeriods, WeekPeriods
<1>3. u \in Tm
  BY <1>1 DEF Tm
<1> HIDE DEF u
<1>4. /\ d \in Calendar /\ d.upd = u /\ ~d.normalized /\ d.time = c.time
      /\ d.local = c.local /\ d.tzoff = c.tzoff
  BY <1>3 DEF Pending, Shows, Calendar
<1> HIDE DEF d
<1>5. Point(d) = internal_timegm(u) - Shift(c) /\ Point(c) = internal_timegm(c.upd) - Shift(c)
  BY <1>4, FieldsAndPoint DEF Shows, Shift
<1>6. internal_timegm(u) = internal_timegm(c.upd) + 86400 * n
  BY <1>1, TimegmAddsDays DEF u
<1>7. Point(c) - c.tzoff = c.time
  BY PointIsExact
<1>8. internal_timegm(c.upd) \in Int
  BY <1>1, TimegmInt
<1>9. Point(d) - d.tzoff = c.time + 86400 * n
  BY <1>1, <1>4, <1>5, <1>6, <1>7, <1>8, SMTT(10)
<1>10. /\ normalize(d).time = Point(d) - d.tzoff
       /\ normalize(d).local = d.local /\ normalize(d).tzoff = d.tzoff
  BY <1>4 DEF normalize, Calendar
<1> QED BY <1>2, <1>4, <1>9, <1>10, SMTT(10) DEF Move

WalkInv == Shows(walker) /\ walker.normalized /\ walker.tm.year >= 1

LEMMA WalkInitInv ==
    ASSUME WalksStartInLimits, WalkInit
    PROVE  WalkInv
<1>1. PICK w \in Walks : walker = At(w.fdow, w.local, w.tzoff, w.time)
  BY DEF WalkInit
<1> DEFINE c == [fdow |-> w.fdow, time |-> 0, tm |-> gmtime(0), upd |-> gmtime(0),
                 normalized |-> TRUE, local |-> w.local, tzoff |-> w.tzoff]
<1>2. /\ w.fdow \in 0 .. 6 /\ w.local \in BOOLEAN /\ w.tzoff \in Int /\ w.time \in Int
      /\ walker.tm.year >= Minimum("year")
  BY <1>1 DEF WalksStartInLimits
<1>3. c \in Calendar
  BY <1>2, GmtimeRange DEF Calendar
<1>4. walker = from_time(c, w.time)
  BY <1>1 DEF At
<1>5. Shows(walker) /\ walker.normalized
  <2> HIDE DEF c
  <2> QED BY <1>2, <1>3, <1>4, FromTimeShows
<1>6. walker.tm.year \in Int
  BY <1>5 DEF Shows, Calendar, Tm
<1>7. walker.tm.year >= 1
  BY <1>2, <1>6 DEF Minimum
<1> QED BY <1>5, <1>7 DEF WalkInv

LEMMA NextDayInv ==
    ASSUME WalkInv, NextDay
    PROVE  WalkInv'
<1> DEFINE c == walker
           d == Move(c, "day", 1)
           t == c.time + c.tzoff + Shift(c)
<1>1. Shows(MovePending(c, "day", 1))
  <2>1. "day" \in Periods
    BY DEF Periods, DayPeriods
  <2> QED BY <2>1, MoveTyped, PendingShows DEF WalkInv, Shows
<1>2. Shows(d) /\ d.normalized
  BY <1>1, NormalizeShows DEF Move
<1>3. d.time = c.time + 86400 /\ d.local = c.local /\ d.tzoff = c.tzoff
  BY MovingDaysIsExact, SMTT(10) DEF WalkInv
<1>4. c.time \in Int /\ c.tzoff \in Int /\ Shift(c) \in Int /\ c.tm = gmtime(t)
  BY FieldsAndPoint DEF WalkInv, Shows
<1>5. t \in Int /\ Shift(d) = Shift(c)
  BY <1>3, <1>4 DEF Shift
<1>6. d.tm = gmtime(t + 86400)
  <2>1. d.tm = gmtime(d.time + d.tzoff + Shift(d))
    BY <1>2, FieldsAndPoint DEF Shows
  <2>2. d.time + d.tzoff + Shift(d) = t + 86400
    <3> HIDE DEF d
    <3> QED BY <1>3, <1>4, <1>5, SMTT(10)
  <2> HIDE DEF d, t
  <2> QED BY <2>1, <2>2, SMTT(10)
<1>7. YearOf(t) >= 1
  <2> HIDE DEF t
  <2> QED BY <1>4, <1>5, GmtimeIs DEF WalkInv
<1>8. YearOf(t + 86400) >= 1
  <2> HIDE DEF t
  <2>1. DayOf(t + 86400) = DayOf(t) + 1 /\ DayOf(t) \in Int /\ t + 86400 \in Int
    BY <1>5, SMTT(10) DEF DayOf
  <2>2. DayOf(t) >= -719162
    BY <1>5, <1>7, SinceYearOne, SMTT(10)
  <2> QED BY <2>1, <2>2, SinceYearOne, SMTT(10)
<1>9. d.tm.year >= 1
  <2> HIDE DEF d, t
  <2> QED BY <1>5, <1>6, <1>8, GmtimeIs, SMTT(40)
<1> QED BY <1>2, <1>9 DEF NextDay, WalkInv

LEMMA WalkInvCarries ==
    ASSUME WalkInv
    PROVE  MonthsCarry
<1>1. ASSUME NEW k \in -30 .. 30
      PROVE  LET months == 12 * walker.tm.year + walker.tm.mon + k
             IN  internal_timegm([walker.tm EXCEPT !.mon = @ + k]) =
                   internal_timegm([walker.tm EXCEPT !.year = months \div 12,
                                                     !.mon = months % 12])
  <2> DEFINE tm == walker.tm
             t == [tm EXCEPT !.mon = @ + k]
             months == 12 * tm.year + tm.mon + k
  <2>1. tm \in Tm /\ tm.year \in Int /\ tm.mon \in Int
    BY DEF WalkInv, Shows, Calendar, Tm
  <2>2. t \in Tm /\ t.year = tm.year /\ t.mon = tm.mon + k
    BY <2>1 DEF Tm
  <2>3. months = 12 * t.year + t.mon
    <3> HIDE DEF t, tm
    <3> QED BY <2>1, <2>2
  <2>4. [t EXCEPT !.year = months \div 12, !.mon = months % 12] =
            [tm EXCEPT !.year = months \div 12, !.mon = months % 12]
    <3> HIDE DEF months
    <3> QED BY <2>1 DEF Tm
  <2>5. internal_timegm(t) = internal_timegm([t EXCEPT !.year = months \div 12, !.mon = months % 12])
    <3> HIDE DEF t, months
    <3> QED BY <2>2, <2>3, TimegmCarries
  <2> QED BY <2>4, <2>5
<1> QED BY <1>1 DEF MonthsCarry

LEMMA WalkAlwaysInv ==
    ASSUME WalksStartInLimits
    PROVE  WalkSpec => []WalkInv
<1>1. WalkInit => WalkInv
  BY WalkInitInv
<1>2. WalkInv /\ [NextDay]_walkVars => WalkInv'
  <2>1. WalkInv /\ UNCHANGED walkVars => WalkInv'
    BY DEF WalkInv, Shows, Fields, walkVars
  <2> QED BY <2>1, NextDayInv
<1> QED BY <1>1, <1>2, PTL DEF WalkSpec

\* normalize (gregorian.cpp:201) is exact on every day that a calendar walks over,
\* from any date within its limits: the fields denote the instant that they show.
THEOREM NormalizeIsAlwaysExact ==
    ASSUME WalksStartInLimits
    PROVE  WalkSpec => []NormalizeIsExact
<1>1. WalkInv => NormalizeIsExact
  BY PointIsExact DEF WalkInv, NormalizeIsExact
<1> QED BY <1>1, WalkAlwaysInv, PTL

\* On every such day a month out of range denotes the same instant as the month of
\* the year that it carries into (internal_timegm, gregorian.cpp:69).
THEOREM MonthsAlwaysCarry ==
    ASSUME WalksStartInLimits
    PROVE  WalkSpec => []MonthsCarry
<1> QED BY WalkInvCarries, WalkAlwaysInv, PTL

-----------------------------------------------------------------------------
(* The fields of a settled calendar, and the weeks they count. *)

\* The instant that gmtime reads the fields from.
LocalTime(c) == c.time + c.tzoff + Shift(c)

LEMMA NormalizeReads ==
    ASSUME NEW c, Shows(c), c.normalized, NEW u \in Tm, NEW d, d = normalize(Pending(c, u))
    PROVE  /\ Shows(d) /\ d.normalized /\ d.fdow = c.fdow /\ Shift(d) = Shift(c) /\ d.tzoff = c.tzoff
           /\ LocalTime(d) = internal_timegm(u) /\ internal_timegm(u) \in Int
           /\ d.tm = gmtime(LocalTime(d)) /\ d.upd = d.tm
           /\ d.time - c.time = LocalTime(d) - LocalTime(c)
<1> DEFINE e == Pending(c, u)
<1>1. /\ e \in Calendar /\ e.upd = u /\ ~e.normalized /\ e.time = c.time /\ e.tm = c.tm
      /\ e.local = c.local /\ e.tzoff = c.tzoff /\ e.fdow = c.fdow
  BY DEF Pending, Shows, Calendar
<1> HIDE DEF e
<1>2. Shows(e)
  BY <1>1 DEF Shows, Fields
<1>3. Shows(d) /\ d.normalized
  BY <1>2, NormalizeShows DEF e
<1>4. /\ d.time = Point(e) - e.tzoff /\ d.local = e.local /\ d.tzoff = e.tzoff /\ d.fdow = e.fdow
  BY <1>1 DEF normalize, Calendar, e
<1>5. Shift(e) = Shift(c) /\ Shift(d) = Shift(c)
  BY <1>1, <1>4 DEF Shift
<1>6. Point(e) = internal_timegm(u) - Shift(c) /\ Shift(c) \in Int /\ c.tzoff \in Int /\ c.time \in Int
  BY <1>1, <1>5, FieldsAndPoint
<1>7. internal_timegm(u) \in Int
  BY TimegmInt
<1>8. LocalTime(d) = internal_timegm(u)
  BY <1>1, <1>4, <1>5, <1>6, <1>7, SMTT(10) DEF LocalTime
<1>9. d.tm = gmtime(LocalTime(d))
  BY <1>3, FieldsAndPoint DEF Shows, LocalTime
<1>10. d.time - c.time = LocalTime(d) - LocalTime(c)
  BY <1>1, <1>4, <1>5, <1>6, <1>7, SMTT(10) DEF LocalTime
<1> QED BY <1>1, <1>3, <1>4, <1>5, <1>7, <1>8, <1>9, <1>10 DEF Shows

\* A calendar with nothing pending, at an instant since the year 1.
Settled(c) == Shows(c) /\ c.normalized /\ c.tm.year >= 1

LEMMA SettledFields ==
    ASSUME NEW c, Settled(c), NEW t, t = LocalTime(c)
    PROVE  /\ t \in Int /\ c.fdow \in 0 .. 6 /\ c.upd = c.tm /\ c.tm \in Tm /\ c.tm = gmtime(t)
           /\ c.tm = [year |-> YearOf(t), mon |-> MonthOf(t), mday |-> MonthDayOf(t), hour |-> HourOf(t),
                      min |-> MinuteOf(t), sec |-> SecondOf(t), wday |-> WeekDayOf(t), yday |-> YearDayOf(t)]
           /\ YearOf(t) \in Int /\ YearOf(t) >= 1 /\ internal_timegm(c.upd) = t
<1>1. /\ Shift(c) \in Int /\ c.time \in Int /\ c.tzoff \in Int /\ c.upd \in Tm
      /\ c.tm = gmtime(c.time + c.tzoff + Shift(c))
  BY FieldsAndPoint DEF Settled, Shows
<1>2. t \in Int /\ c.tm = gmtime(t)
  BY <1>1 DEF LocalTime
<1>3. c.fdow \in 0 .. 6 /\ c.upd = c.tm /\ c.tm.year >= 1
  BY DEF Settled, Shows, Calendar
<1>4. c.tm = [year |-> YearOf(t), mon |-> MonthOf(t), mday |-> MonthDayOf(t), hour |-> HourOf(t),
              min |-> MinuteOf(t), sec |-> SecondOf(t), wday |-> WeekDayOf(t), yday |-> YearDayOf(t)]
  BY <1>2, GmtimeIs
<1>5. YearOf(t) = c.tm.year
  BY <1>4
<1>6. YearOf(t) \in Int
  BY <1>2, PartsRange
<1>7. internal_timegm(c.upd) = t
  BY <1>2, <1>3, TimegmInvertsGmtime
<1> QED BY <1>1, <1>2, <1>3, <1>4, <1>5, <1>6, <1>7

LEMMA SettledRanges ==
    ASSUME NEW c, Settled(c)
    PROVE  /\ c.tm.mon \in 0 .. 11 /\ c.tm.mday \in 1 .. 31 /\ c.tm.hour \in 0 .. 23
           /\ c.tm.min \in 0 .. 59 /\ c.tm.sec \in 0 .. 59
           /\ c.tm.wday \in 0 .. 6 /\ c.tm.yday \in 0 .. 365
<1> DEFINE t == LocalTime(c)
<1>1. t \in Int /\ c.tm = gmtime(t)
  BY SettledFields
<1> HIDE DEF t
<1> QED BY <1>1, GmtimeRange

\* Shifting the day of a settled calendar and normalizing it.
LEMMA ShiftedDays ==
    ASSUME NEW c, Settled(c), NEW n \in Int, NEW d, d = normalize(ShiftDays(c, n))
    PROVE  /\ Shows(d) /\ d.normalized /\ d.fdow = c.fdow /\ Shift(d) = Shift(c) /\ d.tzoff = c.tzoff
           /\ LocalTime(d) = LocalTime(c) + 86400 * n /\ d.tm = gmtime(LocalTime(d))
           /\ d.time = c.time + 86400 * n
<1> DEFINE u == [c.upd EXCEPT !.mday = @ + n]
<1>1. c.upd \in Tm /\ internal_timegm(c.upd) = LocalTime(c) /\ LocalTime(c) \in Int
  BY SettledFields
<1>2. u \in Tm
  BY <1>1 DEF Tm
<1>3. internal_timegm(u) = LocalTime(c) + 86400 * n
  BY <1>1, TimegmAddsDays
<1>4. d = normalize(Pending(c, u))
  BY DEF ShiftDays
<1> HIDE DEF u
<1>5. /\ Shows(d) /\ d.normalized /\ d.fdow = c.fdow /\ Shift(d) = Shift(c) /\ d.tzoff = c.tzoff
      /\ LocalTime(d) = internal_timegm(u) /\ d.tm = gmtime(LocalTime(d))
      /\ d.time - c.time = LocalTime(d) - LocalTime(c)
  BY <1>2, <1>4, NormalizeReads DEF Settled
<1>6. c.time \in Int /\ d.time \in Int
  BY <1>5 DEF Settled, Shows, Calendar
<1>7. d.time = c.time + 86400 * n
  <2> DEFINE k == 86400 * n
  <2>1. k \in Int /\ LocalTime(d) = LocalTime(c) + k
    BY <1>3, <1>5, SMTT(10)
  <2> HIDE DEF k
  <2>2. d.time = c.time + k
    BY <1>1, <1>5, <1>6, <2>1, SMTT(10)
  <2> QED BY <2>2, SMTT(10) DEF k
<1> QED BY <1>3, <1>5, <1>7, SMTT(10)

-----------------------------------------------------------------------------
(* Weeks. *)

\* The number of the week whose fourth day is given, counted from 0 in its period.
WeekOf(fourth, last) == IF fourth < 0 THEN last ELSE fourth \div 7 + 1

LEMMA CurrentWeeks ==
    ASSUME NEW c, Settled(c)
    PROVE  /\ LocalDow(c) \in 0 .. 6 /\ c.tm.yday \in 0 .. 365 /\ c.tm.mday \in 1 .. 31
           /\ Current(c)["week_of_year"] = WeekOf(c.tm.yday - LocalDow(c) + 3, 53)
           /\ Current(c)["week_of_month"] = WeekOf(c.tm.mday - LocalDow(c) + 3, 5)
           /\ get_week_number(c.tm.yday, c.tm.wday, c.fdow) < 0 <=> c.tm.yday - LocalDow(c) + 3 < 0
           /\ get_week_number(c.tm.mday, c.tm.wday, c.fdow) < 0 <=> c.tm.mday - LocalDow(c) + 3 < 0
<1> DEFINE w == c.tm.wday
           f == c.fdow
           dow == (w - f + 7) % 7
<1>1. c.tm.yday \in 0 .. 365 /\ c.tm.mday \in 1 .. 31 /\ w \in 0 .. 6 /\ f \in 0 .. 6
  <2>1. c.tm.yday \in 0 .. 365 /\ c.tm.mday \in 1 .. 31 /\ w \in 0 .. 6
    <3> HIDE DEF dow
    <3> QED BY SettledRanges, SMTT(10)
  <2>2. f \in 0 .. 6
    BY DEF Settled, Shows, Calendar
  <2> QED BY <2>1, <2>2, Zenon
<1>2. dow \in 0 .. 6 /\ LocalDow(c) = dow
  <2>1. LocalDow(c) = dow
    BY DEF LocalDow
  <2> HIDE DEF w, f
  <2> QED BY <1>1, <2>1, SMTT(10)
<1>3. ASSUME NEW day \in Int, 0 <= day, day <= 400, NEW last \in {53, 5}, NEW fourth, fourth = day - dow + 3
      PROVE  /\ OrElse(get_week_number(day, w, f), last) = WeekOf(fourth, last)
             /\ get_week_number(day, w, f) < 0 <=> fourth < 0
  <2>1. get_week_number(day, w, f) = IF fourth < 0 THEN -1 ELSE fourth \div 7 + 1
    <3>1. w \in Weekdays /\ f \in Weekdays /\ fourth = day - ((w - f + 7) % 7) + 3
      BY <1>1, <1>3, SMTT(10) DEF Weekdays
    <3> HIDE DEF w, f
    <3> QED BY <1>3, <3>1, WeekNumberNamesFourthDay, SMTT(10)
  <2>2. fourth \in Int
    <3> HIDE DEF dow
    <3> QED BY <1>2, <1>3, SMTT(10)
  <2>3. ~(fourth < 0) => fourth \div 7 + 1 > 0 /\ fourth \div 7 + 1 \in Int
    BY <2>2, SMTT(10)
  <2> QED BY <2>1, <2>2, <2>3, SMTT(10) DEF OrElse, WeekOf
<1>4. /\ Current(c)["week_of_year"] = OrElse(get_week_number(c.tm.yday, w, f), 53)
      /\ Current(c)["week_of_month"] = OrElse(get_week_number(c.tm.mday, w, f), 5)
  BY DEF Current
<1>5. /\ c.tm.yday \in Int /\ 0 <= c.tm.yday /\ c.tm.yday <= 400
      /\ c.tm.mday \in Int /\ 0 <= c.tm.mday /\ c.tm.mday <= 400
  BY <1>1, SMTT(10)
<1> HIDE DEF dow
<1>6. /\ OrElse(get_week_number(c.tm.yday, w, f), 53) = WeekOf(c.tm.yday - dow + 3, 53)
      /\ get_week_number(c.tm.yday, w, f) < 0 <=> c.tm.yday - dow + 3 < 0
  BY <1>3, <1>5, SMTT(10)
<1>7. /\ OrElse(get_week_number(c.tm.mday, w, f), 5) = WeekOf(c.tm.mday - dow + 3, 5)
      /\ get_week_number(c.tm.mday, w, f) < 0 <=> c.tm.mday - dow + 3 < 0
  BY <1>3, <1>5, SMTT(10)
<1> QED BY <1>1, <1>2, <1>4, <1>6, <1>7, SMTT(10)

\* The day after, in the same year or month.
LEMMA NextDate ==
    ASSUME NEW c, Settled(c), NEW d, d = Move(c, "day", 1)
    PROVE  /\ Settled(d) /\ d.fdow = c.fdow
           /\ LocalDow(d) = IF LocalDow(c) = 6 THEN 0 ELSE LocalDow(c) + 1
           /\ d.tm.year = c.tm.year => d.tm.yday = c.tm.yday + 1
           /\ d.tm.mon = c.tm.mon => d.tm.mday = c.tm.mday + 1
           /\ d.tm.year >= c.tm.year
<1> DEFINE t == LocalTime(c)
           s == t + 86400 * 1
<1> HIDE DEF s
<1>1. d = normalize(ShiftDays(c, 1))
  <2>1. MovePending(c, "day", 1) = Pending(c, [c.upd EXCEPT !.mday = @ + 1])
    BY DEF MovePending, DayPeriods, WeekPeriods
  <2> QED BY <2>1 DEF Move, ShiftDays
<1>2. /\ t \in Int /\ YearOf(t) >= 1 /\ YearOf(t) \in Int
      /\ c.tm.year = YearOf(t) /\ c.tm.mon = MonthOf(t) /\ c.tm.mday = MonthDayOf(t)
      /\ c.tm.yday = YearDayOf(t) /\ c.tm.wday = WeekDayOf(t)
  <2> HIDE DEF t
  <2>1. /\ t \in Int /\ YearOf(t) >= 1 /\ YearOf(t) \in Int
        /\ c.tm = [year |-> YearOf(t), mon |-> MonthOf(t), mday |-> MonthDayOf(t), hour |-> HourOf(t),
                   min |-> MinuteOf(t), sec |-> SecondOf(t), wday |-> WeekDayOf(t), yday |-> YearDayOf(t)]
    BY SettledFields, Zenon DEF t
  <2> QED BY <2>1
<1>3. Shows(d) /\ d.normalized /\ d.fdow = c.fdow /\ d.tm = gmtime(s)
  <2> HIDE DEF t
  <2> QED BY <1>1, <1>2, ShiftedDays, SMTT(10) DEF t, s
<1> HIDE DEF t
<1>4. /\ s \in Int /\ DayOf(t) \in Int /\ DayOf(s) = DayOf(t) + 1 /\ WeekDayOf(s) = (WeekDayOf(t) + 1) % 7
  BY <1>2, DaysLater, SMTT(10) DEF s
<1>5. YearOf(s) >= 1 /\ YearOf(s) \in Int
  BY <1>2, <1>4, SinceYearOne, PartsRange, SMTT(10)
<1>6. /\ d.tm.year = YearOf(s) /\ d.tm.mon = MonthOf(s) /\ d.tm.mday = MonthDayOf(s)
      /\ d.tm.yday = YearDayOf(s) /\ d.tm.wday = WeekDayOf(s)
  BY <1>3, <1>4, GmtimeIs
<1>7. /\ DayOf(t) = days_from_0(YearOf(t)) - 719162 + YearDayOf(t)
      /\ DayOf(s) = days_from_0(YearOf(s)) - 719162 + YearDayOf(s)
      /\ YearDayOf(s) \in 0 .. 365 /\ YearDayOf(t) \in 0 .. days_in_year(YearOf(t)) - 1
  <2>1. YearDayOf(s) \in 0 .. 365
    BY <1>4, PartsRange, Zenon
  <2> QED BY <1>2, <1>4, <1>5, <2>1, YearDayIsCounted, SMTT(10)
<1>8. YearDayOf(s) \in Int /\ YearDayOf(t) \in Int /\ days_from_0(YearOf(t)) \in Int /\ days_from_0(YearOf(s)) \in Int
  <2>1. YearDayOf(s) \in 0 .. 365 /\ YearDayOf(t) \in 0 .. 365
    BY <1>2, <1>4, PartsRange, Zenon
  <2>2. YearDayOf(s) \in Int /\ YearDayOf(t) \in Int
    BY <2>1, SMTT(10)
  <2> QED BY <1>2, <1>5, <2>2, DaysFrom0Int, Zenon
<1>9. YearOf(s) = YearOf(t) => YearDayOf(s) = YearDayOf(t) + 1
  <2> DEFINE a == YearDayOf(t)
             b == YearDayOf(s)
             from == days_from_0(YearOf(t))
  <2>1. YearOf(s) = YearOf(t) => DayOf(t) = from - 719162 + a /\ DayOf(t) + 1 = from - 719162 + b
    BY <1>4, <1>7, SMTT(10)
  <2>2. a \in Int /\ b \in Int /\ from \in Int
    BY <1>8, Zenon
  <2> HIDE DEF a, b, from
  <2>3. YearOf(s) = YearOf(t) => b = a + 1
    BY <1>4, <2>1, <2>2, SMTT(10)
  <2> QED BY <2>3, Zenon DEF a, b
<1>10. MonthOf(s) = MonthOf(t) => MonthDayOf(s) = MonthDayOf(t) + 1
  <2>1. 1 = DayOf(s) - DayOf(t)
    BY <1>4, SMTT(10)
  <2> QED BY <1>2, <1>4, <1>5, <2>1, SameMonth, SMTT(10)
<1>11. YearOf(s) >= YearOf(t)
  <2> SUFFICES ASSUME YearOf(s) < YearOf(t) PROVE FALSE
    BY <1>2, <1>5, SMTT(10)
  <2> DEFINE a == YearDayOf(t)
             b == YearDayOf(s)
             from == days_from_0(YearOf(t))
             to == days_from_0(YearOf(s))
             n == days_in_year(YearOf(s))
  <2>1. from >= to + n
    BY <1>2, <1>5, YearsInOrder, SMTT(10)
  <2>2. b < n /\ n \in Int
    <3>1. b \in 0 .. n - 1
      BY <1>4, <1>5, YearDayIsCounted, SMTT(10)
    <3>2. n \in Int
      BY LeapDayInt, SMTT(10) DEF days_in_year
    <3> HIDE DEF b, n
    <3> QED BY <3>1, <3>2, SMTT(10)
  <2>3. a \in Int /\ a >= 0
    <3>1. a \in 0 .. 365
      BY <1>2, PartsRange, Zenon
    <3> HIDE DEF a
    <3> QED BY <3>1, SMTT(10)
  <2>4. DayOf(t) = from - 719162 + a /\ DayOf(t) + 1 = to - 719162 + b /\ from \in Int /\ to \in Int /\ b \in Int
    BY <1>4, <1>7, <1>8, SMTT(10)
  <2> HIDE DEF a, b, from, to, n
  <2> QED BY <1>4, <2>1, <2>2, <2>3, <2>4, SMTT(10)
<1>12. LocalDow(d) = IF LocalDow(c) = 6 THEN 0 ELSE LocalDow(c) + 1
  <2> DEFINE w == WeekDayOf(t)
             f == c.fdow
  <2>1. w \in 0 .. 6 /\ f \in 0 .. 6
    <3>1. w \in 0 .. 6
      BY <1>2, PartsRange, Zenon
    <3>2. f \in 0 .. 6
      BY DEF Settled, Shows, Calendar
    <3> QED BY <3>1, <3>2, Zenon
  <2>2. LocalDow(c) = (w - f + 7) % 7 /\ LocalDow(d) = (((w + 1) % 7) - f + 7) % 7
    BY <1>2, <1>3, <1>4, <1>6, SMTT(10) DEF LocalDow
  <2> HIDE DEF w, f
  <2> QED BY <2>1, <2>2, SMTT(20)
<1>13. Settled(d)
  BY <1>3, <1>5, <1>6 DEF Settled
<1> QED BY <1>2, <1>3, <1>6, <1>9, <1>10, <1>11, <1>12, <1>13

LEMMA FourthDays ==
    ASSUME Settled(walker)
    PROVE  FourthDaysAreCounted
<1>1. Current(walker)["week_of_year"] = WeekOf(walker.tm.yday - LocalDow(walker) + 3, 53)
  BY CurrentWeeks, ZenonT(40)
<1>2. walker.tm.yday - LocalDow(walker) + 3 \in Int
  <2>1. LocalDow(walker) \in 0 .. 6 /\ walker.tm.yday \in 0 .. 365
    BY CurrentWeeks, ZenonT(60)
  <2> DEFINE y == walker.tm.yday
             w == LocalDow(walker)
  <2>2. y \in Int /\ w \in Int
    BY <2>1
  <2> HIDE DEF y, w
  <2>3. y - w + 3 \in Int
    BY <2>2
  <2> QED BY <2>3 DEF y, w
<1> QED BY <1>1, <1>2, SMTT(10) DEF FourthDaysAreCounted, WeekOf

LEMMA WeekTurns ==
    ASSUME NEW day \in Int, day >= 0, NEW dow \in Weekdays, NEW last, NEW next,
           next = IF dow = 6 THEN 0 ELSE dow + 1
    PROVE  WeekOf(day + 1 - next + 3, last) =
               IF next # 0 THEN WeekOf(day - dow + 3, last)
               ELSE IF day - dow + 3 < 0 THEN 1 ELSE WeekOf(day - dow + 3, last) + 1
<1> DEFINE f == day - dow + 3
           g == day + 1 - next + 3
<1>1. CASE dow # 6
  <2>1. g = f /\ next # 0
    BY <1>1, SMTT(10) DEF Weekdays
  <2> QED BY <2>1
<1>2. CASE dow = 6
  <2>1. g = f + 7 /\ next = 0 /\ f \in Int /\ f = day - 3
    BY <1>2, SMTT(10)
  <2> HIDE DEF f, g
  <2>2. CASE f < 0
    <3>1. g \in {4, 5, 6}
      BY <2>1, <2>2, SMTT(10)
    <3>2. WeekOf(g, last) = 1
      BY <3>1, SMTT(10) DEF WeekOf
    <3> QED BY <2>1, <2>2, <3>2 DEF f, g
  <2>3. CASE ~(f < 0)
    <3>1. ~(g < 0) /\ g \div 7 = f \div 7 + 1
      BY <2>1, <2>3, SMTT(10)
    <3>2. WeekOf(g, last) = WeekOf(f, last) + 1
      BY <2>3, <3>1 DEF WeekOf
    <3> QED BY <2>1, <2>3, <3>2 DEF f, g
  <2> QED BY <2>2, <2>3
<1> QED BY <1>1, <1>2

LEMMA WeeksTurn ==
    ASSUME Settled(walker)
    PROVE  WeeksTurnOnFirstDay
<1> DEFINE c == walker
           d == Move(c, "day", 1)
<1>1. /\ Settled(d) /\ LocalDow(d) = IF LocalDow(c) = 6 THEN 0 ELSE LocalDow(c) + 1
      /\ d.tm.year = c.tm.year => d.tm.yday = c.tm.yday + 1
      /\ d.tm.mon = c.tm.mon => d.tm.mday = c.tm.mday + 1
  BY NextDate, Zenon
<1> HIDE DEF d
<1>2. /\ LocalDow(c) \in 0 .. 6 /\ c.tm.yday \in Int /\ c.tm.mday \in Int /\ c.tm.yday >= 0 /\ c.tm.mday >= 0
  BY CurrentWeeks, SMTT(40)
<1>3. ASSUME d.tm.year = c.tm.year
      PROVE  TurnsOnFirstDay(c, d, "week_of_year", c.tm.yday)
  <2>1. /\ Current(c)["week_of_year"] = WeekOf(c.tm.yday - LocalDow(c) + 3, 53)
        /\ Current(d)["week_of_year"] = WeekOf(d.tm.yday - LocalDow(d) + 3, 53)
        /\ get_week_number(c.tm.yday, c.tm.wday, c.fdow) < 0 <=> c.tm.yday - LocalDow(c) + 3 < 0
    BY <1>1, CurrentWeeks, ZenonT(40)
  <2>2. d.tm.yday = c.tm.yday + 1
    BY <1>1, <1>3
  <2> DEFINE x == c.tm.yday
             a == LocalDow(c)
             b == LocalDow(d)
  <2>3. x \in Int /\ x >= 0 /\ a \in Weekdays /\ b = IF a = 6 THEN 0 ELSE a + 1
    BY <1>1, <1>2 DEF Weekdays
  <2> HIDE DEF x, a, b
  <2>4. WeekOf(x + 1 - b + 3, 53) =
            IF b # 0 THEN WeekOf(x - a + 3, 53) ELSE IF x - a + 3 < 0 THEN 1 ELSE WeekOf(x - a + 3, 53) + 1
    BY <2>3, WeekTurns
  <2> DEFINE p == Current(c)["week_of_year"]
             q == Current(d)["week_of_year"]
             n == get_week_number(x, c.tm.wday, c.fdow)
  <2>5. p = WeekOf(x - a + 3, 53) /\ q = WeekOf(x + 1 - b + 3, 53) /\ (n < 0 <=> x - a + 3 < 0)
    <3>1. p = WeekOf(x - a + 3, 53)
      BY <2>1, Zenon DEF x, a
    <3>2. q = WeekOf(x + 1 - b + 3, 53)
      <4>1. d.tm.yday = x + 1
        BY <2>2 DEF x
      <4>2. q = WeekOf(d.tm.yday - b + 3, 53)
        BY <2>1, Zenon DEF b
      <4>3. d.tm.yday - b + 3 = x + 1 - b + 3
        BY <2>3, <4>1, SMTT(10) DEF Weekdays
      <4> QED BY <4>2, <4>3, Zenon
    <3>3. n < 0 <=> x - a + 3 < 0
      BY <2>1, Zenon DEF x, a
    <3> QED BY <3>1, <3>2, <3>3
  <2>6. TurnsOnFirstDay(c, d, "week_of_year", c.tm.yday)
            <=> q = IF b # 0 THEN p ELSE IF n < 0 THEN 1 ELSE p + 1
    BY DEF TurnsOnFirstDay, x, a, b
  <2> HIDE DEF p, q, n
  <2>7. q = IF b # 0 THEN p ELSE IF n < 0 THEN 1 ELSE p + 1
    BY <2>4, <2>5
  <2> QED BY <2>6, <2>7
<1>4. ASSUME d.tm.mon = c.tm.mon
      PROVE  TurnsOnFirstDay(c, d, "week_of_month", c.tm.mday)
  <2>1. /\ Current(c)["week_of_month"] = WeekOf(c.tm.mday - LocalDow(c) + 3, 5)
        /\ Current(d)["week_of_month"] = WeekOf(d.tm.mday - LocalDow(d) + 3, 5)
        /\ get_week_number(c.tm.mday, c.tm.wday, c.fdow) < 0 <=> c.tm.mday - LocalDow(c) + 3 < 0
    BY <1>1, CurrentWeeks, ZenonT(40)
  <2>2. d.tm.mday = c.tm.mday + 1
    BY <1>1, <1>4
  <2> DEFINE x == c.tm.mday
             a == LocalDow(c)
             b == LocalDow(d)
  <2>3. x \in Int /\ x >= 0 /\ a \in Weekdays /\ b = IF a = 6 THEN 0 ELSE a + 1
    BY <1>1, <1>2 DEF Weekdays
  <2> HIDE DEF x, a, b
  <2>4. WeekOf(x + 1 - b + 3, 5) =
            IF b # 0 THEN WeekOf(x - a + 3, 5) ELSE IF x - a + 3 < 0 THEN 1 ELSE WeekOf(x - a + 3, 5) + 1
    BY <2>3, WeekTurns
  <2> DEFINE p == Current(c)["week_of_month"]
             q == Current(d)["week_of_month"]
             n == get_week_number(x, c.tm.wday, c.fdow)
  <2>5. p = WeekOf(x - a + 3, 5) /\ q = WeekOf(x + 1 - b + 3, 5) /\ (n < 0 <=> x - a + 3 < 0)
    <3>1. p = WeekOf(x - a + 3, 5)
      BY <2>1, Zenon DEF x, a
    <3>2. q = WeekOf(x + 1 - b + 3, 5)
      <4>1. d.tm.mday = x + 1
        BY <2>2 DEF x
      <4>2. q = WeekOf(d.tm.mday - b + 3, 5)
        BY <2>1, Zenon DEF b
      <4>3. d.tm.mday - b + 3 = x + 1 - b + 3
        BY <2>3, <4>1, SMTT(10) DEF Weekdays
      <4> QED BY <4>2, <4>3, Zenon
    <3>3. n < 0 <=> x - a + 3 < 0
      BY <2>1, Zenon DEF x, a
    <3> QED BY <3>1, <3>2, <3>3
  <2>6. TurnsOnFirstDay(c, d, "week_of_month", c.tm.mday)
            <=> q = IF b # 0 THEN p ELSE IF n < 0 THEN 1 ELSE p + 1
    BY DEF TurnsOnFirstDay, x, a, b
  <2> HIDE DEF p, q, n
  <2>7. q = IF b # 0 THEN p ELSE IF n < 0 THEN 1 ELSE p + 1
    BY <2>4, <2>5
  <2> QED BY <2>6, <2>7
<1> QED BY <1>3, <1>4 DEF WeeksTurnOnFirstDay, d

\* The limits that get_value reports bracket the field and each other.
LimitsOf(c) ==
    \A m \in Periods \ {"year"} :
        /\ Minimum(m) <= Current(c)[m] /\ Current(c)[m] <= AbsoluteMaximum[m]
        /\ LeastMaximum[m] <= ActualMaximum(c)[m] /\ ActualMaximum(c)[m] <= AbsoluteMaximum[m]

LEMMA LimitsHold ==
    ASSUME NEW c, Settled(c)
    PROVE  LimitsOf(c)
<1> DEFINE y == c.tm.year
           last == days_in_month(y, c.tm.mon + 1)
           end == days_in_year(y) - 1
           weekOfYear == get_week_number(end, (end - c.tm.yday + c.tm.wday) % 7, c.fdow)
           weekOfMonth == get_week_number(last, (last - c.tm.mday + c.tm.wday) % 7, c.fdow)
<1>1. c \in Calendar
  BY DEF Settled, Shows
<1>2. /\ c.tm.mon \in 0 .. 11 /\ c.tm.mday \in 1 .. 31 /\ c.tm.hour \in 0 .. 23
      /\ c.tm.wday \in 0 .. 6 /\ c.fdow \in Weekdays
  <2>1. c.fdow \in Weekdays
    BY <1>1 DEF Calendar, Weekdays
  <2> HIDE DEF end, weekOfYear, weekOfMonth, last
  <2> QED BY <2>1, SettledRanges, SMTT(10)
<1>3. last \in Int /\ last >= 28 /\ last <= 31 /\ end \in Int /\ end >= 364 /\ end <= 365 /\ end + 1 = days_in_year(y)
  <2>1. last \in 28 .. 31
    BY <1>2, MonthsInOrder
  <2>2. end \in Int /\ end >= 364 /\ end <= 365 /\ end + 1 = days_in_year(y)
    BY LeapDayInt, SMTT(10) DEF days_in_year
  <2> QED BY <2>1, <2>2, SMTT(10)
<1> HIDE DEF last, end
<1>4. c.tm.yday \in Int /\ 0 <= c.tm.yday /\ c.tm.yday <= 365 /\ c.tm.min \in 0 .. 59 /\ c.tm.sec \in 0 .. 59
  <2> HIDE DEF weekOfYear, weekOfMonth
  <2> QED BY SettledRanges, SMTT(40)
<1> DEFINE Short(day) == day \in Int /\ 0 <= day /\ day <= 400
           Numbers(week, day) ==
               \E fourth \in day - 3 .. day + 3 : week = IF fourth < 0 THEN -1 ELSE fourth \div 7 + 1
<1>5. ASSUME NEW day, Short(day), NEW w \in Int
      PROVE  Numbers(get_week_number(day, w % 7, c.fdow), day)
  <2> DEFINE f == c.fdow
             v == w % 7
             fourth == day - ((v - f + 7) % 7) + 3
  <2>1. v \in Weekdays
    BY <1>5, SMTT(10) DEF Weekdays
  <2>2. fourth \in day - 3 .. day + 3
    <3> HIDE DEF v, f
    <3> QED BY <1>2, <1>5, <2>1, SMTT(10) DEF Weekdays, f
  <2>3. get_week_number(day, v, f) = IF fourth < 0 THEN -1 ELSE fourth \div 7 + 1
    <3> HIDE DEF v, f
    <3> QED BY <1>2, <1>5, <2>1, WeekNumberNamesFourthDay, SMTT(10) DEF f
  <2> QED BY <2>2, <2>3
<1>6. weekOfYear \in 52 .. 53
  <2> DEFINE x == end - c.tm.yday + c.tm.wday
  <2>1. x \in Int /\ Short(end)
    BY <1>2, <1>3, <1>4, SMTT(10)
  <2>2. weekOfYear = get_week_number(end, x % 7, c.fdow)
    OBVIOUS
  <2> HIDE DEF x, weekOfYear, Short, Numbers
  <2>3. Numbers(weekOfYear, end)
    BY <1>5, <2>1, <2>2, Zenon
  <2>4. PICK fourth \in end - 3 .. end + 3 : weekOfYear = IF fourth < 0 THEN -1 ELSE fourth \div 7 + 1
    BY <2>3 DEF Numbers
  <2> QED BY <1>3, <2>4, SMTT(10)
<1>7. weekOfMonth \in 4 .. 5
  <2> DEFINE x == last - c.tm.mday + c.tm.wday
  <2>1. x \in Int /\ Short(last)
    BY <1>2, <1>3, SMTT(10)
  <2>2. weekOfMonth = get_week_number(last, x % 7, c.fdow)
    OBVIOUS
  <2> HIDE DEF x, weekOfMonth, Short, Numbers
  <2>3. Numbers(weekOfMonth, last)
    BY <1>5, <2>1, <2>2, Zenon
  <2>4. PICK fourth \in last - 3 .. last + 3 : weekOfMonth = IF fourth < 0 THEN -1 ELSE fourth \div 7 + 1
    BY <2>3 DEF Numbers
  <2> QED BY <1>3, <2>4, SMTT(10)
<1> HIDE DEF weekOfYear, weekOfMonth, Short, Numbers
<1>8. /\ Current(c)["week_of_year"] \in 1 .. 53 /\ Current(c)["week_of_month"] \in 1 .. 5
      /\ LocalDow(c) \in 0 .. 6
  <2> DEFINE f == c.tm.yday - LocalDow(c) + 3
             g == c.tm.mday - LocalDow(c) + 3
  <2>1. LocalDow(c) \in 0 .. 6 /\ Current(c)["week_of_year"] = WeekOf(f, 53) /\ Current(c)["week_of_month"] = WeekOf(g, 5)
    BY CurrentWeeks, SMTT(10)
  <2>2. f \in Int /\ f <= 368
    BY <1>4, <2>1, SMTT(10)
  <2>3. g \in Int /\ g <= 34
    BY <1>2, <2>1, SMTT(10)
  <2> HIDE DEF f, g
  <2>4. WeekOf(f, 53) \in 1 .. 53
    BY <2>2, SMTT(10) DEF WeekOf
  <2>5. WeekOf(g, 5) \in 1 .. 5
    BY <2>3, SMTT(10) DEF WeekOf
  <2> QED BY <2>1, <2>4, <2>5, SMTT(10)
<1>9. \A p \in Periods : ActualMaximum(c)[p] =
        CASE p = "day"           -> last
          [] p = "day_of_year"   -> days_in_year(y)
          [] p = "week_of_year"  -> weekOfYear
          [] p = "week_of_month" -> weekOfMonth
          [] p = "day_of_week_in_month" -> (IF c.tm.mon = 1 /\ ~is_leap(y) THEN 4 ELSE 5)
          [] OTHER -> LeastMaximum[p]
  BY ActualMaximumIs, Zenon DEF last, end, weekOfYear, weekOfMonth
<1>10. /\ Current(c)["month"] = c.tm.mon /\ Current(c)["day"] = c.tm.mday
       /\ Current(c)["day_of_year"] = c.tm.yday + 1 /\ Current(c)["day_of_week"] = c.tm.wday + 1
       /\ Current(c)["day_of_week_local"] = LocalDow(c) + 1
       /\ Current(c)["day_of_week_in_month"] = (c.tm.mday - 1) \div 7 + 1
       /\ Current(c)["hour"] = c.tm.hour /\ Current(c)["hour_12"] = c.tm.hour % 12
       /\ Current(c)["am_pm"] = c.tm.hour \div 12
       /\ Current(c)["minute"] = c.tm.min /\ Current(c)["second"] = c.tm.sec
  BY SMTT(20) DEF Current
<1> DEFINE Least(m) == LeastMaximum[m]
           Most(m) == AbsoluteMaximum[m]
           Actual(m) == ActualMaximum(c)[m]
           Now(m) == Current(c)[m]
           Bracketed(m) == /\ Minimum(m) <= Now(m) /\ Now(m) <= Most(m)
                           /\ Least(m) <= Actual(m) /\ Actual(m) <= Most(m)
<1>11. /\ Least("month") = 11 /\ Most("month") = 11 /\ Least("day") = 28 /\ Most("day") = 31
       /\ Least("day_of_year") = 365 /\ Most("day_of_year") = 366
       /\ Least("day_of_week") = 7 /\ Most("day_of_week") = 7
       /\ Least("day_of_week_local") = 7 /\ Most("day_of_week_local") = 7
       /\ Least("week_of_year") = 52 /\ Most("week_of_year") = 53
       /\ Least("week_of_month") = 4 /\ Most("week_of_month") = 5
       /\ Least("day_of_week_in_month") = 4 /\ Most("day_of_week_in_month") = 5
       /\ Least("hour") = 23 /\ Most("hour") = 23 /\ Least("hour_12") = 11 /\ Most("hour_12") = 11
       /\ Least("am_pm") = 1 /\ Most("am_pm") = 1 /\ Least("minute") = 59 /\ Most("minute") = 59
       /\ Least("second") = 59 /\ Most("second") = 59
  BY SMTT(20) DEF LeastMaximum, AbsoluteMaximum
<1>12. \A m \in Periods \ {"year"} : Minimum(m) = IF m \in DayPeriods \cup WeekPeriods THEN 1 ELSE 0
  BY DEF Minimum
<1>13. /\ Actual("day") = last /\ Actual("day_of_year") = end + 1 /\ Actual("week_of_year") = weekOfYear
       /\ Actual("week_of_month") = weekOfMonth
       /\ Actual("day_of_week_in_month") = (IF c.tm.mon = 1 /\ ~is_leap(y) THEN 4 ELSE 5)
       /\ \A p \in {"month", "day_of_week", "day_of_week_local", "hour", "hour_12", "am_pm", "minute", "second"} :
             Actual(p) = Least(p)
  BY <1>3, <1>9, SMTT(20) DEF Periods, ClockPeriods, DayPeriods, WeekPeriods
<1>14. /\ Now("month") = c.tm.mon /\ Now("day") = c.tm.mday
       /\ Now("day_of_year") = c.tm.yday + 1 /\ Now("day_of_week") = c.tm.wday + 1
       /\ Now("day_of_week_local") = LocalDow(c) + 1
       /\ Now("day_of_week_in_month") = (c.tm.mday - 1) \div 7 + 1
       /\ Now("hour") = c.tm.hour /\ Now("hour_12") = c.tm.hour % 12
       /\ Now("am_pm") = c.tm.hour \div 12
       /\ Now("minute") = c.tm.min /\ Now("second") = c.tm.sec
       /\ Now("week_of_year") \in 1 .. 53 /\ Now("week_of_month") \in 1 .. 5
  BY <1>8, <1>10
<1> HIDE DEF Least, Most, Actual, Now
<1>15. ASSUME NEW m \in Periods \ {"year"}
       PROVE  Bracketed(m)
  <2>1. CASE m \in {"day", "day_of_year", "week_of_year", "week_of_month"}
    <3>1. Minimum(m) = 1
      BY <1>12, <2>1 DEF DayPeriods, WeekPeriods
    <3> QED BY <1>2, <1>3, <1>4, <1>6, <1>7, <1>11, <1>13, <1>14, <2>1, <3>1, SMTT(20)
  <2>2. CASE m \in {"day_of_week", "day_of_week_local", "day_of_week_in_month"}
    <3>1. Minimum(m) = 1
      BY <1>12, <2>2 DEF DayPeriods, WeekPeriods
    <3> QED BY <1>2, <1>8, <1>11, <1>13, <1>14, <2>2, <3>1, SMTT(20)
  <2>3. CASE m \in {"month", "minute", "second", "hour", "hour_12", "am_pm"}
    <3>1. Minimum(m) = 0
      BY <1>12, <2>3 DEF DayPeriods, WeekPeriods
    <3> QED BY <1>2, <1>4, <1>11, <1>13, <1>14, <2>3, <3>1, SMTT(20)
  <2> QED BY <2>1, <2>2, <2>3 DEF Periods, ClockPeriods, DayPeriods, WeekPeriods
<1> QED BY <1>15, Zenon DEF LimitsOf, Least, Most, Actual, Now

LEMMA LimitsBracket ==
    ASSUME Settled(walker)
    PROVE  LimitsBracketCurrent
<1>1. LimitsOf(walker)
  BY LimitsHold, Zenon
<1> QED BY <1>1, Zenon DEF LimitsOf, LimitsBracketCurrent

\* The week numbers that get_value reports, on every day that a calendar walks over,
\* for every first day of the week: they count the fourth days of the weeks, turn
\* with the week, and stay within the limits.
LEMMA WeeksAreCountedWhenSettled ==
    ASSUME Settled(walker)
    PROVE  WeeksAreCounted
  BY FourthDays, WeeksTurn, LimitsBracket DEF WeeksAreCounted

\* On every day that a calendar walks over from any date within its limits, for
\* every first day of the week and zone, the week numbers that get_value reports
\* (gregorian.cpp:265, get_week_number at 241) count the fourth days of the weeks,
\* turn with the local week, and lie, with the other fields, within the limits that
\* it reports of them.
THEOREM WeeksAreAlwaysCounted ==
    ASSUME WalksStartInLimits
    PROVE  WalkSpec => []WeeksAreCounted
<1>1. WalkInv => WeeksAreCounted
  BY WeeksAreCountedWhenSettled DEF WalkInv, Settled
<1> QED BY <1>1, WalkAlwaysInv, PTL

-----------------------------------------------------------------------------
(* Setting one field of a settled calendar. *)

SetTo(c, m, v) == normalize(set_value(c, m, v))

\* A date and a time that are set are shown.
AreShown(c, u, d) ==
    /\ d.tm.year = u.year /\ d.tm.mon = u.mon /\ d.tm.mday = u.mday
    /\ d.tm.hour = u.hour /\ d.tm.min = u.min /\ d.tm.sec = u.sec
    /\ Settled(d) /\ d.fdow = c.fdow /\ d.upd = d.tm
    /\ d.time - c.time = internal_timegm(u) - LocalTime(c)

LEMMA SetFieldsAreShown ==
    ASSUME NEW c, Settled(c), NEW u \in Tm, IsDate(u.year, u.mon, u.mday), IsClock(u.hour, u.min, u.sec)
    PROVE  AreShown(c, u, normalize(Pending(c, u)))
<1> DEFINE d == normalize(Pending(c, u))
<1>1. /\ d.tm = gmtime(internal_timegm(u)) /\ Shows(d) /\ d.normalized /\ d.fdow = c.fdow /\ d.upd = d.tm
      /\ d.time - c.time = internal_timegm(u) - LocalTime(c)
  BY NormalizeReads, ZenonT(40) DEF Settled
<1>2. /\ d.tm.year = u.year /\ d.tm.mon = u.mon /\ d.tm.mday = u.mday
      /\ d.tm.hour = u.hour /\ d.tm.min = u.min /\ d.tm.sec = u.sec
  BY <1>1, GmtimeInvertsTimegm, Zenon
<1>3. Settled(d)
  BY <1>1, <1>2, Zenon DEF Settled, IsDate
<1> QED BY <1>1, <1>2, <1>3, Zenon DEF AreShown

\* The fields of a settled calendar are a date and a time.
LEMMA SettledIsDate ==
    ASSUME NEW c, Settled(c)
    PROVE  /\ IsDate(c.tm.year, c.tm.mon, c.tm.mday) /\ IsClock(c.tm.hour, c.tm.min, c.tm.sec)
           /\ c.upd \in Tm /\ c.upd = c.tm
<1> DEFINE t == LocalTime(c)
<1>1. /\ t \in Int /\ YearOf(t) >= 1 /\ c.upd = c.tm /\ c.upd \in Tm
      /\ c.tm = [year |-> YearOf(t), mon |-> MonthOf(t), mday |-> MonthDayOf(t), hour |-> HourOf(t),
                 min |-> MinuteOf(t), sec |-> SecondOf(t), wday |-> WeekDayOf(t), yday |-> YearDayOf(t)]
  BY SettledFields, Zenon
<1> HIDE DEF t
<1>2. IsDate(YearOf(t), MonthOf(t), MonthDayOf(t))
  BY <1>1, GmtimeIsDate, Zenon
<1>3. IsClock(HourOf(t), MinuteOf(t), SecondOf(t))
  BY <1>1, PartsRange, SMTT(10) DEF IsClock
<1> QED BY <1>1, <1>2, <1>3, SMTT(10)

\* internal_timegm reads the six fields that set_value writes.
LEMMA SixFields ==
    ASSUME NEW u \in Tm, NEW w \in Tm, u.year = w.year, u.mon = w.mon, u.mday = w.mday,
           u.hour = w.hour, u.min = w.min, u.sec = w.sec
    PROVE  internal_timegm(u) = internal_timegm(w)
  BY SMTT(30) DEF internal_timegm

\* The fields after set_value of a mark that is a field of std::tm.
PlainMarks == {"year", "month", "day"} \cup ClockPeriods

Written(f, m, v) ==
    CASE m = "year"    -> [f EXCEPT !.year = v]
      [] m = "month"   -> [f EXCEPT !.mon = v]
      [] m = "day"     -> [f EXCEPT !.mday = v]
      [] m = "hour"    -> [f EXCEPT !.hour = v]
      [] m = "hour_12" -> [f EXCEPT !.hour = CDiv(@, 12) * 12 + v]
      [] m = "am_pm"   -> [f EXCEPT !.hour = 12 * v + CMod(@, 12)]
      [] m = "minute"  -> [f EXCEPT !.min = v]
      [] m = "second"  -> [f EXCEPT !.sec = v]

LEMMA PlainIsWritten ==
    ASSUME NEW c, Settled(c), NEW m \in PlainMarks, NEW v
    PROVE  SetTo(c, m, v) = normalize(Pending(c, Written(c.tm, m, v)))
<1>1. set_value(c, m, v) = SetPlain(c, m, v)
  BY DEF set_value, RelativeMarks, WeekPeriods, PlainMarks, ClockPeriods
<1>2. c.upd = c.tm
  BY SettledIsDate
<1>3. SetPlain(c, m, v) = Pending(c, Written(c.upd, m, v))
  BY Zenon DEF SetPlain, Written
<1> QED BY <1>1, <1>2, <1>3 DEF SetTo

\* A value to set a field to, and whether there is such a date.
Valid(c, m, v) ==
    IF m = "year" THEN v \in Int /\ v >= 1 ELSE v \in Minimum(m) .. ActualMaximum(c)[m]

Possible(c, m, v) ==
    CASE m = "month" -> c.tm.mday <= days_in_month(c.tm.year, v + 1)
      [] m = "year"  -> c.tm.mday <= days_in_month(v, c.tm.mon + 1)
      [] m = "week_of_year" -> SetTo(c, m, v).tm.year = c.tm.year
      [] m \in {"week_of_month", "day_of_week_in_month"} -> SetTo(c, m, v).tm.mon = c.tm.mon
      [] OTHER -> TRUE

LEMMA ValidPlain ==
    ASSUME NEW c, NEW m \in PlainMarks, NEW v, Valid(c, m, v)
    PROVE  /\ m = "year" => v \in Int /\ v >= 1
           /\ m = "month" => v \in 0 .. 11
           /\ m = "day" => v \in 1 .. days_in_month(c.tm.year, c.tm.mon + 1)
           /\ m = "hour" => v \in 0 .. 23
           /\ m = "hour_12" => v \in 0 .. 11
           /\ m = "am_pm" => v \in 0 .. 1
           /\ m \in {"minute", "second"} => v \in 0 .. 59
<1>1. CASE m = "year"
  BY <1>1 DEF Valid
<1>2. CASE m = "day"
  <2>1. ActualMaximum(c)[m] = days_in_month(c.tm.year, c.tm.mon + 1)
    BY <1>2, ActualMaximumIs DEF Periods, DayPeriods
  <2>2. v \in Minimum(m) .. ActualMaximum(c)[m] /\ Minimum(m) = 1
    BY <1>2 DEF Valid, Minimum, DayPeriods
  <2> QED BY <1>2, <2>1, <2>2
<1>3. CASE m \in {"month", "hour", "hour_12", "am_pm", "minute", "second"}
  <2>1. ActualMaximum(c)[m] = LeastMaximum[m]
    BY <1>3, ActualMaximumIs DEF Periods, ClockPeriods
  <2>2. v \in Minimum(m) .. ActualMaximum(c)[m] /\ Minimum(m) = 0
    BY <1>3 DEF Valid, Minimum, DayPeriods, WeekPeriods
  <2>3. /\ LeastMaximum["month"] = 11 /\ LeastMaximum["hour"] = 23 /\ LeastMaximum["hour_12"] = 11
        /\ LeastMaximum["am_pm"] = 1 /\ LeastMaximum["minute"] = 59 /\ LeastMaximum["second"] = 59
    BY DEF LeastMaximum
  <2> QED BY <1>3, <2>1, <2>2, <2>3
<1> QED BY <1>1, <1>2, <1>3 DEF PlainMarks, ClockPeriods

LEMMA TwelveHours ==
    ASSUME NEW h \in 0 .. 23
    PROVE  /\ CDiv(h, 12) = h \div 12 /\ CMod(h, 12) = h % 12
           /\ h \div 12 \in 0 .. 1 /\ h % 12 \in 0 .. 11 /\ h = (h \div 12) * 12 + (h % 12)
<1>1. CDiv(h, 12) = h \div 12
  BY SMTT(10) DEF CDiv
<1>2. CMod(h, 12) = h - 12 * (h \div 12)
  BY <1>1 DEF CMod
<1>3. h \div 12 \in 0 .. 1 /\ h % 12 \in 0 .. 11 /\ h = (h \div 12) * 12 + (h % 12)
  <2> SUFFICES ASSUME NEW q, NEW r, q = h \div 12, r = h % 12
               PROVE  q \in 0 .. 1 /\ r \in 0 .. 11 /\ h = q * 12 + r
    OBVIOUS
  <2>1. h \in Int /\ 0 <= h /\ h <= 23
    OBVIOUS
  <2>2. q \in Int /\ r \in Int /\ 0 <= r /\ r <= 11 /\ h = 12 * q + r
    BY <2>1, SMTT(10)
  <2> QED BY <2>1, <2>2, SMTT(10)
<1>4. h - 12 * (h \div 12) = h % 12
  BY <1>3, SMTT(10)
<1> QED BY <1>1, <1>2, <1>3, <1>4

\* Each of the six fields after set_value.
LEMMA WrittenFields ==
    ASSUME NEW f \in Tm, f.hour \in 0 .. 23, NEW m \in PlainMarks, NEW v \in Int,
           NEW u, u = Written(f, m, v)
    PROVE  /\ u \in Tm
           /\ u.year = IF m = "year" THEN v ELSE f.year
           /\ u.mon = IF m = "month" THEN v ELSE f.mon
           /\ u.mday = IF m = "day" THEN v ELSE f.mday
           /\ u.hour = IF m = "hour" THEN v
                       ELSE IF m = "hour_12" THEN (f.hour \div 12) * 12 + v
                       ELSE IF m = "am_pm" THEN 12 * v + (f.hour % 12) ELSE f.hour
           /\ u.min = IF m = "minute" THEN v ELSE f.min
           /\ u.sec = IF m = "second" THEN v ELSE f.sec
<1> DEFINE p == (f.hour \div 12) * 12 + v
           q == 12 * v + (f.hour % 12)
<1>1. CDiv(f.hour, 12) * 12 + v = p /\ 12 * v + CMod(f.hour, 12) = q /\ p \in Int /\ q \in Int
  BY TwelveHours, SMTT(10)
<1>2. u = CASE m = "year"    -> [f EXCEPT !.year = v]
            [] m = "month"   -> [f EXCEPT !.mon = v]
            [] m = "day"     -> [f EXCEPT !.mday = v]
            [] m = "hour"    -> [f EXCEPT !.hour = v]
            [] m = "hour_12" -> [f EXCEPT !.hour = p]
            [] m = "am_pm"   -> [f EXCEPT !.hour = q]
            [] m = "minute"  -> [f EXCEPT !.min = v]
            [] m = "second"  -> [f EXCEPT !.sec = v]
  BY <1>1, Zenon DEF Written
<1> HIDE DEF p, q
<1>3. CASE m = "year"
  BY <1>2, <1>3 DEF Tm
<1>4. CASE m = "month"
  BY <1>2, <1>4 DEF Tm
<1>5. CASE m = "day"
  BY <1>2, <1>5 DEF Tm
<1>6. CASE m = "hour"
  BY <1>2, <1>6 DEF Tm
<1>7. CASE m = "hour_12"
  <2>1. u = [f EXCEPT !.hour = p]
    BY <1>2, <1>7
  <2>2. u \in Tm /\ u.year = f.year /\ u.mon = f.mon /\ u.mday = f.mday /\ u.hour = p /\ u.min = f.min /\ u.sec = f.sec
    BY <1>1, <2>1 DEF Tm
  <2> QED BY <1>7, <2>2 DEF p
<1>8. CASE m = "am_pm"
  <2>1. u = [f EXCEPT !.hour = q]
    BY <1>2, <1>8
  <2>2. u \in Tm /\ u.year = f.year /\ u.mon = f.mon /\ u.mday = f.mday /\ u.hour = q /\ u.min = f.min /\ u.sec = f.sec
    BY <1>1, <2>1 DEF Tm
  <2> QED BY <1>8, <2>2 DEF q
<1>9. CASE m = "minute"
  BY <1>2, <1>9 DEF Tm
<1>10. CASE m = "second"
  BY <1>2, <1>10 DEF Tm
<1> QED BY <1>3, <1>4, <1>5, <1>6, <1>7, <1>8, <1>9, <1>10 DEF PlainMarks, ClockPeriods

\* Setting such a mark shows the date and the time that it denotes.
PlainDone(c, m, v, d) ==
    /\ Settled(d) /\ d.fdow = c.fdow /\ d.upd = d.tm
    /\ d.tm.year = IF m = "year" THEN v ELSE c.tm.year
    /\ d.tm.mon = IF m = "month" THEN v ELSE c.tm.mon
    /\ d.tm.mday = IF m = "day" THEN v ELSE c.tm.mday
    /\ d.tm.hour = IF m = "hour" THEN v
                   ELSE IF m = "hour_12" THEN (c.tm.hour \div 12) * 12 + v
                   ELSE IF m = "am_pm" THEN 12 * v + (c.tm.hour % 12) ELSE c.tm.hour
    /\ d.tm.min = IF m = "minute" THEN v ELSE c.tm.min
    /\ d.tm.sec = IF m = "second" THEN v ELSE c.tm.sec

LEMMA PlainIsDone ==
    ASSUME NEW c, Settled(c), NEW m \in PlainMarks, NEW v, Valid(c, m, v), Possible(c, m, v),
           NEW d, d = SetTo(c, m, v)
    PROVE  PlainDone(c, m, v, d) /\ v \in Int
<1> DEFINE f == c.tm
           u == Written(f, m, v)
<1>1. IsDate(f.year, f.mon, f.mday) /\ IsClock(f.hour, f.min, f.sec) /\ f \in Tm
  BY SettledIsDate
<1>2. d = normalize(Pending(c, u))
  BY PlainIsWritten
<1>3. /\ m = "year" => v \in Int /\ v >= 1
      /\ m = "month" => v \in 0 .. 11
      /\ m = "day" => v \in 1 .. days_in_month(f.year, f.mon + 1)
      /\ m = "hour" => v \in 0 .. 23
      /\ m = "hour_12" => v \in 0 .. 11
      /\ m = "am_pm" => v \in 0 .. 1
      /\ m \in {"minute", "second"} => v \in 0 .. 59
  BY ValidPlain
<1>4. /\ m = "month" => f.mday <= days_in_month(f.year, v + 1)
      /\ m = "year" => f.mday <= days_in_month(v, f.mon + 1)
  BY DEF Possible
<1>5. v \in Int
  BY <1>3, SMTT(10) DEF PlainMarks, ClockPeriods
<1>6. f.hour \in 0 .. 23 /\ f.min \in 0 .. 59 /\ f.sec \in 0 .. 59
  BY <1>1 DEF IsClock
<1> HIDE DEF f, u
<1>7. /\ u \in Tm
      /\ u.year = IF m = "year" THEN v ELSE f.year
      /\ u.mon = IF m = "month" THEN v ELSE f.mon
      /\ u.mday = IF m = "day" THEN v ELSE f.mday
      /\ u.hour = IF m = "hour" THEN v
                  ELSE IF m = "hour_12" THEN (f.hour \div 12) * 12 + v
                  ELSE IF m = "am_pm" THEN 12 * v + (f.hour % 12) ELSE f.hour
      /\ u.min = IF m = "minute" THEN v ELSE f.min
      /\ u.sec = IF m = "second" THEN v ELSE f.sec
  BY <1>1, <1>5, <1>6, WrittenFields, SMTT(10) DEF u
<1>8. IsClock(u.hour, u.min, u.sec)
  BY <1>3, <1>5, <1>6, <1>7, SMTT(20) DEF IsClock
<1>9. IsDate(u.year, u.mon, u.mday)
  <2>1. f.year \in Int /\ f.year >= 1 /\ f.mon \in 0 .. 11 /\ f.mday \in 1 .. days_in_month(f.year, f.mon + 1)
    BY <1>1 DEF IsDate
  <2>2. CASE m \notin {"year", "month", "day"}
    BY <1>7, <2>1, <2>2 DEF IsDate
  <2>3. CASE m = "year"
    <3>1. days_in_month(v, f.mon + 1) \in Int /\ days_in_month(f.year, f.mon + 1) \in Int
      BY <2>1, MonthsInOrder, SMTT(10)
    <3>2. f.mday \in 1 .. days_in_month(v, f.mon + 1)
      BY <1>4, <2>1, <2>3, <3>1, SMTT(10)
    <3> QED BY <1>3, <1>7, <2>1, <2>3, <3>2 DEF IsDate
  <2>4. CASE m = "month"
    <3>1. days_in_month(f.year, v + 1) \in Int /\ days_in_month(f.year, f.mon + 1) \in Int
      BY <1>3, <2>1, <2>4, MonthsInOrder, SMTT(10)
    <3>2. f.mday \in 1 .. days_in_month(f.year, v + 1)
      BY <1>4, <2>1, <2>4, <3>1, SMTT(10)
    <3> QED BY <1>3, <1>7, <2>1, <2>4, <3>2 DEF IsDate
  <2>5. CASE m = "day"
    BY <1>3, <1>7, <2>1, <2>5 DEF IsDate
  <2> QED BY <2>2, <2>3, <2>4, <2>5
<1>10. /\ d.tm.year = u.year /\ d.tm.mon = u.mon /\ d.tm.mday = u.mday
       /\ d.tm.hour = u.hour /\ d.tm.min = u.min /\ d.tm.sec = u.sec
       /\ Settled(d) /\ d.fdow = c.fdow /\ d.upd = d.tm
  <2>1. AreShown(c, u, normalize(Pending(c, u)))
    BY <1>7, <1>8, <1>9, SetFieldsAreShown, Zenon
  <2> QED BY <1>2, <2>1, Zenon DEF AreShown
<1> QED BY <1>5, <1>7, <1>10 DEF PlainDone, f

-----------------------------------------------------------------------------
(* Marks that are set by moving the day. *)

\* The days by which set_value moves the date.
DaysTo(c, m, v) ==
    CASE m = "day_of_year" -> v - (c.tm.yday + 1)
      [] m = "day_of_week" -> ToLocalDow(v, c.fdow) - 1 - LocalDow(c)
      [] m = "day_of_week_local" -> v - 1 - LocalDow(c)
      [] OTHER -> 7 * (v - Current(c)[m])

LEMMA RelativeIsShift ==
    ASSUME NEW c, Settled(c), NEW m \in RelativeMarks, NEW v \in Int
    PROVE  /\ set_value(c, m, v) = ShiftDays(c, DaysTo(c, m, v)) /\ DaysTo(c, m, v) \in Int
           /\ SetTo(c, m, v) = normalize(ShiftDays(c, DaysTo(c, m, v)))
<1>1. normalize(c) = c /\ c.upd = c.tm
  BY SettledIsDate DEF normalize, Settled
<1>2. set_value(c, m, v) = SetRelative(c, m, v)
  BY <1>1 DEF set_value
<1>3. SetRelative(c, m, v) = ShiftDays(c, DaysTo(c, m, v))
  <2>1. c.upd.yday = c.tm.yday /\ (c.upd.wday - c.fdow + 7) % 7 = LocalDow(c)
    BY <1>1 DEF LocalDow
  <2>2. CASE m = "day_of_year"
    BY <2>1, <2>2, Zenon DEF SetRelative, DaysTo
  <2>3. CASE m = "day_of_week"
    BY <2>1, <2>3, Zenon DEF SetRelative, DaysTo
  <2>4. CASE m = "day_of_week_local"
    BY <2>1, <2>4, Zenon DEF SetRelative, DaysTo
  <2>5. CASE m \in WeekPeriods
    BY <2>5, Zenon DEF SetRelative, DaysTo, WeekPeriods
  <2> QED BY <2>2, <2>3, <2>4, <2>5 DEF RelativeMarks
<1>4. LocalDow(c) \in Int /\ c.tm.yday \in Int /\ c.fdow \in 0 .. 6
  <2>1. LocalDow(c) \in 0 .. 6 /\ c.tm.yday \in 0 .. 365
    BY CurrentWeeks, ZenonT(40)
  <2>2. c.fdow \in 0 .. 6
    BY DEF Settled, Shows, Calendar
  <2> QED BY <2>1, <2>2
<1>5. Current(c)[m] \in Int
  <2>1. m \in Periods
    BY DEF RelativeMarks, WeekPeriods, Periods, DayPeriods
  <2> QED BY <2>1, CurrentInt DEF Settled, Shows
<1>6. ToLocalDow(v, c.fdow) \in Int
  BY <1>4, ToLocalDowInt
<1>7. DaysTo(c, m, v) \in Int
  <2> DEFINE a == ToLocalDow(v, c.fdow)
             b == Current(c)[m]
             e == LocalDow(c)
             y == c.tm.yday
  <2>1. a \in Int /\ b \in Int /\ e \in Int /\ y \in Int
    BY <1>4, <1>5, <1>6
  <2>2. DaysTo(c, m, v) = CASE m = "day_of_year" -> v - (y + 1)
                            [] m = "day_of_week" -> a - 1 - e
                            [] m = "day_of_week_local" -> v - 1 - e
                            [] OTHER -> 7 * (v - b)
    BY Zenon DEF DaysTo
  <2> HIDE DEF a, b, e, y
  <2> QED BY <2>1, <2>2, SMTT(10)
<1> QED BY <1>2, <1>3, <1>7 DEF SetTo

Later(t, s, n) ==
    /\ s \in Int /\ DayOf(t) \in Int /\ DayOf(s) = DayOf(t) + n
    /\ WeekDayOf(s) = (WeekDayOf(t) + n) % 7
    /\ HourOf(s) = HourOf(t) /\ MinuteOf(s) = MinuteOf(t) /\ SecondOf(s) = SecondOf(t)

LEMMA InstantsApart ==
    ASSUME NEW t \in Int, NEW n \in Int, NEW s, s = t + 86400 * n
    PROVE  Later(t, s, n)
<1>1. /\ s \in Int /\ DayOf(t) \in Int /\ DayOf(s) = DayOf(t) + n
      /\ WeekDayOf(s) = (WeekDayOf(t) + n) % 7
      /\ HourOf(s) = HourOf(t) /\ MinuteOf(s) = MinuteOf(t) /\ SecondOf(s) = SecondOf(t)
  BY DaysLater, SMTT(30)
<1> QED BY <1>1 DEF Later

\* The calendar n days later or earlier.
DaysApart(c, d, n) ==
    /\ Shows(d) /\ d.normalized /\ d.fdow = c.fdow /\ Shift(d) = Shift(c) /\ d.tzoff = c.tzoff
    /\ LocalTime(d) \in Int /\ LocalTime(d) = LocalTime(c) + 86400 * n /\ d.time = c.time + 86400 * n
    /\ d.tm = gmtime(LocalTime(d)) /\ DayOf(LocalTime(d)) = DayOf(LocalTime(c)) + n
    /\ d.tm.wday = (c.tm.wday + n) % 7
    /\ d.tm.hour = c.tm.hour /\ d.tm.min = c.tm.min /\ d.tm.sec = c.tm.sec

LEMMA ShiftIsDone ==
    ASSUME NEW c, Settled(c), NEW n \in Int
    PROVE  DaysApart(c, normalize(ShiftDays(c, n)), n)
<1> DEFINE d == normalize(ShiftDays(c, n))
           t == LocalTime(c)
           s == LocalTime(d)
<1>1. /\ Shows(d) /\ d.normalized /\ d.fdow = c.fdow /\ Shift(d) = Shift(c) /\ d.tzoff = c.tzoff
      /\ s = t + 86400 * n /\ d.tm = gmtime(s) /\ d.time = c.time + 86400 * n
  BY ShiftedDays
<1>2. /\ t \in Int
      /\ c.tm = [year |-> YearOf(t), mon |-> MonthOf(t), mday |-> MonthDayOf(t), hour |-> HourOf(t),
                 min |-> MinuteOf(t), sec |-> SecondOf(t), wday |-> WeekDayOf(t), yday |-> YearDayOf(t)]
  BY SettledFields, Zenon
<1> HIDE DEF d, t, s
<1>3. /\ s \in Int /\ DayOf(s) = DayOf(t) + n /\ WeekDayOf(s) = (WeekDayOf(t) + n) % 7
      /\ HourOf(s) = HourOf(t) /\ MinuteOf(s) = MinuteOf(t) /\ SecondOf(s) = SecondOf(t)
  <2>1. t \in Int /\ s = t + 86400 * n
    BY <1>1, <1>2, SMTT(10)
  <2>2. Later(t, s, n)
    BY <2>1, InstantsApart, SMTT(30)
  <2> QED BY <2>2 DEF Later
<1>4. gmtime(s) = [year |-> YearOf(s), mon |-> MonthOf(s), mday |-> MonthDayOf(s), hour |-> HourOf(s),
                   min |-> MinuteOf(s), sec |-> SecondOf(s), wday |-> WeekDayOf(s), yday |-> YearDayOf(s)]
  BY <1>3, GmtimeIs, Zenon
<1>5. /\ d.tm.wday = (c.tm.wday + n) % 7
      /\ d.tm.hour = c.tm.hour /\ d.tm.min = c.tm.min /\ d.tm.sec = c.tm.sec
  BY <1>1, <1>2, <1>3, <1>4
<1> QED BY <1>1, <1>3, <1>5, SMTT(30) DEF DaysApart, d, t, s

\* The fields of a settled calendar, by its day.
LEMMA SettledDay ==
    ASSUME NEW c, Settled(c)
    PROVE  /\ LocalTime(c) \in Int /\ c.tm.year \in Int /\ c.tm.year >= 1
           /\ c.tm.year = YearOf(LocalTime(c)) /\ c.tm.mon = MonthOf(LocalTime(c))
           /\ c.tm.mday = MonthDayOf(LocalTime(c)) /\ c.tm.yday = YearDayOf(LocalTime(c))
           /\ c.tm.yday \in 0 .. days_in_year(c.tm.year) - 1
           /\ DayOf(LocalTime(c)) = days_from_0(c.tm.year) - 719162 + c.tm.yday
           /\ DayOf(LocalTime(c)) \in Int /\ DayOf(LocalTime(c)) >= -719162
<1> DEFINE t == LocalTime(c)
<1>1. /\ t \in Int /\ YearOf(t) \in Int /\ YearOf(t) >= 1
      /\ c.tm = [year |-> YearOf(t), mon |-> MonthOf(t), mday |-> MonthDayOf(t), hour |-> HourOf(t),
                 min |-> MinuteOf(t), sec |-> SecondOf(t), wday |-> WeekDayOf(t), yday |-> YearDayOf(t)]
  BY SettledFields, Zenon
<1> HIDE DEF t
<1>2. /\ YearDayOf(t) \in 0 .. days_in_year(YearOf(t)) - 1
      /\ DayOf(t) = days_from_0(YearOf(t)) - 719162 + YearDayOf(t)
  BY <1>1, YearDayIsCounted, SMTT(10)
<1>3. DayOf(t) \in Int /\ DayOf(t) >= -719162
  BY <1>1, GmtimeParts, SinceYearOne, SMTT(10)
<1> QED BY <1>1, <1>2, <1>3, SMTT(10) DEF t

\* What is shown since the year 1 is settled.
LEMMA ShownDay ==
    ASSUME NEW c, Shows(c), c.normalized, LocalTime(c) \in Int, c.tm = gmtime(LocalTime(c)),
           DayOf(LocalTime(c)) >= -719162
    PROVE  Settled(c)
<1>1. YearOf(LocalTime(c)) >= 1
  BY SinceYearOne, SMTT(10)
<1>2. c.tm.year = YearOf(LocalTime(c))
  BY GmtimeIs
<1> QED BY <1>1, <1>2 DEF Settled

\* The day of the week that is asked for, counted from the first of the local week.
LEMMA ToLocalDowIs ==
    ASSUME NEW v \in Int, NEW f \in Weekdays
    PROVE  ToLocalDow(v, f) = ((v - 1 - f) % 7) + 1
<1> DEFINE p == IF v < 1 THEN v + ((-v) \div 7) * 7 + 7 ELSE v
           a == p - 1 - f + 14
<1>1. p \in Int /\ p >= 1 /\ (p - 1 - f) % 7 = (v - 1 - f) % 7
  <2>1. CASE v >= 1
    BY <2>1, SMTT(10)
  <2>2. CASE v < 1
    <3> DEFINE q == (-v) \div 7
    <3>1. q \in Int /\ -v >= 7 * q /\ -v < 7 * q + 7
      BY <2>2, SMTT(10)
    <3>2. p = v + q * 7 + 7
      BY <2>2
    <3> HIDE DEF p, q
    <3>3. p \in Int /\ p >= 1
      BY <3>1, <3>2, SMTT(10)
    <3>4. p - 1 - f = v - 1 - f + 7 * (q + 1)
      BY <3>1, <3>2, SMTT(10) DEF Weekdays
    <3> DEFINE b == v - 1 - f
    <3>5. b \in Int
      BY SMTT(10) DEF Weekdays
    <3> HIDE DEF b
    <3>6. (b + 7 * (q + 1)) % 7 = b % 7
      BY <3>1, <3>5, SMTT(20)
    <3> QED BY <3>3, <3>4, <3>6 DEF b
  <2> QED BY <2>1, <2>2, SMTT(10)
<1>2. ToLocalDow(v, f) = CMod(a, 7) + 1
  BY Zenon DEF ToLocalDow
<1> HIDE DEF p
<1>3. a \in Int /\ a >= 0 /\ a = p - 1 - f + 14 /\ p - 1 - f \in Int
  BY <1>1, SMTT(10) DEF Weekdays
<1> HIDE DEF a
<1>4. CMod(a, 7) = a - 7 * (a \div 7)
  BY <1>3 DEF CMod, CDiv
<1>5. a - 7 * (a \div 7) = a % 7
  BY <1>3, SMTT(10)
<1>6. a % 7 = (p - 1 - f) % 7
  <2> DEFINE b == p - 1 - f
  <2>1. b \in Int /\ a = b + 14
    BY <1>3
  <2> HIDE DEF b
  <2>2. a % 7 = b % 7
    BY <2>1, SMTT(10)
  <2> QED BY <2>2 DEF b
<1> QED BY <1>1, <1>2, <1>4, <1>5, <1>6

\* Moving a weekday to the place x of its local week.
InPlace(f, x, n, z) ==
    n \in -6 .. 6 /\ z \in Weekdays /\ (z - f + 7) % 7 = x /\ z = (x + f) % 7

LEMMA WeekdayMoves ==
    ASSUME NEW w \in Weekdays, NEW f \in Weekdays, NEW x \in Weekdays,
           NEW e, e = (w - f + 7) % 7, NEW n, n = x - e, NEW z, z = (w + n) % 7
    PROVE  InPlace(f, x, n, z)
<1>1. w \in Int /\ 0 <= w /\ w <= 6 /\ f \in Int /\ 0 <= f /\ f <= 6 /\ x \in Int /\ 0 <= x /\ x <= 6
  BY DEF Weekdays
<1>2. e = IF w >= f THEN w - f ELSE w - f + 7
  BY <1>1, SMTT(10)
<1>3. n \in Int /\ n <= 6 /\ n >= -6 /\ w + n = IF w >= f THEN x + f ELSE x + f - 7
  BY <1>1, <1>2, SMTT(10)
<1>4. z = IF x + f <= 6 THEN x + f ELSE x + f - 7
  BY <1>1, <1>3, SMTT(10)
<1>5. n \in -6 .. 6 /\ z \in 0 .. 6 /\ (z - f + 7) % 7 = x /\ z = (x + f) % 7
  BY <1>1, <1>3, <1>4, SMTT(20)
<1> QED BY <1>5 DEF InPlace, Weekdays

\* The place in the local week that a weekday is set to.
PlaceOf(c, m, v) == IF m = "day_of_week" THEN (v - 1 - c.fdow) % 7 ELSE v - 1

WeekdayDone(c, m, v, d) ==
    /\ DaysApart(c, d, DaysTo(c, m, v)) /\ DaysTo(c, m, v) \in -6 .. 6
    /\ LocalDow(d) = LocalDow(c) + DaysTo(c, m, v) /\ LocalDow(d) = PlaceOf(c, m, v)
    /\ LocalDow(d) \in 0 .. 6 /\ LocalDow(c) \in 0 .. 6
    /\ d.tm.wday \in 0 .. 6
    /\ m = "day_of_week" => d.tm.wday = (v - 1) % 7

LEMMA WeekdayIsDone ==
    ASSUME NEW c, Settled(c), NEW m \in {"day_of_week", "day_of_week_local"}, NEW v \in Int,
           m = "day_of_week" \/ v \in 1 .. 7
    PROVE  WeekdayDone(c, m, v, SetTo(c, m, v))
<1> DEFINE d == SetTo(c, m, v)
           n == DaysTo(c, m, v)
           x == PlaceOf(c, m, v)
           e == LocalDow(c)
           w == c.tm.wday
           f == c.fdow
           z == d.tm.wday
<1>1. w \in Weekdays /\ f \in Weekdays /\ e = (w - f + 7) % 7 /\ e \in 0 .. 6
  <2>1. c.tm.wday \in 0 .. 6
    <3> HIDE DEF d, n, x, e, z
    <3> QED BY SettledRanges, SMTT(10)
  <2>2. c.fdow \in 0 .. 6
    BY DEF Settled, Shows, Calendar
  <2>3. LocalDow(c) \in 0 .. 6
    BY CurrentWeeks, ZenonT(40)
  <2>4. LocalDow(c) = (c.tm.wday - c.fdow + 7) % 7
    BY DEF LocalDow
  <2> QED BY <2>1, <2>2, <2>3, <2>4, Zenon DEF Weekdays
<1>2. DaysApart(c, d, n) /\ n \in Int
  BY RelativeIsShift, ShiftIsDone DEF RelativeMarks
<1>3. n = x - e /\ x \in Weekdays
  <2>1. CASE m = "day_of_week"
    <3>1. n = ToLocalDow(v, f) - 1 - e /\ x = (v - 1 - f) % 7
      BY <2>1 DEF DaysTo, PlaceOf
    <3>2. ToLocalDow(v, f) = ((v - 1 - f) % 7) + 1
      BY <1>1, ToLocalDowIs
    <3> HIDE DEF n, x, e, f
    <3>3. x \in Weekdays
      <4> DEFINE b == v - 1 - f
      <4>1. b \in Int
        BY <1>1 DEF Weekdays
      <4> HIDE DEF b
      <4>2. b % 7 \in Weekdays
        BY <4>1 DEF Weekdays
      <4> QED BY <3>1, <4>2 DEF b
    <3> QED BY <1>1, <3>1, <3>2, <3>3, SMTT(10) DEF Weekdays
  <2>2. CASE m = "day_of_week_local"
    <3>1. n = v - 1 - e /\ x = v - 1 /\ v \in 1 .. 7
      BY <2>2 DEF DaysTo, PlaceOf
    <3> QED BY <3>1 DEF Weekdays
  <2> QED BY <2>1, <2>2
<1>4. z = (w + n) % 7 /\ LocalDow(d) = (z - f + 7) % 7
  BY <1>2 DEF DaysApart, LocalDow
<1>5. /\ n \in -6 .. 6 /\ z \in Weekdays /\ (z - f + 7) % 7 = x /\ z = (x + f) % 7
  <2> HIDE DEF n, x, e, w, f, z
  <2>1. InPlace(f, x, n, z)
    BY <1>1, <1>3, <1>4, WeekdayMoves, SMTT(20)
  <2> QED BY <2>1 DEF InPlace
<1>6. m = "day_of_week" => z = (v - 1) % 7
  <2> SUFFICES ASSUME m = "day_of_week" PROVE z = (v - 1) % 7
    OBVIOUS
  <2>1. x = (v - 1 - f) % 7
    BY DEF PlaceOf
  <2> HIDE DEF x, f, z
  <2> DEFINE b == v - 1
  <2>2. b \in Int /\ x = (b - f) % 7
    BY <2>1
  <2> HIDE DEF b
  <2>3. (((b - f) % 7) + f) % 7 = b % 7
    BY <1>1, <2>2, SMTT(20) DEF Weekdays
  <2> QED BY <1>5, <2>2, <2>3 DEF b
<1>7. LocalDow(d) = x /\ LocalDow(d) = e + n
  <2>1. e \in Int /\ x \in Int
    BY <1>1, <1>3 DEF Weekdays
  <2>2. LocalDow(d) = x
    BY <1>4, <1>5, Zenon
  <2> HIDE DEF n, x, e, d
  <2> QED BY <1>3, <2>1, <2>2, SMTT(10)
<1> HIDE DEF d, n, x, e, w, f
<1>8. LocalDow(d) \in 0 .. 6 /\ z \in 0 .. 6
  BY <1>3, <1>5, <1>7 DEF Weekdays
<1> QED BY <1>1, <1>2, <1>5, <1>6, <1>7, <1>8, Zenon DEF WeekdayDone, d, n, x, e

\* A day of the year is found in the same year.
YearDayDone(c, v, d) ==
    /\ DaysApart(c, d, v - (c.tm.yday + 1)) /\ Settled(d)
    /\ d.tm.year = c.tm.year /\ d.tm.yday = v - 1

LEMMA YearDayIsDone ==
    ASSUME NEW c, Settled(c), NEW v \in 1 .. days_in_year(c.tm.year)
    PROVE  YearDayDone(c, v, SetTo(c, "day_of_year", v))
<1> DEFINE d == SetTo(c, "day_of_year", v)
           n == v - (c.tm.yday + 1)
           y == c.tm.year
           t == LocalTime(c)
           s == LocalTime(d)
<1>1. v \in Int
  OBVIOUS
<1>2. DaysTo(c, "day_of_year", v) = n
  BY DEF DaysTo
<1>3. DaysApart(c, d, n) /\ n \in Int
  BY <1>1, <1>2, RelativeIsShift, ShiftIsDone DEF RelativeMarks
<1>4. /\ y \in Int /\ y >= 1 /\ c.tm.yday \in 0 .. days_in_year(y) - 1
      /\ DayOf(t) = days_from_0(y) - 719162 + c.tm.yday
  <2> HIDE DEF d, n, s
  <2> QED BY SettledDay, SMTT(10)
<1>5. s \in Int /\ DayOf(s) = DayOf(t) + n /\ d.tm = gmtime(s) /\ Shows(d) /\ d.normalized
  BY <1>3 DEF DaysApart
<1>6. days_from_0(y) \in Int /\ days_in_year(y) \in Int
  BY <1>4, DaysFrom0Int, LeapDayInt, SMTT(10) DEF days_in_year
<1>7. DayOf(s) = days_from_0(y) - 719162 + (v - 1) /\ v - 1 \in 0 .. days_in_year(y) - 1
  <2> DEFINE x == c.tm.yday
             b == days_from_0(y)
             k == days_in_year(y)
  <2>1. x \in Int /\ b \in Int /\ k \in Int /\ DayOf(t) = b - 719162 + x /\ v \in 1 .. k
    BY <1>4, <1>6
  <2>2. DayOf(s) = DayOf(t) + (v - (x + 1))
    BY <1>5
  <2> HIDE DEF x, b, k, y, t, s, d
  <2>3. DayOf(s) = b - 719162 + (v - 1) /\ v - 1 \in 0 .. k - 1
    BY <2>1, <2>2, SMTT(10)
  <2> QED BY <2>3, SMTT(10) DEF b, k
<1> HIDE DEF d, n, y, t, s
<1>8. YearOf(s) = y /\ YearDayOf(s) = v - 1
  BY <1>4, <1>5, <1>7, YearDayIsFound, SMTT(20)
<1>9. d.tm.year = y /\ d.tm.yday = v - 1
  BY <1>5, <1>8, GmtimeIs
<1>10. Settled(d)
  BY <1>4, <1>5, <1>9 DEF Settled
<1> QED BY <1>3, <1>9, <1>10 DEF YearDayDone, d, n, y

-----------------------------------------------------------------------------
(* Weeks that are set. *)

\* The days before the year 1 are no days of January or February.
LEMMA BeforeYearOne ==
    ASSUME NEW s \in Int, DayOf(s) < -719162, DayOf(s) >= -719162 - 60
    PROVE  MonthOf(s) >= 2
<1> DEFINE x == DayOf(s) + 719468
<1>1. DayOf(s) \in Int /\ x \in Int /\ x >= 246 /\ x < 306
  BY GmtimeParts, SMTT(40)
<1>2. Era(s) = x \div 146097 /\ DayInEra(s) = x % 146097
  BY DEF Era, DayInEra
<1> HIDE DEF x
<1>3. DayInEra(s) = x
  BY <1>1, <1>2, SMTT(10)
<1>4. YearInEra(s) = 0
  <2>1. x \div 1460 = 0 /\ x \div 36524 = 0 /\ x \div 146096 = 0 /\ x \div 365 = 0
    BY <1>1, SMTT(10)
  <2>2. YearInEra(s) = (x - 0 + 0 - 0) \div 365
    BY <1>3, <2>1 DEF YearInEra
  <2>3. x - 0 + 0 - 0 = x
    BY <1>1
  <2> QED BY <2>1, <2>2, <2>3
<1>5. DayFromMarch(s) = x
  <2>1. 0 \div 4 = 0 /\ 0 \div 100 = 0
    BY SMTT(10)
  <2>2. DayFromMarch(s) = x - (365 * 0 + 0 - 0)
    BY <1>3, <1>4, <2>1 DEF DayFromMarch
  <2> QED BY <1>1, <2>2, SMTT(10)
<1>6. ~(DayFromMarch(s) >= 306)
  BY <1>1, <1>5, SMTT(10)
<1> QED BY <1>6, PartsRange, SMTT(10)

\* A week of the same year or month.
Finds(day, day2, e, last, v) == WeekOf(day2 - e + 3, last) = v

LEMMA WeekIsFound ==
    ASSUME NEW day \in Int, day >= 0, NEW e \in 0 .. 6, NEW last \in Int, NEW v \in Int, v >= 1, v <= last,
           NEW day2, day2 = day + 7 * (v - WeekOf(day - e + 3, last)), day2 >= 0
    PROVE  Finds(day, day2, e, last, v)
<1> DEFINE cur == WeekOf(day - e + 3, last)
           f == day - e + 3
           g == day2 - e + 3
<1>1. f \in Int /\ e \in Int /\ e <= 6 /\ f = day - e + 3
  OBVIOUS
<1> SUFFICES WeekOf(day2 - e + 3, last) = v
  BY DEF Finds
<1>4. day2 = day + 7 * (v - cur)
  OBVIOUS
<1> HIDE DEF f, cur
<1>2. CASE f < 0
  <2>1. cur = last
    BY <1>2 DEF WeekOf, f, cur
  <2>2. v = last
    BY <1>1, <1>2, <1>4, <2>1, SMTT(10)
  <2>3. g = f
    BY <1>1, <1>4, <2>1, <2>2, SMTT(10) DEF f
  <2> QED BY <1>2, <2>2, <2>3 DEF WeekOf, f
<1>3. CASE ~(f < 0)
  <2> DEFINE q == f \div 7
  <2>1. cur = q + 1
    BY <1>3 DEF WeekOf, f, cur
  <2>2. q \in Int /\ f >= 7 * q /\ f < 7 * q + 7
    BY <1>1, <1>3, SMTT(10)
  <2> HIDE DEF q
  <2>3. g = f + 7 * (v - (q + 1))
    BY <1>1, <1>4, <2>1, <2>2, SMTT(10)
  <2> HIDE DEF g
  <2>4. g \in Int /\ g >= 7 * (v - 1) /\ g < 7 * (v - 1) + 7 /\ g >= 0
    BY <1>1, <2>2, <2>3, SMTT(10)
  <2>5. g \div 7 = v - 1
    BY <2>4, SMTT(10)
  <2>6. WeekOf(g, last) = v - 1 + 1
    BY <2>4, <2>5 DEF WeekOf
  <2> QED BY <2>6 DEF g
<1> QED BY <1>2, <1>3

LEMMA SameWeekday ==
    ASSUME NEW w \in Weekdays, NEW k \in Int
    PROVE  (w + 7 * k) % 7 = w
  BY SMTT(10) DEF Weekdays

\* The week that is set is the one that is shown, on the same day of the week.
WeekDone(c, m, v, d) ==
    /\ DaysApart(c, d, DaysTo(c, m, v)) /\ Settled(d) /\ LocalDow(d) = LocalDow(c)
    /\ d.tm.wday = c.tm.wday /\ d.tm.year = c.tm.year
    /\ m = "week_of_year" => d.tm.yday = c.tm.yday + DaysTo(c, m, v)
    /\ m \in {"week_of_month", "day_of_week_in_month"} =>
            d.tm.mon = c.tm.mon /\ d.tm.mday = c.tm.mday + DaysTo(c, m, v)
    /\ Current(d)[m] = v

\* What every week has in common.
LEMMA WeekMoves ==
    ASSUME NEW c, Settled(c), NEW m \in WeekPeriods, NEW v \in Int, NEW d, d = SetTo(c, m, v)
    PROVE  /\ DaysApart(c, d, DaysTo(c, m, v)) /\ LocalDow(d) = LocalDow(c) /\ d.tm.wday = c.tm.wday
           /\ DaysTo(c, m, v) = 7 * (v - Current(c)[m]) /\ Current(c)[m] \in Int
<1> DEFINE n == DaysTo(c, m, v)
           w == c.tm.wday
           k == v - Current(c)[m]
<1>1. DaysApart(c, d, n) /\ n \in Int
  BY RelativeIsShift, ShiftIsDone DEF RelativeMarks
<1>2. Current(c)[m] \in Int
  <2>1. m \in Periods
    BY DEF WeekPeriods, Periods
  <2> QED BY <2>1, CurrentInt DEF Settled, Shows
<1>3. n = 7 * k /\ k \in Int
  BY <1>2 DEF DaysTo, WeekPeriods
<1>4. w \in Weekdays
  <2>1. c.tm.wday \in 0 .. 6
    <3> HIDE DEF n, k, w
    <3> QED BY SettledRanges, SMTT(10)
  <2> QED BY <2>1 DEF Weekdays
<1>5. d.tm.wday = (w + n) % 7 /\ d.fdow = c.fdow
  BY <1>1 DEF DaysApart
<1>6. (w + 7 * k) % 7 = w
  <2> HIDE DEF w, k
  <2> QED BY <1>3, <1>4, SameWeekday
<1>7. d.tm.wday = c.tm.wday
  BY <1>3, <1>5, <1>6
<1> QED BY <1>1, <1>2, <1>3, <1>5, <1>7, Zenon DEF LocalDow

LEMMA ValidRelative ==
    ASSUME NEW c, Settled(c), NEW m \in RelativeMarks, NEW v, Valid(c, m, v)
    PROVE  /\ v \in Int /\ v >= 1
           /\ m = "day_of_year" => v \in 1 .. days_in_year(c.tm.year)
           /\ m \in {"day_of_week", "day_of_week_local"} => v \in 1 .. 7
           /\ m = "week_of_year" => v <= 53
           /\ m \in {"week_of_month", "day_of_week_in_month"} => v <= 5
<1> DEFINE last == ActualMaximum(c)[m]
<1>1. m \in Periods \ {"year"} /\ Minimum(m) = 1
  BY DEF RelativeMarks, WeekPeriods, Periods, DayPeriods, Minimum
<1>2. v \in 1 .. last
  BY <1>1 DEF Valid, RelativeMarks, WeekPeriods
<1>3. last <= AbsoluteMaximum[m]
  BY <1>1, LimitsHold, Zenon DEF LimitsOf
<1>4. /\ AbsoluteMaximum["week_of_year"] = 53 /\ AbsoluteMaximum["week_of_month"] = 5
      /\ AbsoluteMaximum["day_of_week_in_month"] = 5 /\ AbsoluteMaximum["day_of_week"] = 7
      /\ AbsoluteMaximum["day_of_week_local"] = 7
  BY DEF AbsoluteMaximum, LeastMaximum
<1>5. m = "day_of_year" => last = days_in_year(c.tm.year)
  BY <1>1, ActualMaximumIs DEF Periods
<1>6. last \in Int
  <2>1. c \in Calendar /\ m \in Periods
    BY <1>1 DEF Settled, Shows
  <2>2. c.tm.mon \in 0 .. 11
    <3> HIDE DEF last
    <3> QED BY SettledRanges, SMTT(10)
  <2> QED BY <2>1, <2>2, ActualMaximumInt, Zenon
<1> HIDE DEF last
<1>7. v \in Int /\ v >= 1 /\ v <= last
  BY <1>2, <1>6
<1> QED BY <1>3, <1>4, <1>5, <1>6, <1>7

LEMMA WeekOfYearIsDone ==
    ASSUME NEW c, Settled(c), NEW v, Valid(c, "week_of_year", v), Possible(c, "week_of_year", v)
    PROVE  WeekDone(c, "week_of_year", v, SetTo(c, "week_of_year", v))
<1> DEFINE m == "week_of_year"
           d == SetTo(c, m, v)
           n == DaysTo(c, m, v)
           cur == Current(c)[m]
           x == c.tm.yday
           e == LocalDow(c)
           y == c.tm.year
<1>1. v \in Int /\ v >= 1 /\ v <= 53
  BY ValidRelative DEF RelativeMarks, WeekPeriods
<1>2. /\ DaysApart(c, d, n) /\ LocalDow(d) = e /\ d.tm.wday = c.tm.wday
      /\ n = 7 * (v - cur) /\ cur \in Int
  BY <1>1, WeekMoves DEF WeekPeriods
<1>3. d.tm.year = y
  BY DEF Possible
<1>4. y \in Int /\ y >= 1 /\ DayOf(LocalTime(c)) = days_from_0(y) - 719162 + x
  BY SettledDay, SMTT(10)
<1>5. Settled(d)
  BY <1>2, <1>3, <1>4 DEF Settled, DaysApart
<1>6. d.tm.yday = x + n
  <2> DEFINE b == days_from_0(y)
             z == d.tm.yday
  <2>1. z \in 0 .. 365 /\ x \in 0 .. 365
    <3> HIDE DEF d, z, b
    <3>1. d.tm.yday \in 0 .. 365 /\ c.tm.yday \in 0 .. 365
      BY <1>5, SettledRanges, SMTT(10)
    <3> QED BY <3>1 DEF z
  <2>2. DayOf(LocalTime(d)) = b - 719162 + z
    BY <1>3, <1>5, SettledDay, SMTT(10)
  <2>3. DayOf(LocalTime(d)) = DayOf(LocalTime(c)) + n
    BY <1>2 DEF DaysApart
  <2>4. b \in Int /\ n \in Int
    <3>1. b \in Int
      BY <1>4, DaysFrom0Int
    <3> HIDE DEF n, cur
    <3> QED BY <1>1, <1>2, <3>1
  <2> HIDE DEF b, z, n, x, y
  <2>5. z = x + n
    BY <1>4, <2>1, <2>2, <2>3, <2>4, SMTT(10) DEF b
  <2> QED BY <2>5 DEF z
<1>7. Current(d)[m] = v
  <2> DEFINE z == d.tm.yday
  <2>1. cur = WeekOf(x - e + 3, 53) /\ e \in 0 .. 6 /\ x \in 0 .. 365
    BY CurrentWeeks, ZenonT(40)
  <2>2. Current(d)[m] = WeekOf(z - e + 3, 53) /\ z \in 0 .. 365
    BY <1>2, <1>5, CurrentWeeks, ZenonT(40)
  <2>3. z = x + 7 * (v - cur)
    BY <1>2, <1>6
  <2> HIDE DEF z, x, cur, e
  <2>4. x \in Int /\ x >= 0 /\ z >= 0 /\ z = x + 7 * (v - WeekOf(x - e + 3, 53)) /\ 53 \in Int
    BY <2>1, <2>2, <2>3, SMTT(10)
  <2>5. Finds(x, z, e, 53, v)
    BY <1>1, <2>1, <2>4, WeekIsFound, Zenon
  <2> QED BY <2>2, <2>5 DEF Finds
<1> QED BY <1>2, <1>3, <1>5, <1>6, <1>7, Zenon DEF WeekDone

\* A week of the month that is shown lies in the same year.
LEMMA WeekInMonth ==
    ASSUME NEW c, Settled(c), NEW n \in Int, n >= -35, n <= 35, NEW d, DaysApart(c, d, n),
           d.tm.mon = c.tm.mon
    PROVE  Settled(d) /\ d.tm.year = c.tm.year /\ d.tm.mday = c.tm.mday + n
<1> DEFINE t == LocalTime(c)
           s == LocalTime(d)
<1>1. /\ t \in Int /\ YearOf(t) >= 1 /\ YearOf(t) \in Int /\ DayOf(t) \in Int /\ DayOf(t) >= -719162
      /\ c.tm.year = YearOf(t) /\ c.tm.mon = MonthOf(t) /\ c.tm.mday = MonthDayOf(t)
      /\ c.tm.yday = YearDayOf(t) /\ DayOf(t) = days_from_0(YearOf(t)) - 719162 + YearDayOf(t)
  BY SettledDay, SMTT(10)
<1>2. s \in Int /\ DayOf(s) = DayOf(t) + n /\ d.tm = gmtime(s) /\ Shows(d) /\ d.normalized
  BY DEF DaysApart
<1> HIDE DEF t, s
<1>3. /\ d.tm.year = YearOf(s) /\ d.tm.mon = MonthOf(s) /\ d.tm.mday = MonthDayOf(s) /\ YearOf(s) \in Int
  BY <1>2, GmtimeIs, PartsRange
<1>4. MonthOf(s) = MonthOf(t) /\ MonthOf(s) \in 0 .. 11
  <2>1. MonthOf(s) \in 0 .. 11
    BY <1>2, PartsRange, Zenon
  <2> QED BY <1>1, <1>3, <2>1
<1>5. DayOf(s) >= -719162
  <2> SUFFICES ASSUME DayOf(s) < -719162
               PROVE  FALSE
    BY <1>1, <1>2, SMTT(10)
  <2>1. MonthOf(s) >= 2
    BY <1>1, <1>2, BeforeYearOne, SMTT(10)
  <2>2. DayOf(t) < -719162 + 35
    BY <1>1, <1>2, SMTT(10)
  <2>3. YearOf(t) = 1 /\ YearDayOf(t) = DayOf(t) + 719162
    <3> DEFINE j == DayOf(t) + 719162
    <3>1. j \in Int /\ j >= 0 /\ j < 35
      BY <1>1, <2>2, SMTT(10)
    <3>2. days_from_0(1) = 0
      BY SMTT(10) DEF days_from_0, CDiv
    <3>3. j \in 0 .. days_in_year(1) - 1
      BY <3>1, LeapDayInt, SMTT(10) DEF days_in_year
    <3>4. DayOf(t) = days_from_0(1) - 719162 + j
      BY <1>1, <3>2, SMTT(10)
    <3> HIDE DEF j
    <3>5. YearOf(t) = 1 /\ YearDayOf(t) = j
      BY <1>1, <3>3, <3>4, YearDayIsFound, SMTT(20)
    <3> QED BY <3>5 DEF j
  <2>4. YearDayOf(t) < 35 /\ YearDayOf(t) \in Int
    BY <1>1, <2>2, <2>3, SMTT(10)
  <2>5. MonthOf(t) <= 1
    <3> SUFFICES ASSUME MonthOf(t) >= 2
                 PROVE  FALSE
      BY <1>4
    <3>1. YearDayOf(t) = DayFromMarch(t) + 59 + LeapDay(YearOf(t))
      BY <1>4 DEF YearDayOf
    <3>2. DayFromMarch(t) \in 0 .. 365 /\ LeapDay(YearOf(t)) \in 0 .. 1
      BY <1>1, GmtimeParts, LeapDayInt, SMTT(10)
    <3> QED BY <2>4, <3>1, <3>2, SMTT(10)
  <2> QED BY <1>4, <2>1, <2>5, SMTT(10)
<1>6. YearOf(s) >= 1
  BY <1>2, <1>5, SinceYearOne, SMTT(10)
<1>7. YearOf(s) = YearOf(t) /\ MonthDayOf(s) = MonthDayOf(t) + n
  <2>1. n = DayOf(s) - DayOf(t) /\ n <= 300 /\ n >= -300
    BY <1>1, <1>2, SMTT(10)
  <2> QED BY <1>1, <1>2, <1>4, <1>6, <2>1, SameMonth, SMTT(20)
<1> QED BY <1>1, <1>2, <1>3, <1>6, <1>7 DEF Settled

LEMMA WeekOfMonthIsDone ==
    ASSUME NEW c, Settled(c), NEW m \in {"week_of_month", "day_of_week_in_month"}, NEW v, Valid(c, m, v),
           Possible(c, m, v)
    PROVE  WeekDone(c, m, v, SetTo(c, m, v))
<1> DEFINE d == SetTo(c, m, v)
           n == DaysTo(c, m, v)
           cur == Current(c)[m]
           x == c.tm.mday
           e == LocalDow(c)
           z == d.tm.mday
<1>1. v \in Int /\ v >= 1 /\ v <= 5
  BY ValidRelative DEF RelativeMarks, WeekPeriods
<1>2. /\ DaysApart(c, d, n) /\ LocalDow(d) = e /\ d.tm.wday = c.tm.wday
      /\ n = 7 * (v - cur) /\ cur \in Int
  BY <1>1, WeekMoves DEF WeekPeriods
<1>3. d.tm.mon = c.tm.mon
  BY DEF Possible
<1>4. x \in 1 .. 31 /\ e \in 0 .. 6
  BY CurrentWeeks, ZenonT(40)
<1>5. /\ m = "week_of_month" => cur = WeekOf(x - e + 3, 5)
      /\ m = "day_of_week_in_month" => cur = (x - 1) \div 7 + 1
  <2>1. m = "week_of_month" => cur = WeekOf(x - e + 3, 5)
    BY CurrentWeeks, ZenonT(40)
  <2>2. m = "day_of_week_in_month" => cur = (x - 1) \div 7 + 1
    BY DEF Current
  <2> QED BY <2>1, <2>2
<1>6. cur \in 1 .. 5
  <2>1. CASE m = "week_of_month"
    <3> DEFINE f == x - e + 3
    <3>1. f \in Int /\ f <= 34
      <4> HIDE DEF x, e
      <4> QED BY <1>4, SMTT(10)
    <3> HIDE DEF f
    <3>2. WeekOf(f, 5) \in 1 .. 5
      BY <3>1, SMTT(10) DEF WeekOf
    <3> QED BY <1>5, <2>1, <3>2 DEF f
  <2>2. CASE m = "day_of_week_in_month"
    <3> HIDE DEF x, cur
    <3> QED BY <1>4, <1>5, <2>2, SMTT(10)
  <2> QED BY <2>1, <2>2
<1>7. n \in Int /\ n >= -35 /\ n <= 35
  <2> HIDE DEF n, cur
  <2> QED BY <1>1, <1>2, <1>6, SMTT(10)
<1>8. Settled(d) /\ d.tm.year = c.tm.year /\ z = x + n
  <2> HIDE DEF d, n
  <2> QED BY <1>2, <1>3, <1>7, WeekInMonth
<1>9. Current(d)[m] = v
  <2>1. z \in 1 .. 31
    BY <1>8, CurrentWeeks, ZenonT(40)
  <2>2. z = x + 7 * (v - cur)
    BY <1>2, <1>8
  <2>3. CASE m = "week_of_month"
    <3>1. Current(d)[m] = WeekOf(z - e + 3, 5)
      BY <1>2, <1>8, <2>3, CurrentWeeks, ZenonT(40)
    <3> HIDE DEF z, x, cur, e
    <3>2. x \in Int /\ x >= 0 /\ z >= 0 /\ z = x + 7 * (v - WeekOf(x - e + 3, 5)) /\ 5 \in Int
      BY <1>4, <1>5, <2>1, <2>2, <2>3, SMTT(10)
    <3>3. Finds(x, z, e, 5, v)
      BY <1>1, <1>4, <3>2, WeekIsFound, Zenon
    <3> QED BY <3>1, <3>3 DEF Finds
  <2>4. CASE m = "day_of_week_in_month"
    <3>1. Current(d)[m] = (z - 1) \div 7 + 1
      BY <2>4 DEF Current
    <3> HIDE DEF z, x, cur
    <3>2. (z - 1) \div 7 = (x - 1) \div 7 + (v - cur)
      BY <1>1, <1>4, <1>6, <2>1, <2>2, SMTT(20)
    <3>3. (x - 1) \div 7 \in Int
      BY <1>4, SMTT(10)
    <3> QED BY <1>1, <1>5, <1>6, <2>4, <3>1, <3>2, <3>3, SMTT(10)
  <2> QED BY <2>3, <2>4
<1> QED BY <1>2, <1>3, <1>8, <1>9, Zenon DEF WeekDone

-----------------------------------------------------------------------------
(* What is set is read. *)

LEMMA SetIsGot ==
    ASSUME NEW c, Settled(c), NEW m \in Periods, NEW v, Valid(c, m, v), Possible(c, m, v)
    PROVE  Current(SetTo(c, m, v))[m] = v
<1> DEFINE d == SetTo(c, m, v)
<1>1. CASE m \in PlainMarks
  <2>1. PlainDone(c, m, v, d) /\ v \in Int
    BY <1>1, PlainIsDone
  <2>2. c.tm.hour \in 0 .. 23
    <3> HIDE DEF d
    <3> QED BY SettledRanges, SMTT(10)
  <2> HIDE DEF d
  <2>3. CASE m = "hour_12"
    <3>1. v \in 0 .. 11
      BY <1>1, <2>3, ValidPlain
    <3>2. d.tm.hour = (c.tm.hour \div 12) * 12 + v
      BY <2>1, <2>3 DEF PlainDone
    <3>3. c.tm.hour \div 12 \in 0 .. 1
      BY <2>2, TwelveHours
    <3>4. d.tm.hour % 12 = v
      BY <3>1, <3>2, <3>3, SMTT(10)
    <3> QED BY <2>3, <3>4 DEF Current, d
  <2>4. CASE m = "am_pm"
    <3>1. v \in 0 .. 1
      BY <1>1, <2>4, ValidPlain
    <3>2. d.tm.hour = 12 * v + (c.tm.hour % 12)
      BY <2>1, <2>4 DEF PlainDone
    <3>3. c.tm.hour % 12 \in 0 .. 11
      BY <2>2, TwelveHours
    <3> DEFINE r == c.tm.hour % 12
    <3> HIDE DEF r
    <3>4. r \in Int /\ 0 <= r /\ r <= 11 /\ d.tm.hour = 12 * v + r
      BY <3>2, <3>3 DEF r
    <3>5. d.tm.hour \div 12 = v
      BY <3>1, <3>4, SMTT(10)
    <3> QED BY <2>4, <3>5 DEF Current, d
  <2>5. CASE m \in {"year", "month", "day", "hour", "minute", "second"}
    <3>1. /\ m = "year" => d.tm.year = v
          /\ m = "month" => d.tm.mon = v
          /\ m = "day" => d.tm.mday = v
          /\ m = "hour" => d.tm.hour = v
          /\ m = "minute" => d.tm.min = v
          /\ m = "second" => d.tm.sec = v
      BY <2>1, Zenon DEF PlainDone
    <3> QED BY <2>5, <3>1 DEF Current, d
  <2> QED BY <1>1, <2>3, <2>4, <2>5 DEF PlainMarks, ClockPeriods
<1>2. CASE m = "day_of_year"
  <2>1. v \in 1 .. days_in_year(c.tm.year)
    BY <1>2, ValidRelative DEF RelativeMarks
  <2>2. d.tm.yday = v - 1
    BY <1>2, <2>1, YearDayIsDone DEF YearDayDone
  <2>3. v \in Int
    BY <2>1
  <2>4. Current(d)[m] = d.tm.yday + 1
    BY <1>2 DEF Current
  <2> HIDE DEF d
  <2> QED BY <2>2, <2>3, <2>4 DEF d
<1>3. CASE m \in {"day_of_week", "day_of_week_local"}
  <2>1. v \in 1 .. 7
    BY <1>3, ValidRelative DEF RelativeMarks
  <2>2. WeekdayDone(c, m, v, d)
    BY <1>3, <2>1, WeekdayIsDone
  <2> HIDE DEF d
  <2>3. CASE m = "day_of_week"
    <3>1. d.tm.wday = (v - 1) % 7
      BY <2>2, <2>3 DEF WeekdayDone
    <3>2. (v - 1) % 7 = v - 1
      BY <2>1, SMTT(10)
    <3>3. Current(d)[m] = d.tm.wday + 1
      BY <2>3 DEF Current
    <3> QED BY <2>1, <3>1, <3>2, <3>3 DEF d
  <2>4. CASE m = "day_of_week_local"
    <3>1. LocalDow(d) = v - 1
      BY <2>2, <2>4 DEF WeekdayDone, PlaceOf
    <3>2. Current(d)[m] = LocalDow(d) + 1
      BY <2>4 DEF Current
    <3> QED BY <2>1, <3>1, <3>2 DEF d
  <2> QED BY <1>3, <2>3, <2>4
<1>4. CASE m = "week_of_year"
  BY <1>4, WeekOfYearIsDone DEF WeekDone
<1>5. CASE m \in {"week_of_month", "day_of_week_in_month"}
  BY <1>5, WeekOfMonthIsDone DEF WeekDone
<1> QED BY <1>1, <1>2, <1>3, <1>4, <1>5 DEF Periods, PlainMarks, DayPeriods, WeekPeriods

LEMMA SettableIsValid ==
    ASSUME NEW m \in Periods, NEW v \in Settable(m)
    PROVE  Valid(walker, m, v)
  BY YearsAssumption DEF Settable, Valid

LEMMA ExistsIsPossible ==
    ASSUME NEW m \in Periods, NEW v
    PROVE  /\ Exists(m, v) <=> Possible(walker, m, v)
           /\ SetDone(m, v) = SetTo(walker, m, v)
  BY Zenon DEF Exists, Possible, SetDone, SetTo

LEMMA SetIsGotOnWalk ==
    ASSUME Settled(walker)
    PROVE  SetThenGet
<1> SUFFICES ASSUME NEW m \in Periods, NEW v \in Settable(m), Exists(m, v)
             PROVE  Current(SetDone(m, v))[m] = v
  BY DEF SetThenGet
<1>1. Valid(walker, m, v) /\ Possible(walker, m, v)
  BY SettableIsValid, ExistsIsPossible
<1>2. Current(SetTo(walker, m, v))[m] = v
  BY <1>1, SetIsGot
<1> QED BY <1>2, ExistsIsPossible

LEMMA WeekStartIs ==
    ASSUME NEW c
    PROVE  WeekStart(c) = DayOf(LocalTime(c)) - LocalDow(c)
  BY SMTT(20) DEF WeekStart, LocalTime, Shift, DayOf

LEMMA WeekdayStays ==
    ASSUME Settled(walker)
    PROVE  SettingWeekdayStaysInWeek
<1> DEFINE c == walker
<1> SUFFICES ASSUME NEW v \in -8 .. 7, NEW m \in {"day_of_week", "day_of_week_local"},
                    m = "day_of_week" \/ v \in 1 .. 7, NEW d, d = SetDone(m, v)
             PROVE  /\ WeekStart(d) = WeekStart(c)
                    /\ (d.time - c.time) % 86400 = 0
                    /\ m = "day_of_week" => (d.tm.wday + 1 - v) % 7 = 0
  BY SMTT(20) DEF SettingWeekdayStaysInWeek
<1> DEFINE n == DaysTo(c, m, v)
<1>1. WeekdayDone(c, m, v, d)
  <2>1. d = SetTo(c, m, v)
    BY DEF SetDone, SetTo
  <2>2. v \in Int
    OBVIOUS
  <2> QED BY <2>1, <2>2, WeekdayIsDone
<1>2. /\ DayOf(LocalTime(d)) = DayOf(LocalTime(c)) + n /\ n \in -6 .. 6 /\ d.time = c.time + 86400 * n
      /\ LocalDow(d) = LocalDow(c) + n /\ LocalDow(c) \in 0 .. 6
      /\ m = "day_of_week" => d.tm.wday = (v - 1) % 7
  BY <1>1 DEF WeekdayDone, DaysApart
<1> HIDE DEF n
<1>3. WeekStart(d) = WeekStart(c)
  <2>1. DayOf(LocalTime(c)) \in Int
    BY SettledDay, SMTT(10)
  <2>2. WeekStart(d) = DayOf(LocalTime(d)) - LocalDow(d) /\ WeekStart(c) = DayOf(LocalTime(c)) - LocalDow(c)
    BY WeekStartIs, Zenon
  <2> DEFINE p == DayOf(LocalTime(c))
             q == LocalDow(c)
  <2>3. p \in Int /\ q \in Int /\ n \in Int /\ WeekStart(c) = p - q /\ WeekStart(d) = p + n - (q + n)
    BY <1>2, <2>1, <2>2
  <2> HIDE DEF p, q
  <2> QED BY <2>3
<1>4. (d.time - c.time) % 86400 = 0
  <2>1. c.time \in Int
    BY DEF Settled, Shows, Calendar
  <2>2. d.time - c.time = 86400 * n /\ n \in Int
    BY <1>2, <2>1, SMTT(10)
  <2>3. (86400 * n) % 86400 = 0
    BY <1>2, SMTT(10)
  <2> QED BY <2>2, <2>3, SMTT(10)
<1>5. m = "day_of_week" => (d.tm.wday + 1 - v) % 7 = 0
  <2>1. v \in Int /\ (((v - 1) % 7) + 1 - v) % 7 = 0
    BY SMTT(10)
  <2> QED BY <1>2, <2>1
<1> QED BY <1>3, <1>4, <1>5

-----------------------------------------------------------------------------
(* Moving a settled calendar. *)

\* What shows another instant, k seconds later or earlier.
Displaced(c, d, k) ==
    /\ Shows(d) /\ d.normalized /\ d.fdow = c.fdow /\ Shift(d) = Shift(c) /\ d.tzoff = c.tzoff
    /\ LocalTime(d) \in Int /\ LocalTime(d) = LocalTime(c) + k /\ d.time = c.time + k
    /\ d.tm = gmtime(LocalTime(d)) /\ d.upd = d.tm

LEMMA PendingIsDisplaced ==
    ASSUME NEW c, Settled(c), NEW u \in Tm, NEW k \in Int, internal_timegm(u) = LocalTime(c) + k
    PROVE  Displaced(c, normalize(Pending(c, u)), k)
<1> DEFINE d == normalize(Pending(c, u))
<1>1. /\ Shows(d) /\ d.normalized /\ d.fdow = c.fdow /\ Shift(d) = Shift(c) /\ d.tzoff = c.tzoff
      /\ LocalTime(d) = internal_timegm(u) /\ internal_timegm(u) \in Int
      /\ d.tm = gmtime(LocalTime(d)) /\ d.upd = d.tm
      /\ d.time - c.time = LocalTime(d) - LocalTime(c)
  BY NormalizeReads DEF Settled
<1>2. c.time \in Int /\ d.time \in Int /\ LocalTime(c) \in Int
  BY <1>1, SettledDay, SMTT(10) DEF Settled, Shows, Calendar
<1> HIDE DEF d
<1>3. d.time = c.time + k
  BY <1>1, <1>2, SMTT(10)
<1> QED BY <1>1, <1>3 DEF Displaced, d

\* The clock enters internal_timegm linearly.
LEMMA TimegmReadsClock ==
    ASSUME NEW t \in Tm, NEW u \in Tm, u.year = t.year, u.mon = t.mon, u.mday = t.mday
    PROVE  internal_timegm(u) =
               internal_timegm(t) + 3600 * (u.hour - t.hour) + 60 * (u.min - t.min) + (u.sec - t.sec)
<1> DEFINE carry == IF t.mon > 11 THEN t.mon \div 12
                    ELSE IF t.mon < 0 THEN -((11 - t.mon) \div 12) ELSE 0
           year  == t.year + carry
           month == t.mon - 12 * carry + 1
           days  == days_from_0(year) - days_from_0(1970) + days_from_1jan(year, month, t.mday)
<1>1. /\ t.hour \in Int /\ t.min \in Int /\ t.sec \in Int /\ t.mon \in Int /\ t.year \in Int /\ t.mday \in Int
      /\ u.hour \in Int /\ u.min \in Int /\ u.sec \in Int
  BY DEF Tm
<1>2. days \in Int
  <2>1. carry \in Int /\ month \in 1 .. 12
    BY <1>1, MonthInRange
  <2> HIDE DEF carry, month
  <2>2. year \in Int
    BY <1>1, <2>1
  <2> HIDE DEF year
  <2>3. days_from_0(year) \in Int /\ days_from_0(1970) \in Int /\ days_from_1jan(year, month, t.mday) \in Int
    BY <1>1, <2>1, <2>2, DaysFrom0Int, DaysFrom1JanInt, SMTT(10)
  <2> QED BY <2>3
<1>3. internal_timegm(t) = 86400 * days + 3600 * t.hour + 60 * t.min + t.sec
  BY SMTT(10) DEF internal_timegm
<1>4. internal_timegm(u) = 86400 * days + 3600 * u.hour + 60 * u.min + u.sec
  BY SMTT(10) DEF internal_timegm
<1> HIDE DEF days
<1> QED BY <1>1, <1>2, <1>3, <1>4, SMTT(20)

\* The seconds that n of a period last, if it has one length.
EvenPeriods == Periods \ {"year", "month"}

Span(m, n) ==
    CASE m \in DayPeriods -> 86400 * n
      [] m \in WeekPeriods -> 604800 * n
      [] m \in {"hour", "hour_12"} -> 3600 * n
      [] m = "am_pm" -> 43200 * n
      [] m = "minute" -> 60 * n
      [] m = "second" -> n

LEMMA Spans ==
    ASSUME NEW m \in EvenPeriods, NEW n \in Int
    PROVE  /\ Span(m, n) \in Int /\ Span(m, -n) = -Span(m, n)
           /\ n >= 0 => Span(m, n) >= n /\ Span(m, n) <= 604800 * n
           /\ n <= 0 => Span(m, n) <= n /\ Span(m, n) >= 604800 * n
<1>1. /\ m \in DayPeriods => Span(m, n) = 86400 * n /\ Span(m, -n) = 86400 * (-n)
      /\ m \in WeekPeriods => Span(m, n) = 604800 * n /\ Span(m, -n) = 604800 * (-n)
      /\ m \in {"hour", "hour_12"} => Span(m, n) = 3600 * n /\ Span(m, -n) = 3600 * (-n)
      /\ m = "am_pm" => Span(m, n) = 43200 * n /\ Span(m, -n) = 43200 * (-n)
      /\ m = "minute" => Span(m, n) = 60 * n /\ Span(m, -n) = 60 * (-n)
      /\ m = "second" => Span(m, n) = n /\ Span(m, -n) = -n
  BY SMTT(20) DEF Span, DayPeriods, WeekPeriods
<1>2. CASE m \in DayPeriods
  BY <1>1, <1>2, SMTT(10)
<1>3. CASE m \in WeekPeriods
  BY <1>1, <1>3, SMTT(10)
<1>4. CASE m \in {"hour", "hour_12"}
  BY <1>1, <1>4, SMTT(10)
<1>5. CASE m = "am_pm"
  BY <1>1, <1>5, SMTT(10)
<1>6. CASE m = "minute"
  BY <1>1, <1>6, SMTT(10)
<1>7. CASE m = "second"
  BY <1>1, <1>7, SMTT(10)
<1> QED BY <1>2, <1>3, <1>4, <1>5, <1>6, <1>7, SMTT(10) DEF EvenPeriods, Periods, ClockPeriods

LEMMA MoveSpans ==
    ASSUME NEW c, Settled(c), NEW m \in EvenPeriods, NEW n \in Int
    PROVE  Displaced(c, Move(c, m, n), Span(m, n))
<1> DEFINE f == c.upd
           t == LocalTime(c)
<1>1. f \in Tm /\ internal_timegm(f) = t /\ t \in Int
  BY SettledFields, Zenon
<1> HIDE DEF f, t
<1>2. ASSUME NEW u \in Tm, MovePending(c, m, n) = Pending(c, u), internal_timegm(u) = t + Span(m, n)
      PROVE  Displaced(c, Move(c, m, n), Span(m, n))
  <2>1. Span(m, n) \in Int
    BY Spans, SMTT(10)
  <2> QED BY <1>2, <2>1, PendingIsDisplaced, Zenon DEF Move, t
<1>3. CASE m \in DayPeriods
  <2> DEFINE u == [f EXCEPT !.mday = @ + n]
  <2>1. u \in Tm
    BY <1>1 DEF Tm
  <2>2. MovePending(c, m, n) = Pending(c, u)
    BY <1>3 DEF MovePending, DayPeriods, WeekPeriods, f
  <2>3. internal_timegm(u) = t + 86400 * n
    BY <1>1, TimegmAddsDays
  <2>4. Span(m, n) = 86400 * n
    BY <1>3 DEF Span, DayPeriods, WeekPeriods
  <2> HIDE DEF u
  <2>5. internal_timegm(u) = t + Span(m, n)
    BY <2>3, <2>4, SMTT(10)
  <2> QED BY <1>2, <2>1, <2>2, <2>5
<1>4. CASE m \in WeekPeriods
  <2> DEFINE k == 7 * n
             u == [f EXCEPT !.mday = @ + k]
  <2>1. u \in Tm /\ k \in Int
    BY <1>1 DEF Tm
  <2>2. MovePending(c, m, n) = Pending(c, u)
    BY <1>4 DEF MovePending, DayPeriods, WeekPeriods, f
  <2>3. internal_timegm(u) = t + 86400 * k
    <3> HIDE DEF k
    <3> QED BY <1>1, <2>1, TimegmAddsDays
  <2>4. Span(m, n) = 604800 * n
    BY <1>4 DEF Span, DayPeriods, WeekPeriods
  <2> HIDE DEF u
  <2>5. internal_timegm(u) = t + Span(m, n)
    BY <2>3, <2>4, SMTT(10)
  <2> QED BY <1>2, <2>1, <2>2, <2>5
<1>5. CASE m \in {"hour", "hour_12"}
  <2> DEFINE u == [f EXCEPT !.hour = @ + n]
  <2>1. /\ u \in Tm /\ u.year = f.year /\ u.mon = f.mon /\ u.mday = f.mday
        /\ f.hour \in Int /\ f.min \in Int /\ f.sec \in Int
        /\ u.hour = f.hour + n /\ u.min = f.min /\ u.sec = f.sec
    BY <1>1 DEF Tm
  <2>2. MovePending(c, m, n) = Pending(c, u)
    BY <1>5 DEF MovePending, DayPeriods, WeekPeriods, f
  <2>3. internal_timegm(u) = t + 3600 * n
    <3> HIDE DEF u
    <3> QED BY <1>1, <2>1, TimegmReadsClock, SMTT(20)
  <2>4. Span(m, n) = 3600 * n
    BY <1>5 DEF Span, DayPeriods, WeekPeriods
  <2> HIDE DEF u
  <2>5. internal_timegm(u) = t + Span(m, n)
    BY <2>3, <2>4, SMTT(10)
  <2> QED BY <1>2, <2>1, <2>2, <2>5
<1>6. CASE m = "am_pm"
  <2> DEFINE k == 12 * n
             u == [f EXCEPT !.hour = @ + k]
  <2>1. /\ k \in Int /\ u \in Tm /\ u.year = f.year /\ u.mon = f.mon /\ u.mday = f.mday
        /\ f.hour \in Int /\ f.min \in Int /\ f.sec \in Int
        /\ u.hour = f.hour + k /\ u.min = f.min /\ u.sec = f.sec
    <3>1. k \in Int
      OBVIOUS
    <3> HIDE DEF k
    <3> QED BY <1>1, <3>1 DEF Tm
  <2>2. MovePending(c, m, n) = Pending(c, u)
    BY <1>6 DEF MovePending, DayPeriods, WeekPeriods, f
  <2>3. internal_timegm(u) = t + 3600 * k
    <3> HIDE DEF k, u
    <3> QED BY <1>1, <2>1, TimegmReadsClock, SMTT(20)
  <2>4. Span(m, n) = 43200 * n
    BY <1>6 DEF Span, DayPeriods, WeekPeriods
  <2> HIDE DEF u
  <2>5. internal_timegm(u) = t + Span(m, n)
    BY <2>3, <2>4, SMTT(10)
  <2> QED BY <1>2, <2>1, <2>2, <2>5
<1>7. CASE m = "minute"
  <2> DEFINE u == [f EXCEPT !.min = @ + n]
  <2>1. /\ u \in Tm /\ u.year = f.year /\ u.mon = f.mon /\ u.mday = f.mday
        /\ f.hour \in Int /\ f.min \in Int /\ f.sec \in Int
        /\ u.hour = f.hour /\ u.min = f.min + n /\ u.sec = f.sec
    BY <1>1 DEF Tm
  <2>2. MovePending(c, m, n) = Pending(c, u)
    BY <1>7 DEF MovePending, DayPeriods, WeekPeriods, f
  <2>3. internal_timegm(u) = t + 60 * n
    <3> HIDE DEF u
    <3> QED BY <1>1, <2>1, TimegmReadsClock, SMTT(20)
  <2>4. Span(m, n) = 60 * n
    BY <1>7 DEF Span, DayPeriods, WeekPeriods
  <2> HIDE DEF u
  <2>5. internal_timegm(u) = t + Span(m, n)
    BY <2>3, <2>4, SMTT(10)
  <2> QED BY <1>2, <2>1, <2>2, <2>5
<1>8. CASE m = "second"
  <2> DEFINE u == [f EXCEPT !.sec = @ + n]
  <2>1. /\ u \in Tm /\ u.year = f.year /\ u.mon = f.mon /\ u.mday = f.mday
        /\ f.hour \in Int /\ f.min \in Int /\ f.sec \in Int
        /\ u.hour = f.hour /\ u.min = f.min /\ u.sec = f.sec + n
    BY <1>1 DEF Tm
  <2>2. MovePending(c, m, n) = Pending(c, u)
    BY <1>8 DEF MovePending, DayPeriods, WeekPeriods, f
  <2>3. internal_timegm(u) = t + n
    <3> HIDE DEF u
    <3> QED BY <1>1, <2>1, TimegmReadsClock, SMTT(20)
  <2>4. Span(m, n) = n
    BY <1>8 DEF Span, DayPeriods, WeekPeriods
  <2> HIDE DEF u
  <2>5. internal_timegm(u) = t + Span(m, n)
    BY <2>3, <2>4, SMTT(10)
  <2> QED BY <1>2, <2>1, <2>2, <2>5
<1> QED BY <1>3, <1>4, <1>5, <1>6, <1>7, <1>8 DEF EvenPeriods, Periods, ClockPeriods

\* What lies no more than a year before or after each year's beginning stays since the year 1.
LEMMA StillSettled ==
    ASSUME NEW c, Settled(c), NEW n \in Int, c.tm.year + n >= 1, NEW k \in Int,
           n >= 0 => k >= 0, n <= 0 => k >= 604800 * n,
           NEW d, Displaced(c, d, k)
    PROVE  Settled(d)
<1> DEFINE t == LocalTime(c)
           s == LocalTime(d)
           y == c.tm.year
<1>1. /\ t \in Int /\ y \in Int /\ y >= 1 /\ DayOf(t) \in Int
      /\ DayOf(t) = days_from_0(y) - 719162 + c.tm.yday /\ c.tm.yday \in 0 .. 365
  <2>1. c.tm.yday \in 0 .. 365
    BY SettledRanges, SMTT(10)
  <2> QED BY <2>1, SettledDay, SMTT(10)
<1>2. s \in Int /\ s = t + k /\ d.tm = gmtime(s) /\ Shows(d) /\ d.normalized
  BY DEF Displaced
<1>3. days_from_0(y) >= 365 * (y - 1) /\ days_from_0(y) \in Int
  <2>1. days_from_0(1) = 0
    BY SMTT(10) DEF days_from_0, CDiv
  <2>2. days_from_0(y) >= days_from_0(1) + 365 * (y - 1)
    BY <1>1, YearsApart, SMTT(10)
  <2>3. days_from_0(y) \in Int
    BY <1>1, DaysFrom0Int
  <2> QED BY <1>1, <2>1, <2>2, <2>3, SMTT(10)
<1>4. DayOf(t) = t \div 86400 /\ DayOf(s) = s \div 86400
  BY DEF DayOf
<1> HIDE DEF t, s, y
<1>5. DayOf(t) >= 365 * (y - 1) - 719162
  <2> DEFINE x == c.tm.yday
             b == days_from_0(y)
  <2>1. x \in Int /\ x >= 0 /\ DayOf(t) = b - 719162 + x /\ b \in Int /\ b >= 365 * (y - 1)
    BY <1>1, <1>3
  <2> HIDE DEF x, b
  <2> QED BY <1>1, <2>1, SMTT(10)
<1>6. s >= 86400 * (-719162)
  <2>1. t >= 86400 * DayOf(t)
    BY <1>1, <1>4, SMTT(10)
  <2>2. CASE n >= 0
    BY <1>1, <1>2, <1>5, <2>1, <2>2, SMTT(10)
  <2>3. CASE n < 0
    <3>1. y - 1 >= -n
      BY <1>1, <2>3, SMTT(10) DEF y
    <3> QED BY <1>1, <1>2, <1>5, <2>1, <2>3, <3>1, SMTT(10)
  <2> QED BY <2>2, <2>3
<1>7. DayOf(s) >= -719162 /\ DayOf(s) \in Int
  BY <1>2, <1>4, <1>6, SMTT(10)
<1>8. YearOf(s) >= 1
  BY <1>2, <1>7, SinceYearOne, SMTT(10)
<1>9. d.tm.year = YearOf(s)
  BY <1>2, GmtimeIs
<1> QED BY <1>2, <1>8, <1>9 DEF Settled

\* Writing the fields of before leads back to the instant of before.
LEMMA WrittenBack ==
    ASSUME NEW c, Settled(c), NEW u \in Tm, NEW d, d = normalize(Pending(c, u)),
           NEW w \in Tm, internal_timegm(w) = internal_timegm(c.tm),
           NEW e, e = normalize(Pending(d, w))
    PROVE  e.time = c.time
<1>1. internal_timegm(c.tm) = LocalTime(c) /\ LocalTime(c) \in Int
  BY SettledFields, Zenon
<1>2. /\ Shows(d) /\ d.normalized /\ LocalTime(d) = internal_timegm(u) /\ internal_timegm(u) \in Int
      /\ d.time - c.time = LocalTime(d) - LocalTime(c)
  BY NormalizeReads DEF Settled
<1>3. LocalTime(e) = internal_timegm(w) /\ e.time - d.time = LocalTime(e) - LocalTime(d) /\ Shows(e)
  BY <1>2, NormalizeReads
<1>4. c.time \in Int /\ d.time \in Int /\ e.time \in Int
  BY <1>2, <1>3 DEF Settled, Shows, Calendar
<1> QED BY <1>1, <1>2, <1>3, <1>4, SMTT(10)

\* The same day of the month and the clock, some years or months later or earlier.
SameDay(c, d) ==
    /\ Settled(d) /\ d.fdow = c.fdow /\ d.upd = d.tm /\ d.tm.mday = c.tm.mday
    /\ d.tm.hour = c.tm.hour /\ d.tm.min = c.tm.min /\ d.tm.sec = c.tm.sec

YearMoved(c, n, d) == SameDay(c, d) /\ d.tm.year = c.tm.year + n /\ d.tm.mon = c.tm.mon

MonthMoved(c, n, d) == SameDay(c, d) /\ MonthNumber(d) = MonthNumber(c) + n

LEMMA DayInOtherYear ==
    ASSUME NEW y \in Int, NEW z \in Int, NEW mon \in 0 .. 11, NEW d \in 1 .. days_in_month(y, mon + 1),
           ~(mon = 1 /\ d = 29)
    PROVE  d \in 1 .. days_in_month(z, mon + 1)
<1>1. CASE mon = 1
  <2>1. MonthDays[2] = 28 /\ mon + 1 = 2
    BY <1>1 DEF MonthDays
  <2>2. days_in_month(y, mon + 1) = 28 + LeapDay(y) /\ days_in_month(z, mon + 1) = 28 + LeapDay(z)
    BY <1>1, <2>1 DEF days_in_month
  <2>3. LeapDay(y) \in 0 .. 1 /\ LeapDay(z) \in 0 .. 1
    BY LeapDayInt
  <2> QED BY <1>1, <2>2, <2>3, SMTT(10)
<1>2. CASE mon # 1
  <2>1. mon + 1 # 2
    BY <1>2
  <2>2. days_in_month(y, mon + 1) = days_in_month(z, mon + 1)
    BY <2>1 DEF days_in_month
  <2> QED BY <2>2
<1> QED BY <1>1, <1>2

LEMMA YearPending ==
    ASSUME NEW c, NEW n
    PROVE  Move(c, "year", n) = normalize(Pending(c, [c.upd EXCEPT !.year = @ + n]))
<1>1. MovePending(c, "year", n) = Pending(c, [c.upd EXCEPT !.year = @ + n])
  BY DEF MovePending, DayPeriods, WeekPeriods
<1> QED BY <1>1 DEF Move

LEMMA MonthPending ==
    ASSUME NEW c, NEW n
    PROVE  Move(c, "month", n) = normalize(Pending(c, [c.upd EXCEPT !.mon = @ + n]))
<1>1. MovePending(c, "month", n) = Pending(c, [c.upd EXCEPT !.mon = @ + n])
  BY DEF MovePending, DayPeriods, WeekPeriods
<1> QED BY <1>1 DEF Move

LEMMA YearMoves ==
    ASSUME NEW c, Settled(c), DayInEveryYear(c), NEW n \in Int, c.tm.year + n >= 1
    PROVE  YearMoved(c, n, Move(c, "year", n))
<1> DEFINE f == c.tm
           u == [f EXCEPT !.year = @ + n]
           d == Move(c, "year", n)
<1>1. IsDate(f.year, f.mon, f.mday) /\ IsClock(f.hour, f.min, f.sec) /\ f \in Tm /\ c.upd = f
  BY SettledIsDate
<1>2. d = normalize(Pending(c, u))
  BY <1>1, YearPending, Zenon
<1>3. /\ u \in Tm /\ u.year = f.year + n /\ u.mon = f.mon /\ u.mday = f.mday
      /\ u.hour = f.hour /\ u.min = f.min /\ u.sec = f.sec
  BY <1>1 DEF Tm
<1>4. ~(f.mon = 1 /\ f.mday = 29)
  BY DEF DayInEveryYear
<1> HIDE DEF u, f
<1>5. IsDate(u.year, u.mon, u.mday)
  <2>1. /\ f.year \in Int /\ f.mon \in 0 .. 11 /\ f.mday \in 1 .. days_in_month(f.year, f.mon + 1)
        /\ f.year + n \in Int /\ f.year + n >= 1
    BY <1>1 DEF IsDate, f
  <2>2. f.mday \in 1 .. days_in_month(f.year + n, f.mon + 1)
    BY <1>4, <2>1, DayInOtherYear
  <2> QED BY <1>3, <2>1, <2>2 DEF IsDate
<1>6. AreShown(c, u, normalize(Pending(c, u)))
  BY <1>1, <1>3, <1>5, SetFieldsAreShown
<1> HIDE DEF d
<1>7. AreShown(c, u, d)
  BY <1>2, <1>6
<1> QED BY <1>3, <1>7, Zenon DEF AreShown, YearMoved, SameDay, f, d

\* What a move by months writes: the same day number and clock, in the month that
\* many on, whether or not it has such a day.
CarriedInto(c, n, w) ==
    /\ w \in Tm /\ w.year \in Int /\ w.year >= 1 /\ w.mon \in 0 .. 11
    /\ 12 * w.year + w.mon = MonthNumber(c) + n
    /\ days_in_month(w.year, w.mon + 1) = DaysOf(MonthNumber(c) + n)
    /\ w.mday = c.tm.mday /\ w.mday \in 1 .. 31
    /\ w.hour = c.tm.hour /\ w.min = c.tm.min /\ w.sec = c.tm.sec /\ IsClock(w.hour, w.min, w.sec)

ShowsInstantOf(c, d, w) ==
    /\ Shows(d) /\ d.normalized /\ d.fdow = c.fdow /\ d.upd = d.tm
    /\ LocalTime(d) = internal_timegm(w) /\ internal_timegm(w) \in Int /\ d.tm = gmtime(LocalTime(d))

LEMMA MonthIsWritten ==
    ASSUME NEW c, Settled(c), NEW n \in Int, MonthNumber(c) + n >= 12
    PROVE  \E w : CarriedInto(c, n, w) /\ ShowsInstantOf(c, Move(c, "month", n), w)
<1> DEFINE f == c.tm
           u == [f EXCEPT !.mon = @ + n]
           months == MonthNumber(c) + n
           w == [u EXCEPT !.year = months \div 12, !.mon = months % 12]
           d == Move(c, "month", n)
<1>1. IsClock(f.hour, f.min, f.sec) /\ f \in Tm /\ c.upd = f
  BY SettledIsDate
<1>2. d = normalize(Pending(c, u))
  BY <1>1, MonthPending, Zenon
<1>3. /\ u \in Tm /\ u.year = f.year /\ u.mon = f.mon + n /\ u.mday = f.mday
      /\ u.hour = f.hour /\ u.min = f.min /\ u.sec = f.sec /\ f.year \in Int /\ f.mon \in Int
      /\ f.mday \in Int
  <2> HIDE DEF months
  <2> QED BY <1>1 DEF Tm
<1>4. f.mday \in 1 .. 31
  <2> HIDE DEF d
  <2> QED BY SettledRanges, SMTT(10) DEF f
<1>5. months \in Int /\ months >= 12 /\ months = 12 * u.year + u.mon
  <2> HIDE DEF u
  <2> QED BY <1>3, SMTT(10) DEF MonthNumber
<1> HIDE DEF u, months
<1>6. /\ w \in Tm /\ w.year = months \div 12 /\ w.mon = months % 12 /\ w.mday = f.mday
      /\ w.hour = f.hour /\ w.min = f.min /\ w.sec = f.sec
  <2> DEFINE q == months \div 12
             r == months % 12
  <2>1. q \in Int /\ r \in Int
    BY <1>5, SMTT(10)
  <2> HIDE DEF q, r
  <2>2. w = [u EXCEPT !.year = q, !.mon = r]
    BY DEF q, r
  <2>3. /\ w \in Tm /\ w.year = q /\ w.mon = r /\ w.mday = f.mday
        /\ w.hour = f.hour /\ w.min = f.min /\ w.sec = f.sec
    <3> HIDE DEF w
    <3> QED BY <1>3, <2>1, <2>2 DEF Tm
  <2> QED BY <2>3 DEF q, r
<1>7. internal_timegm(u) = internal_timegm(w)
  BY <1>3, <1>5, TimegmCarries
<1> HIDE DEF w, f
<1>8. w.year \in Int /\ w.year >= 1 /\ w.mon \in 0 .. 11 /\ 12 * w.year + w.mon = months
  BY <1>5, <1>6, SMTT(10)
<1>9. days_in_month(w.year, w.mon + 1) = DaysOf(months)
  BY <1>6, Zenon DEF DaysOf
<1>10. CarriedInto(c, n, w)
  BY <1>1, <1>4, <1>6, <1>8, <1>9, Zenon DEF CarriedInto, months, f
<1>11. ShowsInstantOf(c, d, w)
  BY <1>2, <1>3, <1>7, NormalizeReads, ZenonT(40) DEF ShowsInstantOf, Settled
<1> HIDE DEF d
<1> QED BY <1>10, <1>11, Zenon DEF d

LEMMA MonthMoves ==
    ASSUME NEW c, Settled(c), NEW n \in Int, MonthNumber(c) + n >= 12,
           c.tm.mday <= DaysOf(MonthNumber(c) + n)
    PROVE  MonthMoved(c, n, Move(c, "month", n))
<1> DEFINE d == Move(c, "month", n)
<1>1. PICK w : CarriedInto(c, n, w) /\ ShowsInstantOf(c, d, w)
  BY MonthIsWritten
<1> HIDE DEF d
<1>2. IsDate(w.year, w.mon, w.mday) /\ IsClock(w.hour, w.min, w.sec) /\ w \in Tm
  <2>1. /\ w.year \in Int /\ w.year >= 1 /\ w.mon \in 0 .. 11 /\ w.mday \in 1 .. 31
        /\ w.mday <= days_in_month(w.year, w.mon + 1)
    BY <1>1 DEF CarriedInto
  <2>2. days_in_month(w.year, w.mon + 1) \in 28 .. 31
    BY <2>1, MonthsInOrder
  <2>3. w.mday \in 1 .. days_in_month(w.year, w.mon + 1)
    BY <2>1, <2>2, SMTT(10)
  <2> QED BY <1>1, <2>1, <2>3 DEF IsDate, CarriedInto
<1>3. d.tm = gmtime(internal_timegm(w))
  BY <1>1 DEF ShowsInstantOf
<1>4. /\ d.tm.year = w.year /\ d.tm.mon = w.mon /\ d.tm.mday = w.mday
      /\ d.tm.hour = w.hour /\ d.tm.min = w.min /\ d.tm.sec = w.sec
  BY <1>2, <1>3, GmtimeInvertsTimegm, Zenon
<1>5. Settled(d) /\ d.fdow = c.fdow /\ d.upd = d.tm
  BY <1>1, <1>4 DEF Settled, ShowsInstantOf, CarriedInto
<1>6. SameDay(c, d)
  BY <1>1, <1>4, <1>5 DEF SameDay, CarriedInto
<1>7. MonthNumber(d) = MonthNumber(c) + n
  <2>1. 12 * w.year + w.mon = MonthNumber(c) + n
    BY <1>1 DEF CarriedInto
  <2>2. MonthNumber(d) = 12 * w.year + w.mon
    BY <1>4 DEF MonthNumber
  <2> QED BY <2>1, <2>2, Zenon
<1> QED BY <1>6, <1>7 DEF MonthMoved, d

LEMMA DaysOfInt ==
    ASSUME NEW months \in Int
    PROVE  DaysOf(months) \in 28 .. 31
<1> DEFINE y == months \div 12
           a == months % 12
<1>1. a \in 0 .. 11
  BY SMTT(10)
<1>2. DaysOf(months) = days_in_month(y, a + 1)
  BY DEF DaysOf
<1> HIDE DEF y, a
<1> QED BY <1>1, <1>2, MonthsInOrder

LEMMA DayIsInMonth ==
    ASSUME NEW c, Settled(c), DayInEveryMonth(c), NEW months \in Int
    PROVE  c.tm.mday <= DaysOf(months)
<1>1. DaysOf(months) \in 28 .. 31
  BY DaysOfInt
<1>2. c.tm.mday \in 1 .. 31
  BY SettledRanges, SMTT(10)
<1> QED BY <1>1, <1>2, SMTT(10) DEF DayInEveryMonth

\* A move that is taken back.
LEMMA MovesBack ==
    ASSUME NEW c, Settled(c), NEW m \in Periods, EasyToMove(c, m), NEW n \in Int, c.tm.year + n >= 1
    PROVE  Move(Move(c, m, n), m, -n).time = c.time
<1> DEFINE d == Move(c, m, n)
           e == Move(d, m, -n)
<1>1. CASE m = "year"
  <2> DEFINE f == c.tm
             u == [f EXCEPT !.year = @ + n]
             w == [d.tm EXCEPT !.year = @ + (-n)]
  <2>1. YearMoved(c, n, d)
    BY <1>1, YearMoves DEF EasyToMove
  <2>2. f \in Tm /\ c.upd = f /\ d.tm \in Tm /\ d.upd = d.tm
    <3>1. c.upd \in Tm /\ c.upd = c.tm
      BY SettledIsDate
    <3>2. Settled(d) /\ d.upd = d.tm
      BY <2>1 DEF YearMoved, SameDay
    <3>3. d.tm \in Tm
      BY <3>2, SettledFields, Zenon
    <3> QED BY <3>1, <3>2, <3>3
  <2>3. d = normalize(Pending(c, u)) /\ u \in Tm
    <3>1. d = normalize(Pending(c, u))
      BY <1>1, <2>2, YearPending, Zenon
    <3>2. u \in Tm
      BY <2>2 DEF Tm
    <3> QED BY <3>1, <3>2
  <2> HIDE DEF u, d
  <2>4. e = normalize(Pending(d, w))
    BY <1>1, <2>2, YearPending, Zenon
  <2>5. /\ w \in Tm /\ w.year = d.tm.year + (-n) /\ w.mon = d.tm.mon /\ w.mday = d.tm.mday
        /\ w.hour = d.tm.hour /\ w.min = d.tm.min /\ w.sec = d.tm.sec /\ f.year \in Int
    BY <2>2 DEF Tm
  <2> HIDE DEF w, e
  <2>6. /\ d.tm.year = f.year + n /\ d.tm.mon = f.mon /\ d.tm.mday = f.mday
        /\ d.tm.hour = f.hour /\ d.tm.min = f.min /\ d.tm.sec = f.sec
    BY <2>1 DEF YearMoved, SameDay
  <2> HIDE DEF f
  <2>7. w.year = f.year
    BY <2>5, <2>6, SMTT(10)
  <2>8. internal_timegm(w) = internal_timegm(f)
    BY <2>2, <2>5, <2>6, <2>7, SixFields
  <2> QED BY <2>3, <2>4, <2>5, <2>8, WrittenBack DEF f, d, e
<1>2. CASE m = "month"
  <2> DEFINE f == c.tm
             u == [f EXCEPT !.mon = @ + n]
             w == [d.tm EXCEPT !.mon = @ + (-n)]
             x == [w EXCEPT !.year = f.year, !.mon = f.mon]
  <2>1. f \in Tm /\ c.upd = f /\ f.year \in Int /\ f.mon \in 0 .. 11 /\ f.year >= 1
    <3>1. c.upd \in Tm /\ c.upd = c.tm
      BY SettledIsDate
    <3>2. c.tm.mon \in 0 .. 11
      <4> HIDE DEF d, e, u, w, x
      <4> QED BY SettledRanges, SMTT(10)
    <3> QED BY <3>1, <3>2 DEF Tm, Settled
  <2>2. MonthMoved(c, n, d)
    <3>1. MonthNumber(c) + n \in Int /\ MonthNumber(c) + n >= 12
      <4> HIDE DEF d, e, u, w, x
      <4> QED BY <2>1, SMTT(10) DEF MonthNumber
    <3>2. c.tm.mday <= DaysOf(MonthNumber(c) + n)
      BY <1>2, <3>1, DayIsInMonth DEF EasyToMove
    <3> QED BY <1>2, <3>1, <3>2, MonthMoves
  <2>3. d.tm \in Tm /\ d.upd = d.tm
    <3>1. Settled(d) /\ d.upd = d.tm
      BY <2>2 DEF MonthMoved, SameDay
    <3> QED BY <3>1, SettledFields, Zenon
  <2>4. d = normalize(Pending(c, u)) /\ u \in Tm
    <3>1. d = normalize(Pending(c, u))
      BY <1>2, <2>1, MonthPending, Zenon
    <3>2. u \in Tm
      BY <2>1 DEF Tm
    <3> QED BY <3>1, <3>2
  <2> HIDE DEF u, d
  <2>5. e = normalize(Pending(d, w))
    BY <1>2, <2>3, MonthPending, Zenon
  <2>6. /\ w \in Tm /\ w.year = d.tm.year /\ w.mon = d.tm.mon + (-n) /\ w.mday = d.tm.mday
        /\ w.hour = d.tm.hour /\ w.min = d.tm.min /\ w.sec = d.tm.sec
        /\ d.tm.year \in Int /\ d.tm.mon \in Int
    BY <2>3 DEF Tm
  <2>7. /\ 12 * d.tm.year + d.tm.mon = 12 * f.year + f.mon + n /\ d.tm.mday = f.mday
        /\ d.tm.hour = f.hour /\ d.tm.min = f.min /\ d.tm.sec = f.sec
    BY <2>2 DEF MonthMoved, SameDay, MonthNumber
  <2> HIDE DEF w, e, f
  <2>8. internal_timegm(w) = internal_timegm(x)
    <3> DEFINE months == 12 * w.year + w.mon
    <3>1. months = 12 * f.year + f.mon /\ months \in Int
      BY <2>1, <2>6, <2>7, SMTT(10)
    <3> HIDE DEF months
    <3>2. f.year = months \div 12 /\ f.mon = months % 12
      BY <2>1, <3>1, SMTT(10)
    <3>3. internal_timegm(w) = internal_timegm([w EXCEPT !.year = months \div 12, !.mon = months % 12])
      BY <2>6, TimegmCarries DEF months
    <3> QED BY <3>2, <3>3, Zenon
  <2>9. /\ x \in Tm /\ x.year = f.year /\ x.mon = f.mon /\ x.mday = f.mday
        /\ x.hour = f.hour /\ x.min = f.min /\ x.sec = f.sec
    <3>1. f.mon \in Int
      BY <2>1
    <3>2. x \in Tm /\ x.year = f.year /\ x.mon = f.mon
      BY <2>1, <2>6, <3>1 DEF Tm
    <3>3. x.mday = w.mday /\ x.hour = w.hour /\ x.min = w.min /\ x.sec = w.sec
      BY <2>6 DEF Tm
    <3> QED BY <2>6, <2>7, <3>2, <3>3, Zenon
  <2> HIDE DEF x
  <2>10. internal_timegm(x) = internal_timegm(f)
    BY <2>1, <2>9, SixFields
  <2> QED BY <2>4, <2>5, <2>6, <2>8, <2>10, WrittenBack DEF f, d, e
<1>3. CASE m \in EvenPeriods
  <2> DEFINE k == Span(m, n)
  <2>1. Displaced(c, d, k)
    BY <1>3, MoveSpans
  <2>2. k \in Int /\ Span(m, -n) = -k /\ (n >= 0 => k >= 0) /\ (n <= 0 => k >= 604800 * n)
    <3>1. /\ Span(m, n) \in Int /\ Span(m, -n) = -Span(m, n)
          /\ n >= 0 => Span(m, n) >= n
          /\ n <= 0 => Span(m, n) >= 604800 * n
      BY <1>3, Spans
    <3> HIDE DEF d, e
    <3> QED BY <3>1, SMTT(10)
  <2> HIDE DEF d, k
  <2>3. Settled(d)
    BY <2>1, <2>2, StillSettled, SMTT(20)
  <2>4. Displaced(d, e, -k)
    <3>1. -n \in Int
      OBVIOUS
    <3>2. Displaced(d, e, Span(m, -n))
      BY <1>3, <2>3, <3>1, MoveSpans
    <3> QED BY <2>2, <3>2
  <2>5. d.time = c.time + k /\ e.time = d.time + (-k) /\ c.time \in Int
    BY <2>1, <2>4 DEF Displaced, Settled, Shows, Calendar
  <2> HIDE DEF e
  <2>6. e.time = c.time
    BY <2>2, <2>5, SMTT(10)
  <2> QED BY <2>6 DEF d, e
<1> QED BY <1>1, <1>2, <1>3 DEF EvenPeriods

-----------------------------------------------------------------------------
(* Measuring. *)

\* Months counted from the beginning of the year 0.
MonthCount(t) == 12 * YearOf(t) + MonthOf(t)

LEMMA LaterDay ==
    ASSUME NEW t \in Int, NEW s \in Int, t <= s, YearOf(t) >= 1
    PROVE  DayOf(t) \in Int /\ DayOf(s) \in Int /\ DayOf(t) <= DayOf(s) /\ YearOf(s) >= 1
<1>1. DayOf(t) \in Int /\ DayOf(s) \in Int /\ DayOf(t) <= DayOf(s)
  BY SMTT(10) DEF DayOf
<1>2. DayOf(t) >= -719162
  BY SinceYearOne, SMTT(10)
<1> QED BY <1>1, <1>2, SinceYearOne, SMTT(10)

\* A later instant is in no earlier year.
LEMMA LaterYear ==
    ASSUME NEW t \in Int, NEW s \in Int, t <= s, YearOf(t) >= 1
    PROVE  YearOf(s) >= YearOf(t)
<1>1. /\ YearOf(t) \in Int /\ YearOf(s) \in Int /\ YearOf(s) >= 1
      /\ DayOf(t) \in Int /\ DayOf(s) \in Int /\ DayOf(t) <= DayOf(s)
  BY LaterDay, PartsRange, ZenonT(40)
<1> SUFFICES ASSUME YearOf(s) < YearOf(t) PROVE FALSE
  BY <1>1, SMTT(10)
<1> DEFINE a == YearDayOf(t)
           b == YearDayOf(s)
           from == days_from_0(YearOf(t))
           to == days_from_0(YearOf(s))
           n == days_in_year(YearOf(s))
<1>2. from >= to + n
  BY <1>1, YearsInOrder, SMTT(10)
<1>3. b < n /\ n \in Int
  <2>1. b \in 0 .. n - 1
    BY <1>1, YearDayIsCounted, SMTT(10)
  <2>2. n \in Int
    BY LeapDayInt, SMTT(10) DEF days_in_year
  <2> HIDE DEF b, n
  <2> QED BY <2>1, <2>2, SMTT(10)
<1>4. a \in Int /\ a >= 0
  <2>1. a \in 0 .. 365
    BY PartsRange, Zenon
  <2> HIDE DEF a
  <2> QED BY <2>1, SMTT(10)
<1>5. b \in Int
  <2>1. b \in 0 .. 365
    BY PartsRange, Zenon
  <2> HIDE DEF b
  <2> QED BY <2>1, SMTT(10)
<1>6. DayOf(t) = from - 719162 + a /\ DayOf(s) = to - 719162 + b /\ from \in Int /\ to \in Int
  BY <1>1, YearDayIsCounted, DaysFrom0Int, SMTT(10)
<1> HIDE DEF a, b, from, to, n
<1> QED BY <1>1, <1>2, <1>3, <1>4, <1>5, <1>6, SMTT(10)

\* A later instant is in no earlier month.
LEMMA LaterMonth ==
    ASSUME NEW t \in Int, NEW s \in Int, t <= s, YearOf(t) >= 1
    PROVE  MonthCount(s) >= MonthCount(t)
<1> DEFINE y == YearOf(t)
           z == YearOf(s)
           a == MonthOf(t)
           b == MonthOf(s)
           d == MonthDayOf(t)
           e == MonthDayOf(s)
<1>1. /\ y \in Int /\ y >= 1 /\ z \in Int /\ z >= 1 /\ a \in 0 .. 11 /\ b \in 0 .. 11
      /\ DayOf(t) \in Int /\ DayOf(s) \in Int /\ DayOf(t) <= DayOf(s)
  <2>1. /\ YearOf(t) \in Int /\ YearOf(s) \in Int /\ MonthOf(t) \in 0 .. 11 /\ MonthOf(s) \in 0 .. 11
    BY PartsRange
  <2>2. YearOf(s) >= 1 /\ DayOf(t) \in Int /\ DayOf(s) \in Int /\ DayOf(t) <= DayOf(s)
    BY LaterDay
  <2> QED BY <2>1, <2>2
<1>2. z >= y
  BY LaterYear
<1>3. IsDate(y, a, d) /\ IsDate(z, b, e)
  BY <1>1, GmtimeIsDate
<1>4. /\ DayOf(t) = days_from_0(y) - 719162 + days_from_1jan(y, a + 1, d)
      /\ DayOf(s) = days_from_0(z) - 719162 + days_from_1jan(z, b + 1, e)
      /\ days_from_0(y) \in Int /\ days_from_0(z) \in Int
  BY <1>1, DayIsCounted, DaysFrom0Int, SMTT(10)
<1> HIDE DEF y, z, a, b, d, e
<1>5. CASE z = y /\ b < a
  <2> DEFINE f == MonthFrom(y, a)
             g == MonthFrom(y, b)
             n == days_in_month(y, b + 1)
             from == days_from_0(y)
  <2>1. /\ days_from_1jan(y, a + 1, d) = f + d - 1
        /\ days_from_1jan(y, b + 1, e) = g + e - 1
    BY <1>3, <1>5, DateIsDayOfYear
  <2>2. f \in Nat /\ g \in Nat /\ n \in 28 .. 31 /\ g + n <= f
    BY <1>1, <1>5, MonthsInOrder
  <2>3. d >= 1 /\ e <= n /\ d \in Int /\ e \in Int
    <3>1. d \in 1 .. days_in_month(y, a + 1) /\ e \in 1 .. n
      BY <1>3, <1>5 DEF IsDate
    <3> HIDE DEF n
    <3> QED BY <3>1, SMTT(10)
  <2>4. /\ DayOf(t) = from - 719162 + (f + d - 1)
        /\ DayOf(s) = from - 719162 + (g + e - 1) /\ from \in Int
    BY <1>4, <1>5, <2>1, SMTT(10)
  <2> HIDE DEF f, g, n, from
  <2> QED BY <1>1, <2>2, <2>3, <2>4, SMTT(10)
<1>6. CASE z > y
  <2> DEFINE p == 12 * y + a
             q == 12 * z + b
  <2>1. q >= p
    BY <1>1, <1>6, SMTT(10)
  <2> QED BY <2>1 DEF MonthCount, y, z, a, b
<1>7. CASE z = y /\ b >= a
  <2> DEFINE p == 12 * y + a
             q == 12 * z + b
  <2>1. q >= p
    BY <1>1, <1>7, SMTT(10)
  <2> QED BY <2>1 DEF MonthCount, y, z, a, b
<1> QED BY <1>1, <1>2, <1>5, <1>6, <1>7, SMTT(10)

\* The years and months that calendars show keep the order of their instants.
LEMMA ShownInOrder ==
    ASSUME NEW c, Settled(c), NEW d, Settled(d), d.tzoff = c.tzoff, Shift(d) = Shift(c)
    PROVE  /\ c.tm.year > d.tm.year => c.time > d.time
           /\ MonthNumber(c) > MonthNumber(d) => c.time > d.time
<1> DEFINE t == LocalTime(c)
           s == LocalTime(d)
<1>1. /\ t \in Int /\ c.tm.year = YearOf(t) /\ c.tm.mon = MonthOf(t) /\ YearOf(t) >= 1
      /\ s \in Int /\ d.tm.year = YearOf(s) /\ d.tm.mon = MonthOf(s) /\ YearOf(s) >= 1
  BY SettledDay
<1>2. t - s = c.time - d.time /\ c.time \in Int /\ d.time \in Int
  <2>1. /\ c.time \in Int /\ d.time \in Int /\ c.tzoff \in Int /\ c \in Calendar
    BY DEF Settled, Shows, Calendar
  <2>2. Shift(c) \in Int
    BY <2>1, FieldsAndPoint
  <2>3. t = c.time + c.tzoff + Shift(c) /\ s = d.time + c.tzoff + Shift(c)
    BY DEF LocalTime
  <2> HIDE DEF t, s
  <2> QED BY <2>1, <2>2, <2>3, SMTT(10)
<1> HIDE DEF t, s
<1>3. YearOf(t) \in Int /\ YearOf(s) \in Int /\ MonthCount(t) \in Int /\ MonthCount(s) \in Int
  <2>1. YearOf(t) \in Int /\ YearOf(s) \in Int /\ MonthOf(t) \in 0 .. 11 /\ MonthOf(s) \in 0 .. 11
    BY <1>1, PartsRange
  <2> QED BY <2>1, SMTT(10) DEF MonthCount
<1>4. CASE t <= s
  <2>1. YearOf(s) >= YearOf(t) /\ MonthCount(s) >= MonthCount(t)
    BY <1>1, <1>4, LaterYear, LaterMonth
  <2>2. ~(YearOf(t) > YearOf(s)) /\ ~(MonthCount(t) > MonthCount(s))
    BY <1>3, <2>1, SMTT(10)
  <2> QED BY <1>1, <2>2 DEF MonthCount, MonthNumber
<1>5. CASE t > s
  BY <1>1, <1>2, <1>5, SMTT(10)
<1> QED BY <1>1, <1>4, <1>5, SMTT(10)

\* How many periods of the length k fit into a distance of s.
Fit(k, s, n) ==
    /\ n >= 0 => (k * n <= s \/ n = 0) /\ k * (n + 1) > s
    /\ n <= 0 => (k * n >= s \/ n = 0) /\ k * (n - 1) < s

LEMMA SecondsFit ==
    ASSUME NEW s \in Int, NEW k \in {1, 60, 3600, 43200}
    PROVE  CDiv(s, k) \in Int /\ Fit(k, s, CDiv(s, k))
<1>1. CASE s >= 0
  <2> DEFINE n == s \div k
  <2>1. n \in Int /\ n >= 0 /\ k * n <= s /\ k * (n + 1) > s /\ (n = 0 => k * (n - 1) < s)
    BY <1>1, SMTT(20)
  <2>2. CDiv(s, k) = n
    BY <1>1, SMTT(10) DEF CDiv
  <2> HIDE DEF n
  <2> QED BY <2>1, <2>2, SMTT(20) DEF Fit
<1>2. CASE s < 0
  <2> DEFINE q == (-s) \div k
             n == -q
  <2>1. q \in Int /\ q >= 0 /\ k * q <= -s /\ k * (q + 1) > -s
    BY <1>2, SMTT(20)
  <2>2. CDiv(s, k) = n
    BY <1>2, SMTT(10) DEF CDiv
  <2> HIDE DEF q
  <2>3. n \in Int /\ n <= 0 /\ k * n >= s /\ k * (n - 1) < s /\ (n = 0 => k * (n + 1) > s)
    BY <1>2, <2>1, SMTT(20)
  <2> HIDE DEF n
  <2> QED BY <2>2, <2>3, SMTT(20) DEF Fit
<1> QED BY <1>1, <1>2, SMTT(10)

\* Whole weeks are counted by whole days.
LEMMA WeeksFit ==
    ASSUME NEW s \in Int, NEW g \in Int, Fit(86400, s, g)
    PROVE  CDiv(g, 7) \in Int /\ Fit(604800, s, CDiv(g, 7))
<1>1. CASE g >= 0
  <2> DEFINE n == g \div 7
  <2>1. n \in Int /\ n >= 0 /\ 7 * n <= g /\ 7 * (n + 1) >= g + 1
    BY <1>1, SMTT(20)
  <2>2. CDiv(g, 7) = n
    BY <1>1, SMTT(10) DEF CDiv
  <2>3. /\ 86400 * g <= s \/ g = 0
        /\ 86400 * (g + 1) > s
        /\ g = 0 => 86400 * (g - 1) < s
    BY <1>1, SMTT(10) DEF Fit
  <2> HIDE DEF n
  <2>4. n = 0 \/ 604800 * n <= s
    BY <1>1, <2>1, <2>3, SMTT(20)
  <2>5. 604800 * (n + 1) > s
    BY <1>1, <2>1, <2>3, SMTT(20)
  <2>6. n = 0 => 604800 * (n - 1) < s
    BY <1>1, <2>1, <2>3, SMTT(20)
  <2> QED BY <2>1, <2>2, <2>4, <2>5, <2>6, SMTT(20) DEF Fit
<1>2. CASE g < 0
  <2> DEFINE q == (-g) \div 7
             n == -q
  <2>1. q \in Int /\ q >= 0 /\ 7 * q <= -g /\ 7 * (q + 1) >= 1 - g
    BY <1>2, SMTT(20)
  <2>2. CDiv(g, 7) = n
    BY <1>2, SMTT(10) DEF CDiv
  <2>3. 86400 * g >= s /\ 86400 * (g - 1) < s
    BY <1>2, SMTT(10) DEF Fit
  <2> HIDE DEF q
  <2>4. n \in Int /\ n <= 0 /\ 7 * n >= g /\ 7 * (n - 1) <= g - 1
    BY <2>1, SMTT(10)
  <2> HIDE DEF n
  <2>5. 604800 * n >= s
    BY <1>2, <2>3, <2>4, SMTT(20)
  <2>6. 604800 * (n - 1) < s
    BY <1>2, <2>3, <2>4, SMTT(20)
  <2>7. n = 0 => 604800 * (n + 1) > s
    BY <1>2, <2>3, <2>4, SMTT(20)
  <2> QED BY <2>2, <2>4, <2>5, <2>6, <2>7, SMTT(20) DEF Fit
<1> QED BY <1>1, <1>2, SMTT(10)

\* The length of an even period.
Length(m) ==
    CASE m \in DayPeriods -> 86400
      [] m \in WeekPeriods -> 604800
      [] m \in {"hour", "hour_12"} -> 3600
      [] m = "am_pm" -> 43200
      [] m = "minute" -> 60
      [] m = "second" -> 1

LEMMA SpanIsLength ==
    ASSUME NEW m \in EvenPeriods, NEW n \in Int
    PROVE  Length(m) \in Nat /\ Span(m, n) = Length(m) * n
  BY SMTT(20) DEF Length, Span, EvenPeriods, Periods, DayPeriods, WeekPeriods, ClockPeriods

LEMMA FitsIsFit ==
    ASSUME NEW c, Settled(c), NEW m \in EvenPeriods, NEW s \in Int, NEW n \in Int,
           NEW other, other.time = c.time + s
    PROVE  Fits(c, other, m, n) <=> Fit(Length(m), s, n)
<1>1. c.time \in Int
  BY DEF Settled, Shows, Calendar
<1>2. ASSUME NEW j \in Int
      PROVE  Move(c, m, j).time = c.time + Length(m) * j
  <2>1. Displaced(c, Move(c, m, j), Span(m, j))
    BY MoveSpans
  <2>2. Span(m, j) = Length(m) * j
    BY SpanIsLength
  <2> QED BY <2>1, <2>2 DEF Displaced
<1> DEFINE t == c.time
           k == Length(m)
           a == Move(c, m, n).time
           b == Move(c, m, n + 1).time
           d == Move(c, m, n - 1).time
<1>3. a = t + k * n /\ b = t + k * (n + 1) /\ d = t + k * (n - 1)
  <2>1. n + 1 \in Int /\ n - 1 \in Int
    BY SMTT(10)
  <2> HIDE DEF t, k
  <2> QED BY <1>2, <2>1 DEF t, k
<1>4. k \in Nat
  BY SpanIsLength
<1>5. other.time = t + s /\ t \in Int
  BY <1>1
<1> HIDE DEF t, k
<1>6. k * n \in Int /\ k * (n + 1) \in Int /\ k * (n - 1) \in Int
  BY <1>4, SMTT(10)
<1>7. Fit(k, s, n) <=>
          /\ n >= 0 => (a <= other.time \/ n = 0) /\ b > other.time
          /\ n <= 0 => (a >= other.time \/ n = 0) /\ d < other.time
  <2> DEFINE x == k * n
             y == k * (n + 1)
             z == k * (n - 1)
  <2>1. x \in Int /\ y \in Int /\ z \in Int /\ a = t + x /\ b = t + y /\ d = t + z
    BY <1>3, <1>6
  <2>2. Fit(k, s, n) <=> /\ n >= 0 => (x <= s \/ n = 0) /\ y > s
                         /\ n <= 0 => (x >= s \/ n = 0) /\ z < s
    BY Zenon DEF Fit
  <2> HIDE DEF x, y, z, a, b, d
  <2>3. /\ a <= other.time <=> x <= s
        /\ a >= other.time <=> x >= s
        /\ b > other.time <=> y > s
        /\ d < other.time <=> z < s
    BY <1>5, <2>1, SMTT(10)
  <2> QED BY <2>2, <2>3, Zenon
<1>8. ~Overrun(c, other, m, n - 1) /\ ~Overrun(c, other, m, n)
  <2>1. m # "month"
    BY DEF EvenPeriods
  <2> QED BY <2>1, Zenon DEF Overrun
<1> QED BY <1>7, <1>8, Zenon DEF Fits, a, b, d, k

\* The first guess of get_diff: a period more passes the other end, a period less
\* stays before it or ends in a month that is too short for the day.
Before(c, m, n, other) == Move(c, m, n).time < other.time \/ Overrun(c, other, m, n)

Brackets(c, m, diff, other) ==
    /\ \A k \in Int : Move(c, m, k).time \in Int
    /\ other.time \in Int /\ diff \in Int
    /\ Move(c, m, diff + 1).time > other.time
    /\ Before(c, m, diff - 1, other)
    /\ diff = 1 => Before(c, m, -1, other)
    /\ diff = -1 => Move(c, m, 1).time > other.time

LEMMA GetDiffFits ==
    ASSUME NEW c, NEW m, NEW diff, NEW other, Brackets(c, m, diff, other),
           NEW n, n = get_diff(c, m, diff, other)
    PROVE  n \in Int /\ Fits(c, other, m, n)
<1> DEFINE moved == Move(c, m, diff).time
<1>1. /\ diff \in Int /\ moved \in Int /\ other.time \in Int
      /\ Move(c, m, diff + 1).time > other.time
      /\ Before(c, m, diff - 1, other)
      /\ diff = 1 => Before(c, m, -1, other)
      /\ diff = -1 => Move(c, m, 1).time > other.time
  BY DEF Brackets
<1>2. ASSUME NEW k \in Int, Before(c, m, k, other)
      PROVE  Move(c, m, k).time <= other.time \/ Overrun(c, other, m, k)
  <2>1. Move(c, m, k).time \in Int
    BY DEF Brackets
  <2>2. Move(c, m, k).time < other.time => Move(c, m, k).time <= other.time
    BY <1>1, <2>1, SMTT(10)
  <2> QED BY <1>2, <2>2, Zenon DEF Before
<1>3. CASE diff > 0 /\ moved > other.time
  <2>1. n = diff - 1
    <3>1. ~(diff < 0)
      BY <1>1, <1>3, SMTT(10)
    <3> QED BY <1>3, <3>1, Zenon DEF get_diff
  <2>2. n \in Int /\ n >= 0 /\ n + 1 = diff /\ (n <= 0 => n = 0 /\ diff = 1 /\ n - 1 = -1)
    BY <1>1, <1>3, <2>1, SMTT(10)
  <2>3. Before(c, m, n, other)
    BY <1>1, <2>1
  <2>4. Move(c, m, n).time <= other.time \/ Overrun(c, other, m, n)
    BY <1>2, <2>2, <2>3
  <2>5. Move(c, m, n + 1).time > other.time
    BY <1>3, <2>2
  <2>6. n <= 0 => n = 0 /\ Before(c, m, n - 1, other)
    BY <1>1, <2>2
  <2> QED BY <2>2, <2>4, <2>5, <2>6, Zenon DEF Fits, Before
<1>4. CASE ~(diff > 0 /\ moved > other.time) /\ diff < 0 /\ moved < other.time
  <2>1. n = diff + 1
    BY <1>4, Zenon DEF get_diff
  <2>2. n \in Int /\ n <= 0 /\ n - 1 = diff /\ (n >= 0 => n = 0 /\ diff = -1 /\ n + 1 = 1)
    BY <1>1, <1>4, <2>1, SMTT(10)
  <2>3. Move(c, m, n).time > other.time /\ Move(c, m, n).time \in Int
    BY <1>1, <2>1, <2>2 DEF Brackets
  <2>4. Move(c, m, n).time >= other.time
    BY <1>1, <2>3, SMTT(10)
  <2>5. Move(c, m, n - 1).time < other.time
    BY <1>4, <2>2
  <2>6. n >= 0 => n = 0 /\ Move(c, m, n + 1).time > other.time
    BY <1>1, <2>2
  <2> QED BY <2>2, <2>4, <2>5, <2>6, Zenon DEF Fits
<1>5. CASE ~(diff > 0 /\ moved > other.time) /\ ~(diff < 0 /\ moved < other.time)
  <2>1. n = diff
    BY <1>5, Zenon DEF get_diff
  <2>2. n > 0 => Move(c, m, n).time <= other.time
    <3> HIDE DEF moved
    <3>1. n > 0 => moved <= other.time
      BY <1>1, <1>5, <2>1, SMTT(10)
    <3> QED BY <2>1, <3>1 DEF moved
  <2>3. n < 0 => Move(c, m, n).time >= other.time
    <3> HIDE DEF moved
    <3>1. n < 0 => moved >= other.time
      BY <1>1, <1>5, <2>1, SMTT(10)
    <3> QED BY <2>1, <3>1 DEF moved
  <2>4. /\ n >= 0 => n > 0 \/ n = 0
        /\ n <= 0 => n < 0 \/ n = 0
    BY <1>1, <2>1, SMTT(10)
  <2>5. Move(c, m, n + 1).time > other.time /\ Before(c, m, n - 1, other) /\ n \in Int
    BY <1>1, <2>1
  <2> QED BY <2>2, <2>3, <2>4, <2>5, Zenon DEF Fits, Before
<1> QED BY <1>3, <1>4, <1>5

\* A calendar that shows an instant.
LEMMA AtShows ==
    ASSUME NEW f \in 0 .. 6, NEW l \in BOOLEAN, NEW z \in Int, NEW t \in Int, NEW a, a = At(f, l, z, t)
    PROVE  Shows(a) /\ a.normalized /\ a.fdow = f /\ a.local = l /\ a.tzoff = z /\ a.time = t
<1> DEFINE c == [fdow |-> f, time |-> 0, tm |-> gmtime(0), upd |-> gmtime(0),
                 normalized |-> TRUE, local |-> l, tzoff |-> z]
<1>1. c \in Calendar /\ c.fdow = f /\ c.local = l /\ c.tzoff = z
  BY GmtimeRange DEF Calendar
<1>2. a = from_time(c, t)
  BY DEF At
<1> HIDE DEF c
<1>3. Shows(a) /\ a.normalized
  BY <1>1, <1>2, FromTimeShows
<1>4. a.fdow = c.fdow /\ a.local = c.local /\ a.tzoff = c.tzoff /\ a.time = t
  BY <1>1, <1>2 DEF from_time, Calendar
<1> QED BY <1>1, <1>3, <1>4

LEMMA OtherEnd ==
    ASSUME NEW c, Settled(c), NEW s \in Int, NEW other, other = At(c.fdow, c.local, c.tzoff, c.time + s)
    PROVE  /\ Shows(other) /\ other.normalized /\ other.time = c.time + s /\ other.tzoff = c.tzoff
           /\ Shift(other) = Shift(c) /\ LocalTime(other) = LocalTime(c) + s
<1>1. c.fdow \in 0 .. 6 /\ c.local \in BOOLEAN /\ c.tzoff \in Int /\ c.time \in Int /\ c \in Calendar
  BY DEF Settled, Shows, Calendar
<1> DEFINE t == c.time + s
<1>2. t \in Int
  BY <1>1
<1> HIDE DEF t
<1>3. other = At(c.fdow, c.local, c.tzoff, t)
  BY DEF t
<1>4. Shows(other) /\ other.normalized /\ other.local = c.local /\ other.tzoff = c.tzoff /\ other.time = t
  BY <1>1, <1>2, <1>3, AtShows
<1>5. Shift(other) = Shift(c)
  BY <1>4, Zenon DEF Shift
<1>6. Shift(c) \in Int
  BY <1>1, FieldsAndPoint
<1>7. LocalTime(other) = t + c.tzoff + Shift(c) /\ LocalTime(c) = c.time + c.tzoff + Shift(c)
  BY <1>4, <1>5, Zenon DEF LocalTime
<1>8. t + c.tzoff + Shift(c) = c.time + c.tzoff + Shift(c) + s
  BY <1>1, <1>2, <1>6, SMTT(10) DEF t
<1> QED BY <1>4, <1>5, <1>7, <1>8 DEF t

LEMMA MoveKeepsZone ==
    ASSUME NEW c \in Calendar, NEW m \in Periods, NEW n \in Int, NEW d, d = Move(c, m, n)
    PROVE  d.time \in Int /\ d.tzoff = c.tzoff /\ Shift(d) = Shift(c)
<1> DEFINE p == MovePending(c, m, n)
<1>1. p \in Calendar /\ ~p.normalized /\ p.local = c.local /\ p.tzoff = c.tzoff
  BY MoveTyped DEF OnlyPending
<1> HIDE DEF p
<1>2. d = normalize(p)
  BY DEF Move, p
<1>3. d \in Calendar
  BY <1>1, <1>2, NormalizeTyped
<1>4. d.local = p.local /\ d.tzoff = p.tzoff
  <2> DEFINE x == Point(p) - p.tzoff
             f == IF p.local THEN localtime(Point(p)) ELSE gmtime(Point(p))
  <2>1. d = [p EXCEPT !.time = x, !.tm = f, !.upd = f, !.normalized = TRUE]
    BY <1>1, <1>2 DEF normalize
  <2> HIDE DEF x, f
  <2> QED BY <1>1, <2>1 DEF Calendar
<1>5. Shift(d) = Shift(c)
  BY <1>1, <1>4, Zenon DEF Shift
<1> QED BY <1>1, <1>3, <1>4, <1>5 DEF Calendar

\* Both ends are at least a year after the first that the tables count from.
InReach(c, other) ==
    /\ Settled(c) /\ c.tm.year >= 2 /\ Settled(other) /\ other.tm.year >= 2
    /\ other.tzoff = c.tzoff /\ Shift(other) = Shift(c)

\* 29 February of any year is a day of that year, if only 1 March.
LEMMA LeapDayMoves ==
    ASSUME NEW c, Settled(c), ~DayInEveryYear(c), NEW n \in Int, c.tm.year + n >= 1,
           NEW d, d = Move(c, "year", n)
    PROVE  Settled(d) /\ d.tm.year = c.tm.year + n
<1> DEFINE f == c.tm
           u == [f EXCEPT !.year = @ + n]
           y == c.tm.year + n
           t == internal_timegm(u)
           day == days_from_0(y) - 719162 + 59
<1>1. IsClock(f.hour, f.min, f.sec) /\ f \in Tm /\ c.upd = f /\ f.mon = 1 /\ f.mday = 29
  BY SettledIsDate DEF DayInEveryYear
<1>2. d = normalize(Pending(c, u))
  BY <1>1, YearPending, Zenon
<1>3. /\ u \in Tm /\ u.year = y /\ u.mon = 1 /\ u.mday = 29 /\ y \in Int
      /\ u.hour = f.hour /\ u.min = f.min /\ u.sec = f.sec
  BY <1>1 DEF Tm
<1> HIDE DEF u, f, y, day
<1>4. /\ Shows(d) /\ d.normalized /\ d.tm = gmtime(t) /\ t \in Int
  <2>1. u \in Tm /\ Shows(c) /\ c.normalized
    BY <1>3 DEF Settled
  <2>2. /\ Shows(d) /\ d.normalized /\ LocalTime(d) = t /\ t \in Int /\ d.tm = gmtime(LocalTime(d))
    BY <1>2, <2>1, NormalizeReads, ZenonT(40)
  <2> QED BY <2>2, Zenon
<1>5. days_from_1jan(y, 2, 29) = 59
  BY SMTT(10) DEF days_from_1jan, DaysBefore
<1>6. t = InstantAt(day, f.hour, f.min, f.sec) /\ day \in Int
  <2>1. u.mon \in 0 .. 11 /\ u.mon + 1 = 2
    BY <1>3, SMTT(10)
  <2>2. /\ t = InstantAt(days_from_0(u.year) - 719162 + days_from_1jan(u.year, u.mon + 1, u.mday),
                         u.hour, u.min, u.sec)
        /\ days_from_0(u.year) - 719162 + days_from_1jan(u.year, u.mon + 1, u.mday) \in Int
    BY <1>3, <2>1, TimegmIs, SMTT(10)
  <2> HIDE DEF t
  <2> QED BY <1>3, <1>5, <2>1, <2>2, SMTT(10) DEF day
<1> HIDE DEF t
<1>7. DayOf(t) = day
  BY <1>1, <1>6, ClockIsRead, SMTT(10)
<1>8. 59 \in 0 .. days_in_year(y) - 1
  <2>1. LeapDay(y) \in 0 .. 1
    BY LeapDayInt
  <2> QED BY <2>1, SMTT(10) DEF days_in_year
<1>9. y >= 1
  BY DEF y
<1>10. YearOf(t) = y
  BY <1>3, <1>4, <1>7, <1>8, <1>9, YearDayIsFound, SMTT(10) DEF day
<1>11. d.tm.year = YearOf(t)
  BY <1>4, GmtimeIs
<1> QED BY <1>4, <1>9, <1>10, <1>11 DEF Settled, y

\* Moving by years reaches just that year, moving by months that month or, where it
\* is too short for the day, the next.
LEMMA YearReached ==
    ASSUME NEW c, Settled(c), NEW n \in Int, c.tm.year + n >= 1, NEW d, d = Move(c, "year", n)
    PROVE  Settled(d) /\ d.tm.year = c.tm.year + n
<1>1. CASE DayInEveryYear(c)
  BY <1>1, YearMoves DEF YearMoved, SameDay
<1>2. CASE ~DayInEveryYear(c)
  BY <1>2, LeapDayMoves
<1> QED BY <1>1, <1>2

LEMMA MonthReached ==
    ASSUME NEW c, Settled(c), NEW n \in Int, MonthNumber(c) + n >= 12, NEW d, d = Move(c, "month", n)
    PROVE  Settled(d) /\ MonthNumber(d) >= MonthNumber(c) + n
<1>1. PICK w : CarriedInto(c, n, w) /\ ShowsInstantOf(c, d, w)
  BY MonthIsWritten
<1> DEFINE v == [w EXCEPT !.mday = 1]
           k == w.mday - 1
           x == [v EXCEPT !.mday = @ + k]
           t == internal_timegm(v)
           s == internal_timegm(w)
<1>2. /\ w \in Tm /\ w.year \in Int /\ w.year >= 1 /\ w.mon \in 0 .. 11 /\ w.mday \in 1 .. 31
      /\ IsClock(w.hour, w.min, w.sec) /\ 12 * w.year + w.mon = MonthNumber(c) + n
  BY <1>1 DEF CarriedInto
<1>3. k \in Int /\ k >= 0 /\ 1 + k = w.mday
  BY <1>2, SMTT(10)
<1> HIDE DEF k
<1>4. /\ v \in Tm /\ v.year = w.year /\ v.mon = w.mon /\ v.mday = 1
      /\ v.hour = w.hour /\ v.min = w.min /\ v.sec = w.sec
  BY <1>2 DEF Tm
<1>5. /\ x \in Tm /\ x.year = w.year /\ x.mon = w.mon /\ x.mday = w.mday
      /\ x.hour = w.hour /\ x.min = w.min /\ x.sec = w.sec
  <2> HIDE DEF v
  <2>1. x \in Tm /\ x.mday = v.mday + k
    BY <1>3, <1>4 DEF Tm
  <2>2. x.year = v.year /\ x.mon = v.mon /\ x.hour = v.hour /\ x.min = v.min /\ x.sec = v.sec
    BY <1>4 DEF Tm
  <2> QED BY <1>3, <1>4, <2>1, <2>2
<1> HIDE DEF v
<1>6. internal_timegm(x) = t + 86400 * k
  BY <1>3, <1>4, TimegmAddsDays
<1> HIDE DEF x
<1>7. internal_timegm(x) = s
  BY <1>2, <1>5, SixFields
<1>8. t \in Int /\ s \in Int /\ t <= s
  <2>1. t \in Int
    BY <1>4, TimegmInt
  <2> HIDE DEF t, s
  <2> QED BY <1>3, <1>6, <1>7, <2>1, SMTT(10)
<1>9. IsDate(v.year, v.mon, v.mday) /\ IsClock(v.hour, v.min, v.sec)
  <2>1. days_in_month(w.year, w.mon + 1) \in 28 .. 31
    BY <1>2, MonthsInOrder
  <2>2. 1 \in 1 .. days_in_month(w.year, w.mon + 1)
    BY <2>1, SMTT(10)
  <2> QED BY <1>2, <1>4, <2>2 DEF IsDate
<1>10. gmtime(t).year = w.year /\ gmtime(t).mon = w.mon
  BY <1>4, <1>9, GmtimeInvertsTimegm, Zenon
<1> HIDE DEF t, s
<1>11. YearOf(t) = w.year /\ MonthOf(t) = w.mon
  BY <1>8, <1>10, GmtimeIs
<1>12. YearOf(s) >= YearOf(t) /\ MonthCount(s) >= MonthCount(t)
  BY <1>2, <1>8, <1>11, LaterYear, LaterMonth
<1>13. d.tm.year = YearOf(s) /\ d.tm.mon = MonthOf(s)
  <2>1. d.tm = gmtime(s)
    BY <1>1 DEF ShowsInstantOf, s
  <2> QED BY <1>8, <2>1, GmtimeIs
<1>14. YearOf(s) >= 1
  <2>1. YearOf(s) \in Int
    BY <1>8, PartsRange
  <2> QED BY <1>2, <1>11, <1>12, <2>1, SMTT(10)
<1>15. Settled(d)
  BY <1>1, <1>13, <1>14 DEF Settled, ShowsInstantOf
<1>16. MonthNumber(d) = MonthCount(s) /\ MonthCount(t) = MonthNumber(c) + n
  BY <1>2, <1>11, <1>13 DEF MonthNumber, MonthCount
<1> QED BY <1>12, <1>15, <1>16

LEMMA YearsBracket ==
    ASSUME NEW c, NEW other, InReach(c, other)
    PROVE  Brackets(c, "year", other.tm.year - c.tm.year, other)
<1> DEFINE diff == other.tm.year - c.tm.year
<1>1. /\ Settled(c) /\ c.tm.year >= 2 /\ Settled(other) /\ other.tm.year >= 2 /\ c \in Calendar
      /\ c.tm.year \in Int /\ other.tm.year \in Int /\ other.time \in Int
  BY SettledDay DEF InReach, Settled, Shows, Calendar
<1>2. "year" \in Periods
  BY DEF Periods
<1>3. \A k \in Int : Move(c, "year", k).time \in Int
  BY <1>1, <1>2, MoveKeepsZone
<1>4. ASSUME NEW k \in Int, c.tm.year + k >= 1
      PROVE  /\ c.tm.year + k > other.tm.year => Move(c, "year", k).time > other.time
             /\ c.tm.year + k < other.tm.year => Before(c, "year", k, other)
  <2> DEFINE d == Move(c, "year", k)
  <2>1. Settled(d) /\ d.tm.year = c.tm.year + k
    BY <1>1, <1>4, YearReached
  <2>2. d.tzoff = c.tzoff /\ Shift(d) = Shift(c) /\ d.time \in Int
    BY <1>1, <1>2, MoveKeepsZone
  <2> HIDE DEF d
  <2>3. d.tm.year > other.tm.year => d.time > other.time
    BY <1>1, <2>1, <2>2, ShownInOrder DEF InReach
  <2>4. other.tm.year > d.tm.year => other.time > d.time
    BY <1>1, <2>1, <2>2, ShownInOrder DEF InReach
  <2>5. c.tm.year + k \in Int
    BY <1>1
  <2>6. /\ c.tm.year + k > other.tm.year => d.time > other.time
        /\ c.tm.year + k < other.tm.year => d.time < other.time
    BY <1>1, <2>1, <2>2, <2>3, <2>4, <2>5, SMTT(10)
  <2> QED BY <2>6, Zenon DEF d, Before
<1>5. diff \in Int
  BY <1>1
<1>6. Move(c, "year", diff + 1).time > other.time
  <2>1. diff + 1 \in Int /\ c.tm.year + (diff + 1) >= 1 /\ c.tm.year + (diff + 1) > other.tm.year
    BY <1>1, SMTT(10)
  <2> QED BY <1>4, <2>1
<1>7. Before(c, "year", diff - 1, other)
  <2>1. diff - 1 \in Int /\ c.tm.year + (diff - 1) >= 1 /\ c.tm.year + (diff - 1) < other.tm.year
    BY <1>1, SMTT(10)
  <2> QED BY <1>4, <2>1
<1>8. diff = 1 => Before(c, "year", -1, other)
  <2>1. diff = 1 => c.tm.year + (-1) >= 1 /\ c.tm.year + (-1) < other.tm.year
    BY <1>1, SMTT(10)
  <2> QED BY <1>4, <2>1
<1>9. diff = -1 => Move(c, "year", 1).time > other.time
  <2>1. diff = -1 => c.tm.year + 1 >= 1 /\ c.tm.year + 1 > other.tm.year
    BY <1>1, SMTT(10)
  <2> QED BY <1>4, <2>1
<1> HIDE DEF diff
<1> QED BY <1>1, <1>3, <1>5, <1>6, <1>7, <1>8, <1>9, Zenon DEF Brackets, diff

LEMMA MonthsBracket ==
    ASSUME NEW c, NEW other, InReach(c, other),
           NEW diff, diff = 12 * (other.tm.year - c.tm.year) + other.tm.mon - c.tm.mon
    PROVE  Brackets(c, "month", diff, other)
<1> DEFINE p == MonthNumber(c)
           q == MonthNumber(other)
<1>1. /\ Settled(c) /\ Settled(other) /\ c \in Calendar /\ other.time \in Int
  BY DEF InReach, Settled, Shows, Calendar
<1>2. p \in Int /\ q \in Int /\ p >= 24 /\ q >= 24 /\ diff = q - p
  <2>1. /\ c.tm.year >= 2 /\ other.tm.year >= 2 /\ c.tm.year \in Int /\ other.tm.year \in Int
    BY SettledDay DEF InReach
  <2>2. c.tm.mon \in 0 .. 11 /\ other.tm.mon \in 0 .. 11
    BY <1>1, SettledRanges, ZenonT(40)
  <2> QED BY <2>1, <2>2, SMTT(10) DEF MonthNumber
<1> HIDE DEF p, q
<1>3. "month" \in Periods
  BY DEF Periods
<1>4. \A k \in Int : Move(c, "month", k).time \in Int
  BY <1>1, <1>3, MoveKeepsZone
<1>5. ASSUME NEW k \in Int, p + k >= 12
      PROVE  /\ p + k > q => Move(c, "month", k).time > other.time
             /\ p + k < q => Before(c, "month", k, other)
  <2> DEFINE d == Move(c, "month", k)
             r == MonthNumber(d)
  <2>1. Settled(d) /\ r >= p + k
    BY <1>1, <1>5, MonthReached DEF p
  <2>2. d.tzoff = c.tzoff /\ Shift(d) = Shift(c) /\ d.time \in Int
    BY <1>1, <1>3, MoveKeepsZone
  <2>3. r \in Int /\ p + k \in Int
    <3> HIDE DEF d
    <3>1. d.tm.mon \in 0 .. 11
      BY <2>1, SettledRanges, ZenonT(40)
    <3>2. d.tm.year \in Int
      BY <2>1, SettledFields, Zenon DEF Tm
    <3> QED BY <1>2, <3>1, <3>2, SMTT(10) DEF MonthNumber
  <2>4. c.tm.mday <= DaysOf(p + k) => r = p + k
    BY <1>1, <1>5, MonthMoves DEF MonthMoved, p
  <2> HIDE DEF d
  <2>5. /\ r > q => d.time > other.time
        /\ q > r => other.time > d.time
    BY <1>1, <2>1, <2>2, ShownInOrder DEF InReach, q
  <2> HIDE DEF r
  <2>6. p + k > q => d.time > other.time
    BY <1>2, <2>1, <2>3, <2>5, SMTT(10)
  <2>7. p + k < q => d.time < other.time \/ ~(c.tm.mday <= DaysOf(p + k))
    BY <1>1, <1>2, <2>2, <2>3, <2>4, <2>5, SMTT(10)
  <2>8. ~(c.tm.mday <= DaysOf(p + k)) => c.tm.mday > DaysOf(p + k)
    <3>1. DaysOf(p + k) \in 28 .. 31
      BY <2>3, DaysOfInt
    <3>2. c.tm.mday \in Int
      BY <1>1, SettledFields, Zenon DEF Tm
    <3> QED BY <3>1, <3>2, SMTT(10)
  <2>9. p + k < q => q > p + k
    BY <1>2, <2>3, SMTT(10)
  <2>10. p + k < q => d.time < other.time \/ Overrun(c, other, "month", k)
    BY <2>7, <2>8, <2>9, Zenon DEF Overrun, p, q
  <2> QED BY <2>6, <2>10, Zenon DEF d, Before
<1>6. diff \in Int
  BY <1>2
<1>7. Move(c, "month", diff + 1).time > other.time
  <2>1. diff + 1 \in Int /\ p + (diff + 1) >= 12 /\ p + (diff + 1) > q
    BY <1>2, SMTT(10)
  <2> QED BY <1>5, <2>1
<1>8. Before(c, "month", diff - 1, other)
  <2>1. diff - 1 \in Int /\ p + (diff - 1) >= 12 /\ p + (diff - 1) < q
    BY <1>2, SMTT(10)
  <2> QED BY <1>5, <2>1
<1>9. diff = 1 => Before(c, "month", -1, other)
  <2>1. diff = 1 => p + (-1) >= 12 /\ p + (-1) < q
    BY <1>2, SMTT(10)
  <2> QED BY <1>5, <2>1
<1>10. diff = -1 => Move(c, "month", 1).time > other.time
  <2>1. diff = -1 => p + 1 >= 12 /\ p + 1 > q
    BY <1>2, SMTT(10)
  <2> QED BY <1>5, <2>1
<1> QED BY <1>1, <1>4, <1>6, <1>7, <1>8, <1>9, <1>10, Zenon DEF Brackets

DayCounts(day, from, yday) == day = from - 719162 + yday

LEMMA DayCountsApart ==
    ASSUME NEW from \in Int, NEW to \in Int, NEW a \in Int, NEW b \in Int,
           NEW p, DayCounts(p, from, a), NEW q, DayCounts(q, to, b)
    PROVE  b - a + to - from = q - p
  BY SMTT(10) DEF DayCounts

\* The days between two instants, by the tables.
LEMMA DaysBetween ==
    ASSUME NEW c, NEW other, InReach(c, other), NEW s \in Int, LocalTime(other) = LocalTime(c) + s,
           NEW n, n = other.tm.yday - c.tm.yday + days_from_0(other.tm.year) - days_from_0(c.tm.year)
    PROVE  n \in Int /\ 86400 * (n + 1) > s /\ 86400 * (n - 1) < s
<1> DEFINE t == LocalTime(c)
           r == LocalTime(other)
           a == c.tm.yday
           b == other.tm.yday
           from == days_from_0(c.tm.year)
           to == days_from_0(other.tm.year)
<1>1. /\ t \in Int /\ DayOf(t) = from - 719162 + a /\ DayOf(t) \in Int
      /\ r \in Int /\ DayOf(r) = to - 719162 + b /\ DayOf(r) \in Int
  BY SettledDay DEF InReach
<1>2. from \in Int /\ to \in Int /\ a \in Int /\ b \in Int
  <2>1. c.tm.year \in Int /\ other.tm.year \in Int
    BY SettledDay DEF InReach
  <2>2. c.tm.yday \in Int /\ other.tm.yday \in Int
    BY SettledFields, Zenon DEF InReach, Tm
  <2> QED BY <2>1, <2>2, DaysFrom0Int
<1>3. n = b - a + to - from /\ r = t + s
  OBVIOUS
<1> HIDE DEF t, r, a, b, from, to
<1>4. n = DayOf(r) - DayOf(t)
  <2>1. DayCounts(DayOf(t), from, a) /\ DayCounts(DayOf(r), to, b)
    BY <1>1, SMTT(10) DEF DayCounts
  <2>2. b - a + to - from = DayOf(r) - DayOf(t)
    BY <1>2, <2>1, DayCountsApart, SMTT(20)
  <2> QED BY <1>3, <2>2, Zenon
<1>5. /\ 86400 * DayOf(t) <= t /\ t < 86400 * DayOf(t) + 86400
      /\ 86400 * DayOf(r) <= r /\ r < 86400 * DayOf(r) + 86400
  BY <1>1, SMTT(10) DEF DayOf
<1> QED BY <1>1, <1>3, <1>4, <1>5, SMTT(10)

LEMMA DaysBracket ==
    ASSUME NEW c, NEW other, InReach(c, other), NEW s \in Int, LocalTime(other) = LocalTime(c) + s,
           other.time = c.time + s,
           NEW n, n = other.tm.yday - c.tm.yday + days_from_0(other.tm.year) - days_from_0(c.tm.year)
    PROVE  Brackets(c, "day", n, other)
<1>1. n \in Int /\ 86400 * (n + 1) > s /\ 86400 * (n - 1) < s
  BY DaysBetween, SMTT(10)
<1>2. Settled(c) /\ c \in Calendar /\ c.time \in Int /\ other.time \in Int /\ "day" \in Periods
  BY DEF InReach, Settled, Shows, Calendar, Periods, DayPeriods
<1>3. ASSUME NEW k \in Int
      PROVE  Move(c, "day", k).time = c.time + 86400 * k
  BY <1>2, MovingDaysIsExact DEF Settled
<1>4. \A k \in Int : Move(c, "day", k).time \in Int
  BY <1>2, MoveKeepsZone
<1>5. Move(c, "day", n + 1).time > other.time
  <2>1. n + 1 \in Int /\ c.time + 86400 * (n + 1) > c.time + s
    BY <1>1, <1>2, SMTT(10)
  <2> QED BY <1>3, <2>1, SMTT(10)
<1>6. Before(c, "day", n - 1, other)
  <2>1. n - 1 \in Int /\ c.time + 86400 * (n - 1) < c.time + s
    BY <1>1, <1>2, SMTT(10)
  <2>2. Move(c, "day", n - 1).time < other.time
    BY <1>3, <2>1, SMTT(10)
  <2> QED BY <2>2, Zenon DEF Before
<1>7. n = 1 => Before(c, "day", -1, other)
  <2>1. n = 1 => c.time + 86400 * (-1) < c.time + s
    BY <1>1, <1>2, SMTT(10)
  <2>2. -1 \in Int
    BY SMTT(10)
  <2>3. n = 1 => Move(c, "day", -1).time < other.time
    BY <1>3, <2>1, <2>2, SMTT(10)
  <2> QED BY <2>3, Zenon DEF Before
<1>8. n = -1 => Move(c, "day", 1).time > other.time
  <2>1. n = -1 => c.time + 86400 * 1 > c.time + s
    BY <1>1, <1>2, SMTT(10)
  <2>2. 1 \in Int
    BY SMTT(10)
  <2> QED BY <1>3, <2>1, <2>2, SMTT(10)
<1>9. n \in Int
  BY <1>1, SMTT(10)
<1> QED BY <1>2, <1>4, <1>5, <1>6, <1>7, <1>8, <1>9, Zenon DEF Brackets

\* difference is the number of whole periods.
LEMMA DifferencesAreCounted ==
    ASSUME NEW c, NEW other, InReach(c, other), NEW s \in Int, LocalTime(other) = LocalTime(c) + s,
           other.time = c.time + s, NEW m \in Periods
    PROVE  Fits(c, other, m, difference(c, other, m))
<1> DEFINE days == other.tm.yday - c.tm.yday + days_from_0(other.tm.year) - days_from_0(c.tm.year)
           g == get_diff(c, "day", days, other)
           seconds == other.time - c.time
<1>1. Settled(c) /\ c.time \in Int
  BY DEF InReach, Settled, Shows, Calendar
<1>2. seconds = s
  BY <1>1
<1>3. Brackets(c, "day", days, other)
  BY DaysBracket
<1> HIDE DEF days, seconds
<1>4. g \in Int /\ Fits(c, other, "day", g)
  BY <1>3, GetDiffFits
<1>5. Fit(86400, s, g)
  <2>1. "day" \in EvenPeriods /\ Length("day") = 86400
    BY DEF EvenPeriods, Periods, DayPeriods, Length, WeekPeriods
  <2>2. Fits(c, other, "day", g) <=> Fit(Length("day"), s, g)
    BY <1>1, <1>4, <2>1, FitsIsFit
  <2> QED BY <1>4, <2>1, <2>2
<1> HIDE DEF g
<1>6. ASSUME NEW n \in Int, m \in EvenPeriods, Fit(Length(m), s, n), difference(c, other, m) = n
      PROVE  Fits(c, other, m, difference(c, other, m))
  BY <1>1, <1>6, FitsIsFit, SMTT(20)
<1>7. CASE m = "year"
  <2> DEFINE years == other.tm.year - c.tm.year
  <2>1. difference(c, other, m) = get_diff(c, m, years, other)
    BY <1>7, SMTT(20) DEF difference, DayPeriods, WeekPeriods
  <2>2. Brackets(c, m, years, other)
    BY <1>7, YearsBracket
  <2> HIDE DEF years
  <2> QED BY <2>1, <2>2, GetDiffFits
<1>8. CASE m = "month"
  <2> DEFINE months == 12 * (other.tm.year - c.tm.year) + other.tm.mon - c.tm.mon
  <2>1. difference(c, other, m) = get_diff(c, m, months, other)
    BY <1>8, SMTT(20) DEF difference, DayPeriods, WeekPeriods
  <2>2. Brackets(c, m, months, other)
    BY <1>8, MonthsBracket
  <2> HIDE DEF months
  <2> QED BY <2>1, <2>2, GetDiffFits
<1>9. CASE m \in DayPeriods
  <2>1. difference(c, other, m) = g
    BY <1>9, SMTT(20) DEF difference, DayPeriods, WeekPeriods, g, days
  <2>2. m \in EvenPeriods /\ Length(m) = 86400
    BY <1>9 DEF EvenPeriods, Periods, DayPeriods, Length, WeekPeriods
  <2> QED BY <1>4, <1>5, <1>6, <2>1, <2>2
<1>10. CASE m \in WeekPeriods
  <2>1. difference(c, other, m) = CDiv(g, 7)
    BY <1>10, SMTT(20) DEF difference, DayPeriods, WeekPeriods, g, days
  <2>2. m \in EvenPeriods /\ Length(m) = 604800
    BY <1>10, SMTT(10) DEF EvenPeriods, Periods, DayPeriods, Length, WeekPeriods
  <2>3. CDiv(g, 7) \in Int /\ Fit(604800, s, CDiv(g, 7))
    BY <1>4, <1>5, WeeksFit
  <2> QED BY <1>6, <2>1, <2>2, <2>3
<1>11. CASE m \in ClockPeriods
  <2> DEFINE k == Length(m)
  <2>1. m \in EvenPeriods /\ k \in {1, 60, 3600, 43200}
    BY <1>11, SMTT(10) DEF EvenPeriods, Periods, DayPeriods, Length, WeekPeriods, ClockPeriods
  <2>2. CDiv(s, 1) = s
    BY SMTT(10) DEF CDiv
  <2>3. difference(c, other, m) = CDiv(s, k)
    <3>1. CASE m = "am_pm"
      <4>1. difference(c, other, m) = CDiv(seconds, 43200) /\ k = 43200
        BY <3>1, SMTT(10) DEF difference, DayPeriods, WeekPeriods, seconds, Length
      <4> QED BY <1>2, <4>1
    <3>2. CASE m \in {"hour", "hour_12"}
      <4>1. difference(c, other, m) = CDiv(seconds, 3600) /\ k = 3600
        BY <3>2, SMTT(10) DEF difference, DayPeriods, WeekPeriods, seconds, Length
      <4> QED BY <1>2, <4>1
    <3>3. CASE m = "minute"
      <4>1. difference(c, other, m) = CDiv(seconds, 60) /\ k = 60
        BY <3>3, SMTT(10) DEF difference, DayPeriods, WeekPeriods, seconds, Length
      <4> QED BY <1>2, <4>1
    <3>4. CASE m = "second"
      <4>1. difference(c, other, m) = seconds /\ k = 1
        BY <3>4, SMTT(10) DEF difference, DayPeriods, WeekPeriods, seconds, Length
      <4> QED BY <1>2, <2>2, <4>1
    <3> QED BY <1>11, <3>1, <3>2, <3>3, <3>4 DEF ClockPeriods
  <2> HIDE DEF k
  <2>4. CDiv(s, k) \in Int /\ Fit(k, s, CDiv(s, k))
    BY <2>1, SecondsFit
  <2> QED BY <1>6, <2>1, <2>3, <2>4 DEF k
<1> QED BY <1>7, <1>8, <1>9, <1>10, <1>11 DEF Periods

-----------------------------------------------------------------------------
(* Rolling. *)

Wrapped(a, r) == IF CMod(a, r) < 0 THEN CMod(a, r) + r ELSE CMod(a, r)

\* a remainder, and the multiple of r that it is apart from a.
Congruent(w, a, r) == w \in 0 .. r - 1 /\ \E k \in Int : w = a + r * k

LEMMA DivIsExact ==
    ASSUME NEW a \in Int, NEW r \in Nat \ {0}
    PROVE  a = r * (a \div r) + (a % r) /\ a \div r \in Int /\ a % r \in 0 .. r - 1
  BY SMTT(30)

LEMMA Wraps ==
    ASSUME NEW a \in Int, NEW r \in Nat \ {0}
    PROVE  Congruent(Wrapped(a, r), a, r)
<1>1. CASE a >= 0
  <2> DEFINE q == a \div r
             w == a % r
  <2>1. a = r * q + w /\ q \in Int /\ w \in 0 .. r - 1
    BY DivIsExact
  <2>2. CMod(a, r) = a - r * q
    BY <1>1 DEF CMod, CDiv
  <2> HIDE DEF q, w
  <2>3. r * q \in Int /\ r * (-q) = -(r * q)
    BY <2>1, SMTT(10)
  <2>4. CMod(a, r) = w /\ w >= 0 /\ w = a + r * (-q) /\ -q \in Int /\ w \in Int
    BY <2>1, <2>2, <2>3, SMTT(10)
  <2>5. Wrapped(a, r) = w
    BY <2>4, SMTT(10) DEF Wrapped
  <2> QED BY <2>1, <2>4, <2>5, Zenon DEF Congruent
<1>2. CASE a < 0
  <2> DEFINE b == -a
             q == b \div r
             w == b % r
  <2>1. b = r * q + w /\ q \in Int /\ w \in 0 .. r - 1 /\ b \in Int
    <3>1. b \in Int
      OBVIOUS
    <3> HIDE DEF b
    <3> QED BY <3>1, DivIsExact
  <2>2. CMod(a, r) = a - r * (-q)
    <3>1. ~(a >= 0)
      BY <1>2, SMTT(10)
    <3>2. CDiv(a, r) = -q
      BY <3>1, Zenon DEF CDiv
    <3> QED BY <3>2, Zenon DEF CMod
  <2>3. b = -a
    OBVIOUS
  <2> HIDE DEF b, q, w
  <2>4. r * q \in Int /\ r * (-q) = -(r * q) /\ r * (q + 1) = r * q + r
    BY <2>1, SMTT(10)
  <2>5. CMod(a, r) = -w /\ w \in Int /\ w >= 0 /\ w < r
    BY <2>1, <2>2, <2>3, <2>4, SMTT(10)
  <2>6. CASE w = 0
    <3>1. CMod(a, r) = 0
      <4> DEFINE p == CMod(a, r)
      <4>1. p \in Int /\ w \in Int /\ p + w = 0
        BY <2>5, SMTT(10)
      <4> HIDE DEF p
      <4>2. p = 0
        BY <2>6, <4>1, SMTT(10)
      <4> QED BY <4>2 DEF p
    <3>2. Wrapped(a, r) = 0
      BY <3>1, SMTT(10) DEF Wrapped
    <3>3. 0 \in 0 .. r - 1
      BY SMTT(10)
    <3>4. 0 = a + r * q
      <4> DEFINE p == r * q
      <4>1. p \in Int /\ b = p + w
        BY <2>1, <2>4
      <4> HIDE DEF p
      <4>2. 0 = a + p
        BY <2>3, <2>6, <4>1, SMTT(10)
      <4> QED BY <4>2 DEF p
    <3> QED BY <2>1, <3>2, <3>3, <3>4, Zenon DEF Congruent
  <2>7. CASE w > 0
    <3>1. /\ Wrapped(a, r) = r - w /\ r - w = a + r * (q + 1) /\ r - w \in 0 .. r - 1
          /\ q + 1 \in Int
      BY <2>1, <2>3, <2>4, <2>5, <2>7, SMTT(10) DEF Wrapped
    <3> QED BY <3>1, Zenon DEF Congruent
  <2> QED BY <2>5, <2>6, <2>7, SMTT(10)
<1> QED BY <1>1, <1>2, SMTT(10)

LEMMA WrapsBack ==
    ASSUME NEW r \in Nat \ {0}, NEW x \in 0 .. r - 1, NEW n \in Int, NEW w, Congruent(w, x + n, r),
           NEW z, Congruent(z, w + (-n), r)
    PROVE  z = x
<1>1. PICK k \in Int : w = x + n + r * k
  BY DEF Congruent
<1>2. PICK j \in Int : z = w + (-n) + r * j
  BY DEF Congruent
<1>3. w \in Int /\ z \in Int /\ z >= 0 /\ z < r /\ x \in Int /\ x >= 0 /\ x < r
  BY SMTT(10) DEF Congruent
<1> DEFINE i == k + j
<1>4. i \in Int /\ r * i = r * k + r * j
  BY SMTT(20)
<1>5. r * k \in Int /\ r * j \in Int
  BY SMTT(10)
<1> HIDE DEF i
<1>6. z = x + r * i
  BY <1>1, <1>2, <1>3, <1>4, <1>5, SMTT(10)
<1>7. CASE i >= 1
  <2>1. r * i >= r
    BY <1>4, <1>7, SMTT(20)
  <2> QED BY <1>3, <1>4, <1>5, <1>6, <2>1, SMTT(10)
<1>8. CASE i <= -1
  <2>1. r * i <= -r
    BY <1>4, <1>8, SMTT(20)
  <2> QED BY <1>3, <1>4, <1>5, <1>6, <2>1, SMTT(10)
<1>9. CASE i = 0
  BY <1>3, <1>6, <1>9, SMTT(10)
<1> QED BY <1>4, <1>7, <1>8, <1>9, SMTT(10)

\* The value rolled to lies in the field's range.
LEMMA RollsTo ==
    ASSUME NEW c, Settled(c), NEW m \in Periods, NEW n \in Int,
           NEW r, r = RollRange(c, m), NEW x, x = Current(c)[m] - Minimum(m),
           NEW v, v = RollValue(c, m, n)
    PROVE  /\ r \in Nat \ {0} /\ x \in Int /\ v \in Int /\ Minimum(m) \in Int
           /\ Congruent(v - Minimum(m), x + n, r)
           /\ v >= Minimum(m) /\ v <= ActualMaximum(c)[m] /\ ActualMaximum(c)[m] \in Int
<1>1. c \in Calendar /\ c.tm.mon \in 0 .. 11
  BY SettledRanges DEF Settled, Shows
<1> DEFINE lo == Minimum(m)
           hi == ActualMaximum(c)[m]
<1>2. hi \in Int /\ lo \in Int /\ r \in Nat \ {0} /\ Current(c)[m] \in Int
  BY <1>1, ActualMaximumInt, RollRangePositive, CurrentInt
<1>3. r = hi - lo + 1
  BY DEF RollRange
<1>4. v = Wrapped(x + n, r) + lo
  BY Zenon DEF RollValue, Wrapped
<1>5. x \in Int
  BY <1>2
<1> HIDE DEF lo, hi
<1> DEFINE a == x + n
           w == Wrapped(a, r)
<1>6. a \in Int
  BY <1>5
<1> HIDE DEF a
<1>7. Congruent(w, a, r)
  BY <1>2, <1>6, Wraps
<1> HIDE DEF w
<1>8. w \in Int /\ w >= 0 /\ w <= r - 1
  BY <1>2, <1>7, SMTT(10) DEF Congruent
<1>9. v = w + lo
  BY <1>4 DEF w, a
<1>10. v - lo = w /\ v \in Int /\ v >= lo /\ v <= hi
  BY <1>2, <1>3, <1>8, <1>9, SMTT(10)
<1> QED BY <1>2, <1>5, <1>7, <1>10 DEF a, lo, hi

LEMMA RollIsValid ==
    ASSUME NEW c, Settled(c), NEW m \in Periods, NEW n \in Int
    PROVE  Valid(c, m, RollValue(c, m, n))
<1> DEFINE v == RollValue(c, m, n)
           lo == Minimum(m)
           hi == ActualMaximum(c)[m]
<1>1. v \in Int /\ lo \in Int /\ v >= lo /\ v <= hi /\ hi \in Int
  BY RollsTo
<1>2. m = "year" => lo >= 1
  BY SMTT(10) DEF Minimum
<1> HIDE DEF v, lo, hi
<1>3. v \in lo .. hi /\ (m = "year" => v >= 1)
  BY <1>1, <1>2, SMTT(10)
<1> QED BY <1>1, <1>3 DEF Valid, v, lo, hi

LEMMA ShownFields ==
    ASSUME NEW c
    PROVE  /\ Current(c)["year"] = c.tm.year /\ Current(c)["month"] = c.tm.mon
           /\ Current(c)["day"] = c.tm.mday /\ Current(c)["hour"] = c.tm.hour
           /\ Current(c)["hour_12"] = c.tm.hour % 12 /\ Current(c)["am_pm"] = c.tm.hour \div 12
           /\ Current(c)["minute"] = c.tm.min /\ Current(c)["second"] = c.tm.sec
           /\ Current(c)["day_of_week"] = c.tm.wday + 1 /\ Current(c)["day_of_year"] = c.tm.yday + 1
           /\ Current(c)["day_of_week_local"] = LocalDow(c) + 1
  BY DEF Current

LEMMA OtherMarks ==
    ASSUME NEW m \in PlainMarks, NEW p \in Others(m)
    PROVE  /\ p \in {"year", "month", "day", "hour", "minute", "second", "hour_12", "am_pm"}
           /\ p = "year" => m # "year"
           /\ p = "month" => m # "month"
           /\ p = "day" => m # "day"
           /\ p = "minute" => m # "minute"
           /\ p = "second" => m # "second"
           /\ p = "hour" => m \notin {"hour", "hour_12", "am_pm"}
           /\ p = "hour_12" => m = "am_pm"
           /\ p = "am_pm" => m = "hour_12"
  BY SMTT(30) DEF Others, Clock, PlainMarks, ClockPeriods, DayPeriods, WeekPeriods

LEMMA HalfDays ==
    ASSUME NEW h \in 0 .. 23, NEW v \in Int
    PROVE  /\ v \in 0 .. 11 => ((h \div 12) * 12 + v) \div 12 = h \div 12
           /\ (12 * v + (h % 12)) % 12 = h % 12
<1> DEFINE q == h \div 12
           r == h % 12
<1>1. q \in Int /\ r \in 0 .. 11
  BY SMTT(10)
<1> HIDE DEF q, r
<1>2. v \in 0 .. 11 => (q * 12 + v) \div 12 = q
  BY <1>1, SMTT(10)
<1>3. (12 * v + r) % 12 = r
  BY <1>1, SMTT(10)
<1> QED BY <1>2, <1>3 DEF q, r

LEMMA PlainKeepsOthers ==
    ASSUME NEW c, Settled(c), NEW m \in PlainMarks, NEW v, Valid(c, m, v), v \in Int,
           NEW d, PlainDone(c, m, v, d)
    PROVE  KeepsOthers(c, d, m)
<1> DEFINE h == c.tm.hour
           k == d.tm.hour
<1>1. h \in 0 .. 23
  BY SettledRanges, ZenonT(40)
<1>2. m = "hour_12" => k \div 12 = h \div 12
  <2> SUFFICES ASSUME m = "hour_12" PROVE k \div 12 = h \div 12
    OBVIOUS
  <2>1. v \in 0 .. 11
    BY ValidPlain
  <2>2. k = (h \div 12) * 12 + v
    BY DEF PlainDone
  <2> HIDE DEF h, k
  <2> QED BY <1>1, <2>1, <2>2, HalfDays
<1>3. m = "am_pm" => k % 12 = h % 12
  <2> SUFFICES ASSUME m = "am_pm" PROVE k % 12 = h % 12
    OBVIOUS
  <2>1. k = 12 * v + (h % 12)
    BY DEF PlainDone
  <2> HIDE DEF h, k
  <2> QED BY <1>1, <2>1, HalfDays
<1>4. ASSUME NEW p \in Others(m)
      PROVE  Current(d)[p] = Current(c)[p]
  <2>1. CASE p = "year"
    <3>1. m # "year"
      BY <2>1, OtherMarks
    <3>2. d.tm.year = c.tm.year
      BY <3>1, Zenon DEF PlainDone
    <3> QED BY <2>1, <3>2, ShownFields, Zenon
  <2>2. CASE p = "month"
    <3>1. m # "month"
      BY <2>2, OtherMarks
    <3>2. d.tm.mon = c.tm.mon
      BY <3>1, Zenon DEF PlainDone
    <3> QED BY <2>2, <3>2, ShownFields, Zenon
  <2>3. CASE p = "day"
    <3>1. m # "day"
      BY <2>3, OtherMarks
    <3>2. d.tm.mday = c.tm.mday
      BY <3>1, Zenon DEF PlainDone
    <3> QED BY <2>3, <3>2, ShownFields, Zenon
  <2>4. CASE p = "hour"
    <3>1. m # "hour" /\ m # "hour_12" /\ m # "am_pm"
      BY <2>4, OtherMarks
    <3>2. k = h
      BY <3>1, Zenon DEF PlainDone
    <3> QED BY <2>4, <3>2, ShownFields, Zenon
  <2>5. CASE p = "minute"
    <3>1. m # "minute"
      BY <2>5, OtherMarks
    <3>2. d.tm.min = c.tm.min
      BY <3>1, Zenon DEF PlainDone
    <3> QED BY <2>5, <3>2, ShownFields, Zenon
  <2>6. CASE p = "second"
    <3>1. m # "second"
      BY <2>6, OtherMarks
    <3>2. d.tm.sec = c.tm.sec
      BY <3>1, Zenon DEF PlainDone
    <3> QED BY <2>6, <3>2, ShownFields, Zenon
  <2>7. CASE p = "hour_12"
    <3>1. k % 12 = h % 12
      BY <1>3, <2>7, OtherMarks
    <3> QED BY <2>7, <3>1, ShownFields, Zenon
  <2>8. CASE p = "am_pm"
    <3>1. k \div 12 = h \div 12
      BY <1>2, <2>8, OtherMarks
    <3> QED BY <2>8, <3>1, ShownFields, Zenon
  <2> QED BY <2>1, <2>2, <2>3, <2>4, <2>5, <2>6, <2>7, <2>8, OtherMarks
<1> QED BY <1>4 DEF KeepsOthers

LEMMA OtherThanDay ==
    /\ Others("day_of_year") = {"year", "hour", "minute", "second"}
    /\ \A m \in {"day_of_week", "day_of_week_local"} : Others(m) = {"hour", "minute", "second"}
    /\ \A m \in WeekPeriods : Others(m) = {"day_of_week", "hour", "minute", "second"}
  BY SMTT(30) DEF Others, Clock, WeekPeriods

LEMMA ClockKept ==
    ASSUME NEW c, NEW d, NEW n, DaysApart(c, d, n), NEW p \in {"hour", "minute", "second"}
    PROVE  Current(d)[p] = Current(c)[p]
<1>1. d.tm.hour = c.tm.hour /\ d.tm.min = c.tm.min /\ d.tm.sec = c.tm.sec
  BY SMTT(10) DEF DaysApart
<1> QED BY <1>1, ShownFields

\* A roll to a date that exists keeps the other fields.
LEMMA RollKeeps ==
    ASSUME NEW c, Settled(c), NEW m \in Periods, NEW n \in Int,
           NEW v, v = RollValue(c, m, n), Possible(c, m, v)
    PROVE  KeepsOthers(c, Roll(c, m, n), m)
<1> DEFINE d == SetTo(c, m, v)
<1>1. Roll(c, m, n) = d
  BY DEF Roll, SetTo
<1>2. Valid(c, m, v)
  BY RollIsValid
<1>3. CASE m \in PlainMarks
  <2>1. PlainDone(c, m, v, d) /\ v \in Int
    BY <1>2, <1>3, PlainIsDone
  <2> HIDE DEF d
  <2> QED BY <1>1, <1>2, <1>3, <2>1, PlainKeepsOthers
<1>4. CASE m = "day_of_year"
  <2>1. v \in 1 .. days_in_year(c.tm.year)
    BY <1>2, <1>4, ValidRelative DEF RelativeMarks
  <2>2. YearDayDone(c, v, d)
    BY <1>4, <2>1, YearDayIsDone
  <2> HIDE DEF d
  <2>3. DaysApart(c, d, v - (c.tm.yday + 1)) /\ d.tm.year = c.tm.year
    BY <2>2 DEF YearDayDone
  <2>4. Current(d)["year"] = Current(c)["year"]
    BY <2>3, ShownFields
  <2>5. \A p \in {"hour", "minute", "second"} : Current(d)[p] = Current(c)[p]
    BY <2>3, ClockKept
  <2> QED BY <1>1, <1>4, <2>4, <2>5, OtherThanDay DEF KeepsOthers
<1>5. CASE m \in {"day_of_week", "day_of_week_local"}
  <2>1. v \in Int /\ v \in 1 .. 7
    BY <1>2, <1>5, ValidRelative DEF RelativeMarks
  <2>2. DaysApart(c, d, DaysTo(c, m, v))
    BY <1>5, <2>1, WeekdayIsDone DEF WeekdayDone
  <2> HIDE DEF d
  <2>3. \A p \in {"hour", "minute", "second"} : Current(d)[p] = Current(c)[p]
    BY <2>2, ClockKept
  <2> QED BY <1>1, <1>5, <2>3, OtherThanDay DEF KeepsOthers
<1>6. CASE m \in WeekPeriods
  <2>1. v \in Int
    BY <1>2, <1>6, ValidRelative DEF RelativeMarks
  <2>2. DaysApart(c, d, DaysTo(c, m, v)) /\ d.tm.wday = c.tm.wday
    BY <1>6, <2>1, WeekMoves
  <2> HIDE DEF d
  <2>3. Current(d)["day_of_week"] = Current(c)["day_of_week"]
    BY <2>2, ShownFields
  <2>4. \A p \in {"hour", "minute", "second"} : Current(d)[p] = Current(c)[p]
    BY <2>2, ClockKept
  <2> QED BY <1>1, <1>6, <2>3, <2>4, OtherThanDay DEF KeepsOthers
<1> QED BY <1>3, <1>4, <1>5, <1>6 DEF Periods, PlainMarks, DayPeriods

LEMMA WeekdayIsSettled ==
    ASSUME NEW c, Settled(c), c.tm.year >= 2, NEW n \in -6 .. 6, NEW d, DaysApart(c, d, n)
    PROVE  Settled(d)
<1> DEFINE k == 86400 * n
           z == -1
<1>1. z \in Int /\ n \in Int /\ n >= -6
  BY SMTT(10)
<1>2. c.tm.year \in Int
  BY SettledDay
<1>3. Displaced(c, d, k)
  <2>1. d.upd = d.tm
    BY SMTT(10) DEF DaysApart, Shows
  <2> QED BY <2>1, SMTT(20) DEF DaysApart, Displaced
<1>4. k \in Int /\ k >= 604800 * z
  BY <1>1, SMTT(10)
<1>5. ~(z >= 0)
  BY SMTT(10)
<1> HIDE DEF k
<1>6. c.tm.year + z >= 1
  BY <1>2, SMTT(10)
<1> HIDE DEF z
<1> QED BY <1>1, <1>3, <1>4, <1>5, <1>6, StillSettled, SMTT(20)

\* What is set leaves the calendar at a date that can be set again.
LEMMA SetIsSettled ==
    ASSUME NEW c, Settled(c), c.tm.year >= 2, NEW m \in Periods, NEW v, Valid(c, m, v), Possible(c, m, v),
           NEW d, d = SetTo(c, m, v)
    PROVE  Settled(d) /\ d.fdow = c.fdow
<1>1. CASE m \in PlainMarks
  <2>1. PlainDone(c, m, v, d)
    BY <1>1, PlainIsDone
  <2> QED BY <2>1, Zenon DEF PlainDone
<1>2. CASE m = "day_of_year"
  <2>1. v \in 1 .. days_in_year(c.tm.year)
    BY <1>2, ValidRelative DEF RelativeMarks
  <2>2. YearDayDone(c, v, d)
    BY <1>2, <2>1, YearDayIsDone
  <2> QED BY <2>2, SMTT(10) DEF YearDayDone, DaysApart
<1>3. CASE m \in {"day_of_week", "day_of_week_local"}
  <2>1. v \in Int /\ v \in 1 .. 7
    BY <1>3, ValidRelative DEF RelativeMarks
  <2>2. WeekdayDone(c, m, v, d)
    BY <1>3, <2>1, WeekdayIsDone
  <2>3. DaysApart(c, d, DaysTo(c, m, v)) /\ DaysTo(c, m, v) \in -6 .. 6
    BY <2>2, SMTT(10) DEF WeekdayDone
  <2>4. Settled(d)
    BY <2>3, WeekdayIsSettled, SMTT(10)
  <2> QED BY <2>3, <2>4, SMTT(10) DEF DaysApart
<1>4. CASE m \in WeekPeriods
  <2>1. WeekDone(c, m, v, d)
    <3>1. CASE m = "week_of_year"
      BY <3>1, WeekOfYearIsDone
    <3>2. CASE m \in {"week_of_month", "day_of_week_in_month"}
      BY <3>2, WeekOfMonthIsDone
    <3> QED BY <1>4, <3>1, <3>2 DEF WeekPeriods
  <2> QED BY <2>1, SMTT(10) DEF WeekDone, DaysApart
<1> QED BY <1>1, <1>2, <1>3, <1>4 DEF Periods, PlainMarks, DayPeriods

\* The fields of before, written into the fields that have been set.
LEMMA PlainWrittenBack ==
    ASSUME NEW c, Settled(c), NEW m \in PlainMarks, NEW v, Valid(c, m, v), Possible(c, m, v),
           NEW d, d = SetTo(c, m, v), NEW e, e = SetTo(d, m, Current(c)[m])
    PROVE  e.time = c.time
<1> DEFINE f == c.tm
           g == d.tm
           x == Current(c)[m]
           u == Written(f, m, v)
           w == Written(g, m, x)
<1>1. PlainDone(c, m, v, d) /\ v \in Int
  BY PlainIsDone
<1>2. Settled(d)
  BY <1>1, Zenon DEF PlainDone
<1>3. f \in Tm /\ g \in Tm /\ f.hour \in 0 .. 23 /\ g.hour \in 0 .. 23
  <2>1. f \in Tm /\ g \in Tm
    BY <1>2, SettledFields, Zenon
  <2>2. f.hour \in 0 .. 23
    BY SettledRanges, ZenonT(40)
  <2>3. g.hour \in 0 .. 23
    BY <1>2, SettledRanges, ZenonT(40)
  <2> QED BY <2>1, <2>2, <2>3
<1>4. x \in Int
  <2>1. m \in Periods /\ c \in Calendar
    BY DEF PlainMarks, Periods, DayPeriods, Settled, Shows
  <2> QED BY <2>1, CurrentInt
<1>5. d = normalize(Pending(c, u)) /\ e = normalize(Pending(d, w))
  BY <1>2, PlainIsWritten, Zenon
<1>6. u \in Tm
  <2> HIDE DEF f, u
  <2> QED BY <1>1, <1>3, WrittenFields DEF u
<1> HIDE DEF x, w
<1>7. /\ w \in Tm
      /\ w.year = IF m = "year" THEN x ELSE g.year
      /\ w.mon = IF m = "month" THEN x ELSE g.mon
      /\ w.mday = IF m = "day" THEN x ELSE g.mday
      /\ w.hour = IF m = "hour" THEN x
                  ELSE IF m = "hour_12" THEN (g.hour \div 12) * 12 + x
                  ELSE IF m = "am_pm" THEN 12 * x + (g.hour % 12) ELSE g.hour
      /\ w.min = IF m = "minute" THEN x ELSE g.min
      /\ w.sec = IF m = "second" THEN x ELSE g.sec
  <2> HIDE DEF g
  <2> QED BY <1>3, <1>4, WrittenFields, SMTT(30) DEF w
<1>8. /\ m # "year" => g.year = f.year
      /\ m # "month" => g.mon = f.mon
      /\ m # "day" => g.mday = f.mday
      /\ m # "minute" => g.min = f.min
      /\ m # "second" => g.sec = f.sec
  BY <1>1, Zenon DEF PlainDone
<1>9. /\ m = "year" => x = f.year
      /\ m = "month" => x = f.mon
      /\ m = "day" => x = f.mday
      /\ m = "minute" => x = f.min
      /\ m = "second" => x = f.sec
      /\ m = "hour" => x = f.hour
      /\ m = "hour_12" => x = f.hour % 12
      /\ m = "am_pm" => x = f.hour \div 12
  BY ShownFields, Zenon DEF x
<1>10. w.hour = f.hour
  <2> DEFINE h == f.hour
             k == g.hour
  <2>1. h \in 0 .. 23 /\ h = (h \div 12) * 12 + (h % 12)
    <3>1. h \in 0 .. 23
      BY <1>3
    <3> HIDE DEF h
    <3> QED BY <3>1, TwelveHours
  <2>2. /\ m \notin {"hour", "hour_12", "am_pm"} => k = h
        /\ m = "hour_12" => k = (h \div 12) * 12 + v
        /\ m = "am_pm" => k = 12 * v + (h % 12)
    BY <1>1, Zenon DEF PlainDone
  <2>3. /\ m = "hour" => w.hour = x
        /\ m = "hour_12" => w.hour = (k \div 12) * 12 + x
        /\ m = "am_pm" => w.hour = 12 * x + (k % 12)
        /\ m \notin {"hour", "hour_12", "am_pm"} => w.hour = k
    BY <1>7, Zenon
  <2>4. m = "hour_12" => v \in 0 .. 11
    BY ValidPlain
  <2>5. h \div 12 \in Int /\ h % 12 \in Int
    <3> HIDE DEF h
    <3> QED BY <2>1, SMTT(10)
  <2> HIDE DEF h, k
  <2>6. CASE m = "hour_12"
    <3>1. k \div 12 = h \div 12 /\ x = h % 12
      <4>1. ((h \div 12) * 12 + v) \div 12 = h \div 12
        BY <1>1, <2>1, <2>4, <2>6, HalfDays, Zenon
      <4>2. k = (h \div 12) * 12 + v
        BY <2>2, <2>6, Zenon
      <4>3. x = h % 12
        BY <1>9, <2>6, Zenon DEF h
      <4> QED BY <4>1, <4>2, <4>3, Zenon
    <3> QED BY <2>1, <2>3, <2>6, <3>1 DEF h
  <2>7. CASE m = "am_pm"
    <3>1. k % 12 = h % 12 /\ x = h \div 12
      BY <1>1, <1>9, <2>1, <2>2, <2>7, HalfDays DEF h
    <3>2. w.hour = 12 * (h \div 12) + (h % 12)
      BY <2>3, <2>7, <3>1
    <3>3. 12 * (h \div 12) = (h \div 12) * 12
      BY <2>5, SMTT(10)
    <3> QED BY <2>1, <3>2, <3>3 DEF h
  <2>8. CASE m = "hour"
    BY <1>9, <2>3, <2>8
  <2>9. CASE m \notin {"hour", "hour_12", "am_pm"}
    BY <2>2, <2>3, <2>9 DEF h
  <2> QED BY <2>6, <2>7, <2>8, <2>9
<1> HIDE DEF f, g
<1>11. /\ w.year = f.year /\ w.mon = f.mon /\ w.mday = f.mday
       /\ w.min = f.min /\ w.sec = f.sec
  BY <1>7, <1>8, <1>9, Zenon
<1>12. internal_timegm(w) = internal_timegm(f)
  BY <1>3, <1>7, <1>10, <1>11, SixFields
<1> HIDE DEF u
<1> QED BY <1>5, <1>6, <1>7, <1>12, WrittenBack DEF f

\* The way back is as long as the way there.
LEMMA DaysBack ==
    ASSUME NEW c, Settled(c), NEW m \in RelativeMarks, NEW v, Valid(c, m, v), Possible(c, m, v),
           NEW d, d = SetTo(c, m, v)
    PROVE  DaysTo(d, m, Current(c)[m]) = -DaysTo(c, m, v)
<1> DEFINE x == Current(c)[m]
<1>1. v \in Int
  BY ValidRelative
<1>2. CASE m = "day_of_year"
  <2>1. v \in 1 .. days_in_year(c.tm.year)
    BY <1>2, ValidRelative
  <2>2. YearDayDone(c, v, d)
    BY <1>2, <2>1, YearDayIsDone
  <2>3. d.tm.yday = v - 1
    BY <2>2, Zenon DEF YearDayDone
  <2>4. c.tm.yday \in Int
    BY SettledFields, Zenon DEF Tm
  <2>5. x = c.tm.yday + 1
    BY <1>2, ShownFields, Zenon
  <2>6. /\ DaysTo(d, m, x) = x - (d.tm.yday + 1)
        /\ DaysTo(c, m, v) = v - (c.tm.yday + 1)
    BY <1>2, Zenon DEF DaysTo
  <2> HIDE DEF x
  <2> QED BY <1>1, <2>3, <2>4, <2>5, <2>6, SMTT(10) DEF x
<1>3. CASE m \in {"day_of_week", "day_of_week_local"}
  <2>1. v \in 1 .. 7
    BY <1>3, ValidRelative
  <2>2. WeekdayDone(c, m, v, d)
    BY <1>1, <1>3, <2>1, WeekdayIsDone
  <2> DEFINE p == LocalDow(c)
             q == LocalDow(d)
             k == DaysTo(c, m, v)
  <2>3. q = p + k /\ k \in -6 .. 6 /\ p \in 0 .. 6 /\ q \in 0 .. 6
    BY <2>2, SMTT(10) DEF WeekdayDone
  <2>4. d.fdow = c.fdow
    BY <2>2, SMTT(10) DEF WeekdayDone, DaysApart
  <2>5. DaysTo(d, m, x) = p - q
    <3>1. CASE m = "day_of_week"
      <4>1. x = c.tm.wday + 1
        BY <3>1, ShownFields, Zenon
      <4>2. c.tm.wday \in 0 .. 6 /\ c.fdow \in Weekdays
        BY SettledRanges, SMTT(10) DEF Settled, Shows, Calendar, Weekdays
      <4>3. ToLocalDow(x, c.fdow) = ((x - 1 - c.fdow) % 7) + 1
        <5>1. x \in Int
          BY <4>1, <4>2, SMTT(10)
        <5> HIDE DEF x
        <5> QED BY <4>2, <5>1, ToLocalDowIs
      <4>4. DaysTo(d, m, x) = ToLocalDow(x, c.fdow) - 1 - q
        BY <2>4, <3>1, Zenon DEF DaysTo
      <4>5. p = (c.tm.wday - c.fdow + 7) % 7
        BY Zenon DEF LocalDow
      <4> HIDE DEF x, p, q, k
      <4>6. (x - 1 - c.fdow) % 7 = p
        <5> DEFINE w == c.tm.wday
                   f == c.fdow
                   y == w - f
        <5>1. w \in Int /\ w >= 0 /\ w <= 6 /\ f \in Int /\ f >= 0 /\ f <= 6
          BY <4>2, SMTT(10) DEF Weekdays
        <5>2. x = w + 1 /\ p = (w - f + 7) % 7
          BY <4>1, <4>5
        <5>3. (x - 1 - f) % 7 = p
          <6> HIDE DEF w, f, y
          <6>1. x - 1 - f = y /\ w - f + 7 = y + 7 /\ y \in Int
            BY <5>1, <5>2, SMTT(10) DEF y
          <6>2. (y + 7) % 7 = y % 7
            BY <6>1, SMTT(10)
          <6> QED BY <5>2, <6>1, <6>2
        <5> QED BY <5>3
      <4>7. p \in Int /\ q \in Int
        BY <2>3, SMTT(10)
      <4> QED BY <4>3, <4>4, <4>6, <4>7, SMTT(10)
    <3>2. CASE m = "day_of_week_local"
      <4>1. x = p + 1
        BY <3>2, ShownFields, Zenon
      <4>2. DaysTo(d, m, x) = x - 1 - q
        BY <3>2, Zenon DEF DaysTo
      <4> HIDE DEF x, p, q, k
      <4>3. p \in Int /\ q \in Int
        BY <2>3, SMTT(10)
      <4> QED BY <4>1, <4>2, <4>3, SMTT(10)
    <3> QED BY <1>3, <3>1, <3>2
  <2> HIDE DEF p, q, k
  <2>6. DaysTo(d, m, x) = -k
    BY <2>3, <2>5, SMTT(10)
  <2> QED BY <2>6 DEF k
<1>4. CASE m \in WeekPeriods
  <2>1. WeekDone(c, m, v, d)
    <3>1. CASE m = "week_of_year"
      BY <3>1, WeekOfYearIsDone
    <3>2. CASE m \in {"week_of_month", "day_of_week_in_month"}
      BY <3>2, WeekOfMonthIsDone
    <3> QED BY <1>4, <3>1, <3>2 DEF WeekPeriods
  <2>2. Current(d)[m] = v
    BY <2>1, SMTT(10) DEF WeekDone
  <2>3. /\ DaysTo(d, m, x) = 7 * (x - Current(d)[m])
        /\ DaysTo(c, m, v) = 7 * (v - x)
    BY <1>4, SMTT(20) DEF DaysTo, WeekPeriods
  <2>4. x \in Int
    BY <1>1, <1>4, WeekMoves
  <2> HIDE DEF x
  <2> QED BY <1>1, <2>2, <2>3, <2>4, SMTT(10) DEF x
<1> QED BY <1>2, <1>3, <1>4 DEF RelativeMarks

LEMMA RelativeWrittenBack ==
    ASSUME NEW c, Settled(c), c.tm.year >= 2, NEW m \in RelativeMarks, NEW v, Valid(c, m, v),
           Possible(c, m, v), NEW d, d = SetTo(c, m, v), NEW e, e = SetTo(d, m, Current(c)[m])
    PROVE  e.time = c.time
<1> DEFINE x == Current(c)[m]
           k == DaysTo(c, m, v)
           j == DaysTo(d, m, x)
<1>1. m \in Periods /\ c \in Calendar /\ c.time \in Int
  BY DEF RelativeMarks, Periods, DayPeriods, WeekPeriods, Settled, Shows, Calendar
<1>2. Settled(d)
  BY <1>1, SetIsSettled
<1>3. v \in Int /\ x \in Int
  BY <1>1, ValidRelative, CurrentInt
<1>4. j = -k
  BY DaysBack
<1> HIDE DEF x, k, j
<1>5. d = normalize(ShiftDays(c, k)) /\ k \in Int
  BY <1>3, RelativeIsShift DEF k
<1>6. e = normalize(ShiftDays(d, j)) /\ j \in Int
  BY <1>2, <1>3, RelativeIsShift DEF j, x
<1>7. d.time = c.time + 86400 * k /\ e.time = d.time + 86400 * j
  <2>1. DaysApart(c, d, k) /\ DaysApart(d, e, j)
    BY <1>2, <1>5, <1>6, ShiftIsDone
  <2> QED BY <2>1, SMTT(10) DEF DaysApart
<1> QED BY <1>1, <1>4, <1>5, <1>7, SMTT(10)

\* What is rolled keeps the range that it is rolled through.
LEMMA SameMaximum ==
    ASSUME NEW c, Settled(c), NEW m \in Periods, NEW v, Valid(c, m, v), Possible(c, m, v),
           NEW d, d = SetTo(c, m, v)
    PROVE  ActualMaximum(d)[m] = ActualMaximum(c)[m]
<1>1. CASE m \notin {"day", "day_of_year", "week_of_year", "week_of_month", "day_of_week_in_month"}
  BY <1>1, ActualMaximumIs, SMTT(20)
<1>2. CASE m = "day"
  <2>1. PlainDone(c, m, v, d)
    BY <1>2, PlainIsDone DEF PlainMarks
  <2>2. d.tm.year = c.tm.year /\ d.tm.mon = c.tm.mon
    BY <1>2, <2>1, SMTT(10) DEF PlainDone
  <2>3. /\ ActualMaximum(c)[m] = days_in_month(c.tm.year, c.tm.mon + 1)
        /\ ActualMaximum(d)[m] = days_in_month(d.tm.year, d.tm.mon + 1)
    BY <1>2, ActualMaximumIs
  <2> QED BY <2>2, <2>3
<1>3. CASE m = "day_of_year"
  <2>1. v \in 1 .. days_in_year(c.tm.year)
    BY <1>3, ValidRelative DEF RelativeMarks
  <2>2. YearDayDone(c, v, d)
    BY <1>3, <2>1, YearDayIsDone
  <2>3. d.tm.year = c.tm.year
    BY <2>2, Zenon DEF YearDayDone
  <2>4. /\ ActualMaximum(c)[m] = days_in_year(c.tm.year)
        /\ ActualMaximum(d)[m] = days_in_year(d.tm.year)
    BY <1>3, ActualMaximumIs
  <2> QED BY <2>3, <2>4
<1>4. CASE m \in WeekPeriods
  <2> DEFINE k == DaysTo(c, m, v)
             i == v - Current(c)[m]
             w == c.tm.wday
  <2>1. WeekDone(c, m, v, d)
    <3>1. CASE m = "week_of_year"
      BY <3>1, WeekOfYearIsDone
    <3>2. CASE m \in {"week_of_month", "day_of_week_in_month"}
      BY <3>2, WeekOfMonthIsDone
    <3> QED BY <1>4, <3>1, <3>2 DEF WeekPeriods
  <2>2. /\ d.tm.wday = w /\ d.tm.year = c.tm.year
        /\ m = "week_of_year" => d.tm.yday = c.tm.yday + k
        /\ m \in {"week_of_month", "day_of_week_in_month"} =>
                d.tm.mon = c.tm.mon /\ d.tm.mday = c.tm.mday + k
    BY <2>1, SMTT(10) DEF WeekDone
  <2>3. d.fdow = c.fdow
    BY <2>1, SMTT(10) DEF WeekDone, DaysApart
  <2>4. k = 7 * i /\ i \in Int
    <3>1. v \in Int
      BY <1>4, ValidRelative DEF RelativeMarks
    <3>2. k = 7 * (v - Current(c)[m]) /\ Current(c)[m] \in Int
      BY <1>4, <3>1, WeekMoves
    <3> QED BY <3>1, <3>2
  <2>5. w \in Int /\ c.tm.yday \in Int /\ c.tm.mday \in Int /\ c.tm.year \in Int /\ c.tm.mon \in 0 .. 11
    <3>1. c.tm \in Tm /\ c.tm.mon \in 0 .. 11
      BY SettledFields, SettledRanges, ZenonT(40)
    <3> QED BY <3>1 DEF Tm
  <2> HIDE DEF k, i, w
  <2>6. ASSUME NEW x \in Int, NEW end \in Int
        PROVE  (end - (x + k) + w) % 7 = (end - x + w) % 7
    <3> DEFINE a == end - x + w
    <3>1. end - (x + k) + w = a + 7 * (-i) /\ a \in Int /\ -i \in Int
      BY <2>4, <2>5, SMTT(10)
    <3> HIDE DEF a
    <3>2. (a + 7 * (-i)) % 7 = a % 7
      BY <3>1, SMTT(10)
    <3> QED BY <3>1, <3>2 DEF a
  <2>7. CASE m = "week_of_year"
    <3> DEFINE end == days_in_year(c.tm.year) - 1
    <3>1. /\ ActualMaximum(c)[m] = get_week_number(end, (end - c.tm.yday + w) % 7, c.fdow)
          /\ ActualMaximum(d)[m] = get_week_number(end, (end - (c.tm.yday + k) + w) % 7, c.fdow)
      <4>1. /\ ActualMaximum(c)[m] = get_week_number(end, (end - c.tm.yday + c.tm.wday) % 7, c.fdow)
            /\ ActualMaximum(d)[m] = LET e == days_in_year(d.tm.year) - 1
                                     IN  get_week_number(e, (e - d.tm.yday + d.tm.wday) % 7, d.fdow)
        BY <2>7, ActualMaximumIs
      <4> QED BY <2>2, <2>3, <2>7, <4>1, Zenon DEF w
    <3>2. end \in Int
      BY LeapDayInt, SMTT(10) DEF days_in_year
    <3> HIDE DEF end
    <3>3. (end - (c.tm.yday + k) + w) % 7 = (end - c.tm.yday + w) % 7
      BY <2>5, <2>6, <3>2
    <3> QED BY <3>1, <3>3
  <2>8. CASE m = "week_of_month"
    <3> DEFINE end == days_in_month(c.tm.year, c.tm.mon + 1)
    <3>1. /\ ActualMaximum(c)[m] = get_week_number(end, (end - c.tm.mday + w) % 7, c.fdow)
          /\ ActualMaximum(d)[m] = get_week_number(end, (end - (c.tm.mday + k) + w) % 7, c.fdow)
      <4>1. /\ ActualMaximum(c)[m] = get_week_number(end, (end - c.tm.mday + c.tm.wday) % 7, c.fdow)
            /\ ActualMaximum(d)[m] = LET e == days_in_month(d.tm.year, d.tm.mon + 1)
                                     IN  get_week_number(e, (e - d.tm.mday + d.tm.wday) % 7, d.fdow)
        BY <2>8, ActualMaximumIs
      <4>2. d.tm.mon = c.tm.mon /\ d.tm.mday = c.tm.mday + k
        BY <2>2, <2>8
      <4> QED BY <2>2, <2>3, <4>1, <4>2, Zenon DEF w
    <3>2. end \in Int
      <4>1. end \in 28 .. 31
        BY <2>5, MonthsInOrder
      <4> HIDE DEF end
      <4> QED BY <4>1, SMTT(10)
    <3> HIDE DEF end
    <3>3. (end - (c.tm.mday + k) + w) % 7 = (end - c.tm.mday + w) % 7
      BY <2>5, <2>6, <3>2
    <3> QED BY <3>1, <3>3
  <2>9. CASE m = "day_of_week_in_month"
    <3>1. d.tm.mon = c.tm.mon /\ d.tm.year = c.tm.year
      BY <2>2, <2>9
    <3>2. /\ ActualMaximum(c)[m] = (IF c.tm.mon = 1 /\ ~is_leap(c.tm.year) THEN 4 ELSE 5)
          /\ ActualMaximum(d)[m] = (IF d.tm.mon = 1 /\ ~is_leap(d.tm.year) THEN 4 ELSE 5)
      BY <2>9, ActualMaximumIs
    <3> QED BY <3>1, <3>2
  <2> QED BY <1>4, <2>7, <2>8, <2>9 DEF WeekPeriods
<1> QED BY <1>1, <1>2, <1>3, <1>4 DEF WeekPeriods

\* A roll to a date that exists, taken back from a value in range.
LEMMA RollsBack ==
    ASSUME NEW c, Settled(c), c.tm.year >= 2, NEW m \in Periods, NEW n \in Int, CurrentInRange(c, m),
           Possible(c, m, RollValue(c, m, n))
    PROVE  Roll(Roll(c, m, n), m, -n).time = c.time
<1> DEFINE v == RollValue(c, m, n)
           d == SetTo(c, m, v)
           z == RollValue(d, m, -n)
           lo == Minimum(m)
           x == Current(c)[m] - lo
           r == RollRange(c, m)
<1>1. Valid(c, m, v) /\ Possible(c, m, v)
  BY RollIsValid
<1>2. Settled(d)
  <2> HIDE DEF v
  <2> QED BY <1>1, SetIsSettled
<1>3. Current(d)[m] = v
  <2> HIDE DEF v
  <2> QED BY <1>1, SetIsGot
<1>4. RollRange(d, m) = r
  <2>1. ActualMaximum(d)[m] = ActualMaximum(c)[m]
    <3> HIDE DEF v
    <3> QED BY <1>1, SameMaximum
  <2> QED BY <2>1, Zenon DEF RollRange
<1>5. r \in Nat \ {0} /\ x \in Int /\ v \in Int /\ lo \in Int /\ Congruent(v - lo, x + n, r)
  BY RollsTo
<1>6. x \in 0 .. r - 1
  BY DEF CurrentInRange
<1> HIDE DEF d, v
<1>7. -n \in Int
  OBVIOUS
<1>8. z \in Int /\ Congruent(z - lo, (v - lo) + (-n), r)
  <2>1. z \in Int /\ Congruent(z - lo, (Current(d)[m] - lo) + (-n), RollRange(d, m))
    BY <1>2, <1>7, RollsTo
  <2> QED BY <1>3, <1>4, <2>1
<1>9. z - lo = x
  <2> DEFINE w == v - lo
             y == z - lo
  <2>1. Congruent(w, x + n, r) /\ Congruent(y, w + (-n), r)
    BY <1>5, <1>8
  <2> HIDE DEF w, y, x, r
  <2>2. y = x
    BY <1>5, <1>6, <2>1, WrapsBack
  <2> QED BY <2>2 DEF y
<1>10. z = Current(c)[m]
  <2>1. Current(c)[m] \in Int
    BY CurrentInt DEF Settled, Shows
  <2> DEFINE y == Current(c)[m]
  <2>2. z - lo = y - lo /\ z \in Int /\ lo \in Int /\ y \in Int
    BY <1>5, <1>8, <1>9, <2>1
  <2> HIDE DEF z, lo, y
  <2>3. z = y
    BY <2>2, SMTT(10)
  <2> QED BY <2>3 DEF y
<1> DEFINE e == SetTo(d, m, Current(c)[m])
<1>11. d = SetTo(c, m, v) /\ Roll(c, m, n) = d /\ Roll(d, m, -n) = e
  BY <1>10, Zenon DEF d, v, Roll, SetTo
<1> HIDE DEF e, z
<1>12. e = SetTo(d, m, Current(c)[m])
  BY Zenon DEF e
<1>13. e.time = c.time
  <2>1. CASE m \in PlainMarks
    BY <1>1, <1>11, <1>12, <2>1, PlainWrittenBack
  <2>2. CASE m \in RelativeMarks
    BY <1>1, <1>11, <1>12, <2>2, RelativeWrittenBack
  <2> QED BY <2>1, <2>2 DEF Periods, PlainMarks, RelativeMarks, DayPeriods
<1> QED BY <1>11, <1>13

-----------------------------------------------------------------------------
(* The laws, on every day of a walk. *)

\* In one zone a later instant is shown in no earlier year.
LEMMA LaterIsShownLater ==
    ASSUME NEW c, Shows(c), c.tm.year >= 1, NEW d, Shows(d), d.local = c.local, d.tzoff = c.tzoff,
           c.time <= d.time
    PROVE  c.tm.year \in Int /\ d.tm.year \in Int /\ c.tm.year <= d.tm.year
<1> DEFINE t == LocalTime(c)
           s == LocalTime(d)
<1>1. /\ c.time \in Int /\ c.tzoff \in Int /\ Shift(c) \in Int /\ c.tm = gmtime(t)
      /\ d.time \in Int /\ d.tm = gmtime(s)
  BY FieldsAndPoint, Zenon DEF Shows, LocalTime
<1>2. Shift(d) = Shift(c)
  BY Zenon DEF Shift
<1>3. t \in Int /\ s \in Int /\ t <= s
  BY <1>1, <1>2, SMTT(10) DEF LocalTime
<1> HIDE DEF t, s
<1>4. /\ c.tm.year = YearOf(t) /\ c.tm.year \in Int
      /\ d.tm.year = YearOf(s) /\ d.tm.year \in Int
  <2>1. gmtime(t).year = YearOf(t) /\ gmtime(s).year = YearOf(s)
    BY <1>3, GmtimeIs
  <2>2. YearOf(t) \in Int /\ YearOf(s) \in Int
    BY <1>3, PartsRange, Zenon
  <2> QED BY <1>1, <2>1, <2>2
<1>5. YearOf(s) >= YearOf(t)
  BY <1>3, <1>4, LaterYear, SMTT(10)
<1> QED BY <1>4, <1>5, SMTT(10)

\* A day from which every amount and every distance stays within the tables of days.
Roomy(c) ==
    /\ Settled(c) /\ c.tm.year >= 2
    /\ \A n \in Steps : c.tm.year + n >= 1
    /\ \A s \in Deltas : At(c.fdow, c.local, c.tzoff, c.time + s).tm.year >= 2

LEMMA WalkStartsRoomy ==
    ASSUME WalkInit
    PROVE  Roomy(walker)
<1> DEFINE c == walker
<1>1. PICK w \in Walks : c = At(w.fdow, w.local, w.tzoff, w.time)
  BY DEF WalkInit
<1>2. w.fdow \in 0 .. 6 /\ w.local \in BOOLEAN /\ w.tzoff \in Int /\ w.time \in Int
  BY WalksAssumption DEF WalksStartInLimits
<1>3. /\ Shows(c) /\ c.normalized /\ c.fdow = w.fdow /\ c.local = w.local /\ c.tzoff = w.tzoff
      /\ c.time = w.time
  BY <1>1, <1>2, AtShows
<1> DEFINE Year(s) == At(w.fdow, w.local, w.tzoff, w.time + s).tm.year
<1>4. /\ Year(0) >= 2
      /\ \A n \in Steps : Year(0) + n >= 1
      /\ \A s \in Deltas : Year(s) >= 2
  BY WalksAssumption, Zenon
<1>5. Year(0) = c.tm.year
  <2>1. w.time + 0 = w.time
    BY <1>2
  <2> QED BY <1>1, <2>1
<1>6. \A s \in Deltas : Year(s) = At(c.fdow, c.local, c.tzoff, c.time + s).tm.year
  BY <1>3
<1> HIDE DEF Year
<1>7. c.tm.year \in Int
  BY <1>3 DEF Shows, Calendar, Tm
<1>8. c.tm.year >= 2 /\ c.tm.year >= 1
  BY <1>4, <1>5, <1>7, SMTT(10)
<1> QED BY <1>3, <1>4, <1>5, <1>6, <1>8 DEF Roomy, Settled

LEMMA NextDayIsRoomy ==
    ASSUME Roomy(walker), NextDay
    PROVE  Roomy(walker')
<1> DEFINE c == walker
           d == Move(c, "day", 1)
<1>1. /\ Settled(c) /\ Shows(c) /\ c.normalized /\ c.tm.year >= 1
      /\ c.time \in Int /\ c.tzoff \in Int /\ c.fdow \in 0 .. 6 /\ c.local \in BOOLEAN
      /\ c.tm.year \in Int
  BY DEF Roomy, Settled, Shows, Calendar, Tm
<1>2. Shows(d) /\ d.normalized
  <2>1. "day" \in Periods
    BY DEF Periods, DayPeriods
  <2>2. Shows(MovePending(c, "day", 1))
    BY <1>1, <2>1, MoveTyped, PendingShows DEF Shows
  <2> QED BY <2>2, NormalizeShows DEF Move
<1>3. d.time = c.time + 86400 /\ d.local = c.local /\ d.tzoff = c.tzoff
  BY <1>1, MovingDaysIsExact, SMTT(10)
<1>4. walker' = d
  BY DEF NextDay
<1> HIDE DEF d
<1>5. d.tm.year \in Int /\ d.fdow \in 0 .. 6
  BY <1>2 DEF Shows, Calendar, Tm
<1>6. c.tm.year <= d.tm.year
  <2>1. c.time <= d.time
    BY <1>1, <1>3, SMTT(10)
  <2> QED BY <1>1, <1>2, <1>3, <2>1, LaterIsShownLater
<1>7. d.tm.year >= 2 /\ d.tm.year >= 1
  BY <1>1, <1>5, <1>6, SMTT(10) DEF Roomy
<1>8. ASSUME NEW n \in Steps
      PROVE  d.tm.year + n >= 1
  <2>1. n \in Int /\ c.tm.year + n >= 1
    BY StepsAssumption DEF Roomy
  <2> QED BY <1>1, <1>5, <1>6, <2>1, SMTT(10)
<1>9. ASSUME NEW s \in Deltas
      PROVE  At(d.fdow, d.local, d.tzoff, d.time + s).tm.year >= 2
  <2> DEFINE a == At(c.fdow, c.local, c.tzoff, c.time + s)
             b == At(d.fdow, d.local, d.tzoff, d.time + s)
  <2>1. s \in Int /\ a.tm.year >= 2
    BY DeltasAssumption DEF Roomy
  <2>2. c.time + s \in Int /\ d.time + s \in Int /\ c.time + s <= d.time + s
    BY <1>1, <1>3, <2>1, SMTT(10)
  <2>3. /\ Shows(a) /\ a.local = c.local /\ a.tzoff = c.tzoff /\ a.time = c.time + s
    BY <1>1, <2>2, AtShows
  <2>4. /\ Shows(b) /\ b.local = d.local /\ b.tzoff = d.tzoff /\ b.time = d.time + s
    BY <1>1, <1>3, <1>5, <2>2, AtShows
  <2> HIDE DEF a, b
  <2>5. a.tm.year \in Int
    BY <2>3 DEF Shows, Calendar, Tm
  <2>6. a.tm.year >= 1
    BY <2>1, <2>5, SMTT(10)
  <2>7. b.tm.year \in Int /\ a.tm.year <= b.tm.year
    BY <1>3, <2>2, <2>3, <2>4, <2>6, LaterIsShownLater
  <2>8. b.tm.year >= 2
    BY <2>1, <2>5, <2>7, SMTT(10)
  <2> QED BY <2>8 DEF b
<1> QED BY <1>2, <1>4, <1>7, <1>8, <1>9 DEF Roomy, Settled

WalkIsRoomy == part = "walk" => Roomy(walker)

LEMMA WalkAlwaysRoomy == DatesSpec => []WalkIsRoomy
<1>1. DatesInit => WalkIsRoomy
  BY WalkStartsRoomy DEF DatesInit, WalkIsRoomy
<1>2. WalkIsRoomy /\ [DatesNext]_<<part, vars, walkVars>> => WalkIsRoomy'
  <2>1. ASSUME WalkIsRoomy, part = "walk", NextDay, UNCHANGED part
        PROVE  WalkIsRoomy'
    BY <2>1, NextDayIsRoomy DEF WalkIsRoomy
  <2>2. ASSUME WalkIsRoomy, UNCHANGED <<part, walker>>
        PROVE  WalkIsRoomy'
    BY <2>2 DEF WalkIsRoomy, Roomy, Settled, Shows, Fields
  <2> QED BY <2>1, <2>2 DEF DatesNext, walkVars
<1> QED BY <1>1, <1>2, PTL DEF DatesSpec

-----------------------------------------------------------------------------
(* The laws themselves. *)

LEMMA MovesAreUndone ==
    ASSUME Roomy(walker)
    PROVE  MoveIsUndone
<1> SUFFICES ASSUME NEW m \in Periods, NEW n \in Steps, EasyToMove(walker, m)
             PROVE  Move(Move(walker, m, n), m, -n).time = walker.time
  BY DEF MoveIsUndone
<1>1. n \in Int /\ Settled(walker) /\ walker.tm.year + n >= 1
  BY StepsAssumption DEF Roomy
<1> QED BY <1>1, MovesBack

LEMMA RollsKeepOtherFields ==
    ASSUME Roomy(walker)
    PROVE  RollKeepsOtherFields
<1> SUFFICES ASSUME NEW m \in Periods, NEW n \in Steps, Exists(m, RollValue(walker, m, n))
             PROVE  KeepsOthers(walker, Roll(walker, m, n), m)
  BY DEF RollKeepsOtherFields
<1> DEFINE v == RollValue(walker, m, n)
<1>1. n \in Int /\ Settled(walker)
  BY StepsAssumption DEF Roomy
<1>2. Possible(walker, m, v)
  BY ExistsIsPossible
<1> QED BY <1>1, <1>2, RollKeeps

LEMMA RollsAreUndone ==
    ASSUME Roomy(walker)
    PROVE  RollIsUndone
<1> SUFFICES ASSUME NEW m \in Periods, NEW n \in Steps, CurrentInRange(walker, m),
                    Exists(m, RollValue(walker, m, n))
             PROVE  Roll(Roll(walker, m, n), m, -n).time = walker.time
  BY DEF RollIsUndone
<1>1. n \in Int /\ Settled(walker) /\ walker.tm.year >= 2
  BY StepsAssumption DEF Roomy
<1>2. Possible(walker, m, RollValue(walker, m, n))
  BY ExistsIsPossible
<1> QED BY <1>1, <1>2, RollsBack

LEMMA DifferencesAreWhole ==
    ASSUME Roomy(walker)
    PROVE  DifferencesFit
<1> DEFINE c == walker
<1> SUFFICES ASSUME NEW m \in Periods, NEW s \in Deltas,
                    NEW other, other = At(c.fdow, c.local, c.tzoff, c.time + s)
             PROVE  Fits(c, other, m, difference(c, other, m))
  BY Zenon DEF DifferencesFit
<1>1. /\ s \in Int /\ Settled(c) /\ c.tm.year >= 2 /\ other.tm.year >= 2
  BY DeltasAssumption DEF Roomy
<1>2. /\ Shows(other) /\ other.normalized /\ other.time = c.time + s /\ other.tzoff = c.tzoff
      /\ Shift(other) = Shift(c) /\ LocalTime(other) = LocalTime(c) + s
  BY <1>1, OtherEnd
<1>3. other.tm.year >= 1
  <2>1. other.tm.year \in Int
    BY <1>2 DEF Shows, Calendar, Tm
  <2> QED BY <1>1, <2>1, SMTT(10)
<1>4. InReach(c, other)
  BY <1>1, <1>2, <1>3 DEF InReach, Settled
<1> QED BY <1>1, <1>2, <1>4, DifferencesAreCounted

\* On every day that a walk reaches, for every zone, first day of the week, year and
\* value: a field that is set is got again wherever such a date exists, a weekday is
\* set within its local week, a move by any amount of any period is taken back by
\* the move of as much (adjust_value, gregorian.cpp:506), and a month out of range
\* carries into its year (set_value, 144, and internal_timegm, 69).
THEOREM WritesAreAlwaysRead == DatesSpec => []WritesAreRead
<1>1. WalkIsRoomy => WritesAreRead
  <2> SUFFICES ASSUME Roomy(walker)
               PROVE  SetThenGet /\ SettingWeekdayStaysInWeek /\ MoveIsUndone /\ MonthsCarry
    BY DEF WalkIsRoomy, WritesAreRead
  <2>1. Settled(walker) /\ WalkInv
    BY DEF Roomy, Settled, WalkInv
  <2> QED BY <2>1, SetIsGotOnWalk, WeekdayStays, MovesAreUndone, WalkInvCarries
<1> QED BY <1>1, WalkAlwaysRoomy, PTL

\* On every such day, for every period and amount, a roll to a date that exists
\* leaves the fields alone that it must not change ("not effecting others",
\* date_time_facet.hpp:112; adjust_value with roll, gregorian.cpp:546), and rolling
\* back by as much returns to the same instant.
THEOREM RollsAlwaysStayInField == DatesSpec => []RollsStayInField
<1>1. WalkIsRoomy => RollsStayInField
  BY RollsKeepOtherFields, RollsAreUndone DEF WalkIsRoomy, RollsStayInField
<1> QED BY <1>1, WalkAlwaysRoomy, PTL

\* On every such day, also the last ones of a month and 29 February, in every zone,
\* the difference to another instant, before or after, is the number of whole
\* periods that lie between: moving by it does not pass the other end, moving by one
\* more does, where a month that is too short for the day counts once it is over
\* (get_diff and difference, gregorian.cpp:564).
THEOREM DifferencesAlwaysFit == DatesSpec => []DifferenceFits
<1>1. WalkIsRoomy => DifferenceFits
  BY DifferencesAreWhole DEF WalkIsRoomy, DifferenceFits
<1> QED BY <1>1, WalkAlwaysRoomy, PTL

-----------------------------------------------------------------------------
(* What a period set has asked for. *)

ClockOf(u) == IsClock(u.hour, u.min, u.sec)

\* The clock is shown whatever the date beside it denotes.
LEMMA ClockIsShown ==
    ASSUME NEW u \in Tm, ClockOf(u), NEW g, g = gmtime(internal_timegm(u))
    PROVE  g.hour = u.hour /\ g.min = u.min /\ g.sec = u.sec
<1> DEFINE carry == IF u.mon > 11 THEN u.mon \div 12
                    ELSE IF u.mon < 0 THEN -((11 - u.mon) \div 12) ELSE 0
           year  == u.year + carry
           month == u.mon - 12 * carry + 1
           days  == days_from_0(year) - days_from_0(1970) + days_from_1jan(year, month, u.mday)
           t == internal_timegm(u)
<1>1. /\ u.hour \in Int /\ u.min \in Int /\ u.sec \in Int /\ u.mon \in Int /\ u.year \in Int /\ u.mday \in Int
  BY DEF Tm
<1>2. days \in Int
  <2>1. carry \in Int /\ month \in 1 .. 12
    BY <1>1, MonthInRange
  <2> HIDE DEF carry, month
  <2>2. year \in Int
    BY <1>1, <2>1
  <2> HIDE DEF year
  <2>3. days_from_0(year) \in Int /\ days_from_0(1970) \in Int /\ days_from_1jan(year, month, u.mday) \in Int
    BY <1>1, <2>1, <2>2, DaysFrom0Int, DaysFrom1JanInt, SMTT(10)
  <2> QED BY <2>3
<1>3. t = 86400 * days + 3600 * u.hour + 60 * u.min + u.sec
  BY SMTT(10) DEF internal_timegm
<1> HIDE DEF days, t
<1>4. t = InstantAt(days, u.hour, u.min, u.sec)
  BY <1>1, <1>2, <1>3, SMTT(10) DEF InstantAt
<1>5. t \in Int /\ HourOf(t) = u.hour /\ MinuteOf(t) = u.min /\ SecondOf(t) = u.sec
  BY <1>2, <1>4, ClockIsRead, SMTT(10) DEF ClockOf
<1>6. g = [year |-> YearOf(t), mon |-> MonthOf(t), mday |-> MonthDayOf(t), hour |-> HourOf(t),
           min |-> MinuteOf(t), sec |-> SecondOf(t), wday |-> WeekDayOf(t), yday |-> YearDayOf(t)]
  BY <1>5, GmtimeIs, Zenon DEF t
<1> QED BY <1>5, <1>6

\* Normalizing keeps the clock that is pending, and the date if it exists.
LEMMA PendingIsShown ==
    ASSUME NEW c, Shows(c), ClockOf(c.upd), NEW d, d = normalize(c)
    PROVE  /\ Shows(d) /\ d.normalized /\ d.upd = d.tm /\ d.upd \in Tm
           /\ d.tm.hour = c.upd.hour /\ d.tm.min = c.upd.min /\ d.tm.sec = c.upd.sec
           /\ IsDate(c.upd.year, c.upd.mon, c.upd.mday) =>
                d.tm.year = c.upd.year /\ d.tm.mon = c.upd.mon /\ d.tm.mday = c.upd.mday
<1>1. Shows(d) /\ d.normalized /\ d.upd = d.tm /\ d.upd \in Tm /\ c.upd \in Tm
  BY NormalizeShows DEF Shows, Calendar
<1>2. CASE c.normalized
  BY <1>1, <1>2 DEF normalize, Shows
<1>3. CASE ~c.normalized
  <2> DEFINE u == c.upd
             g == gmtime(internal_timegm(u))
  <2>1. /\ d.time = Point(c) - c.tzoff /\ d.local = c.local /\ d.tzoff = c.tzoff
    BY <1>3 DEF normalize, Shows, Calendar
  <2>2. /\ Point(c) = internal_timegm(u) - Shift(c) /\ Shift(c) \in Int /\ c.tzoff \in Int
        /\ internal_timegm(u) \in Int
    BY <1>1, FieldsAndPoint, TimegmInt DEF Shows
  <2>3. Shift(d) = Shift(c)
    BY <2>1 DEF Shift
  <2>4. d.time + d.tzoff + Shift(d) = internal_timegm(u)
    BY <2>1, <2>2, <2>3, SMTT(10)
  <2>5. d.tm = gmtime(d.time + d.tzoff + Shift(d))
    BY <1>1, FieldsAndPoint DEF Shows
  <2>6. d.tm = g
    BY <2>4, <2>5
  <2> HIDE DEF g
  <2>7. g.hour = u.hour /\ g.min = u.min /\ g.sec = u.sec
    BY <1>1, ClockIsShown DEF g
  <2>8. IsDate(u.year, u.mon, u.mday) => g.year = u.year /\ g.mon = u.mon /\ g.mday = u.mday
    BY <1>1, GmtimeInvertsTimegm, Zenon DEF g, ClockOf
  <2> QED BY <1>1, <2>6, <2>7, <2>8
<1> QED BY <1>2, <1>3

\* The field that a mark names.
FieldOf(u, m) ==
    CASE m = "year" -> u.year
      [] m = "month" -> u.mon
      [] m = "day" -> u.mday
      [] m = "hour" -> u.hour
      [] m = "hour_12" -> u.hour % 12
      [] m = "am_pm" -> u.hour \div 12
      [] m = "minute" -> u.min
      [] m = "second" -> u.sec

LEMMA FieldIsCurrent ==
    ASSUME NEW c, NEW m \in PlainMarks
    PROVE  Current(c)[m] = FieldOf(c.tm, m)
  BY SMTT(20) DEF Current, FieldOf, PlainMarks, ClockPeriods

LEMMA PlainInRange ==
    ASSUME NEW m \in PlainMarks, NEW v \in Int, InRange(<<m, v>>)
    PROVE  /\ m = "year" => v >= 1
           /\ m = "hour" => v \in 0 .. 23
           /\ m = "hour_12" => v \in 0 .. 11
           /\ m = "am_pm" => v \in 0 .. 1
           /\ m \in {"minute", "second"} => v \in 0 .. 59
<1>1. v >= Minimum(m) /\ v <= AbsoluteMaximum[m]
  BY DEF InRange
<1>2. CASE m = "year"
  BY <1>1, <1>2, SMTT(10) DEF Minimum
<1>3. CASE m \in ClockPeriods
  <2>1. Minimum(m) = 0
    BY <1>3 DEF Minimum, ClockPeriods, DayPeriods, WeekPeriods
  <2>2. /\ AbsoluteMaximum["hour"] = 23 /\ AbsoluteMaximum["hour_12"] = 11 /\ AbsoluteMaximum["am_pm"] = 1
        /\ AbsoluteMaximum["minute"] = 59 /\ AbsoluteMaximum["second"] = 59
    BY SMTT(20) DEF AbsoluteMaximum, LeastMaximum
  <2> QED BY <1>1, <1>3, <2>1, <2>2 DEF ClockPeriods
<1>4. CASE m \in {"month", "day"}
  BY <1>4
<1> QED BY <1>2, <1>3, <1>4 DEF PlainMarks

\* Writing a field leaves a clock, and the fields of the marks that share none
\* with it.
WrittenWell(u, m, v, w) ==
    /\ w \in Tm /\ ClockOf(w)
    /\ FieldOf(w, m) = v
    /\ \A p \in PlainMarks \ {m} : ~SameClock(p, m) => FieldOf(w, p) = FieldOf(u, p)

LEMMA WritingIsRead ==
    ASSUME NEW u \in Tm, ClockOf(u), NEW m \in PlainMarks, NEW v \in Int, InRange(<<m, v>>),
           NEW w, w = Written(u, m, v)
    PROVE  WrittenWell(u, m, v, w)
<1> DEFINE h == u.hour
<1>1. h \in 0 .. 23 /\ u.min \in 0 .. 59 /\ u.sec \in 0 .. 59
  BY DEF ClockOf, IsClock
<1>2. /\ w \in Tm
      /\ w.year = IF m = "year" THEN v ELSE u.year
      /\ w.mon = IF m = "month" THEN v ELSE u.mon
      /\ w.mday = IF m = "day" THEN v ELSE u.mday
      /\ w.hour = IF m = "hour" THEN v
                  ELSE IF m = "hour_12" THEN (h \div 12) * 12 + v
                  ELSE IF m = "am_pm" THEN 12 * v + (h % 12) ELSE h
      /\ w.min = IF m = "minute" THEN v ELSE u.min
      /\ w.sec = IF m = "second" THEN v ELSE u.sec
  BY <1>1, WrittenFields, SMTT(10)
<1>3. /\ m = "hour" => v \in 0 .. 23
      /\ m = "hour_12" => v \in 0 .. 11
      /\ m = "am_pm" => v \in 0 .. 1
      /\ m \in {"minute", "second"} => v \in 0 .. 59
  BY PlainInRange
<1> HIDE DEF h
<1>4. CASE m \notin {"hour", "hour_12", "am_pm"}
  <2>1. w.hour = h
    BY <1>2, <1>4
  <2>2. ClockOf(w)
    BY <1>1, <1>2, <1>3, <1>4, <2>1 DEF ClockOf, IsClock
  <2>3. FieldOf(w, m) = v
    BY <1>2, <1>4 DEF FieldOf, PlainMarks, ClockPeriods
  <2>4. \A p \in PlainMarks \ {m} : FieldOf(w, p) = FieldOf(u, p)
    BY <1>2, <2>1 DEF FieldOf, PlainMarks, ClockPeriods, h
  <2> QED BY <1>2, <2>2, <2>3, <2>4 DEF WrittenWell
<1>5. CASE m \in {"hour", "hour_12", "am_pm"}
  <2>1. w.year = u.year /\ w.mon = u.mon /\ w.mday = u.mday /\ w.min = u.min /\ w.sec = u.sec
    BY <1>2, <1>5
  <2>2. \A p \in PlainMarks \ {"hour", "hour_12", "am_pm"} : FieldOf(w, p) = FieldOf(u, p)
    BY <2>1 DEF FieldOf, PlainMarks, ClockPeriods
  <2>3. /\ FieldOf(w, "hour") = w.hour /\ FieldOf(w, "hour_12") = w.hour % 12
        /\ FieldOf(w, "am_pm") = w.hour \div 12
        /\ FieldOf(u, "hour_12") = h % 12 /\ FieldOf(u, "am_pm") = h \div 12
    BY DEF FieldOf, h
  <2>4. CASE m = "hour"
    <3>1. w.hour = v /\ v \in 0 .. 23
      BY <1>2, <1>3, <2>4
    <3>2. \A p \in {"hour_12", "am_pm"} : SameClock(p, m)
      BY <2>4 DEF SameClock
    <3> QED BY <1>1, <1>2, <2>1, <2>2, <2>3, <2>4, <3>1, <3>2 DEF WrittenWell, ClockOf, IsClock
  <2>5. CASE m = "hour_12"
    <3>1. w.hour = (h \div 12) * 12 + v /\ v \in 0 .. 11 /\ h \div 12 \in 0 .. 1
      BY <1>1, <1>2, <1>3, <2>5, TwelveHours
    <3>2. w.hour \in 0 .. 23 /\ w.hour % 12 = v /\ w.hour \div 12 = h \div 12
      <4> DEFINE q == h \div 12
      <4>1. w.hour = q * 12 + v /\ v \in 0 .. 11 /\ q \in 0 .. 1
        BY <3>1
      <4> HIDE DEF q
      <4>2. w.hour \in 0 .. 23 /\ w.hour % 12 = v /\ w.hour \div 12 = q
        BY <4>1, SMTT(10)
      <4> QED BY <4>2 DEF q
    <3>3. SameClock("hour", m)
      BY <2>5 DEF SameClock
    <3> QED BY <1>1, <1>2, <2>1, <2>2, <2>3, <2>5, <3>2, <3>3 DEF WrittenWell, ClockOf, IsClock
  <2>6. CASE m = "am_pm"
    <3>1. w.hour = 12 * v + (h % 12) /\ v \in 0 .. 1 /\ h % 12 \in 0 .. 11
      BY <1>1, <1>2, <1>3, <2>6, TwelveHours
    <3>2. w.hour \in 0 .. 23 /\ w.hour \div 12 = v /\ w.hour % 12 = h % 12
      <4> DEFINE q == h % 12
      <4>1. w.hour = 12 * v + q /\ v \in 0 .. 1 /\ q \in 0 .. 11
        BY <3>1
      <4> HIDE DEF q
      <4>2. w.hour \in 0 .. 23 /\ w.hour \div 12 = v /\ w.hour % 12 = q
        BY <4>1, SMTT(10)
      <4> QED BY <4>2 DEF q
    <3>3. SameClock("hour", m)
      BY <2>6 DEF SameClock
    <3> QED BY <1>1, <1>2, <2>1, <2>2, <2>3, <2>6, <3>2, <3>3 DEF WrittenWell, ClockOf, IsClock
  <2> QED BY <1>5, <2>4, <2>5, <2>6
<1> QED BY <1>4, <1>5

\* The elements of a set, and which of them still count.
AllInRange(a) == \A i \in DOMAIN a : InRange(a[i])
Again(a, i) == \E j \in i + 1 .. Len(a) : a[j][1] = a[i][1]
MarksOf(a) == {a[i][1] : i \in DOMAIN a}
Alone(a, m) == \A p \in MarksOf(a) : ~SameClock(m, p)
DateMarks == {"year", "month", "day"}
LastMarks == {"day_of_year", "day_of_week", "day_of_week_local"}

\* What is pending after the elements a were set on a calendar that had nothing
\* pending.
ClockHeld(a, c) ==
    \A i \in DOMAIN a :
        a[i][1] \in ClockPeriods /\ Alone(a, a[i][1]) /\ ~Again(a, i)
            => FieldOf(c.upd, a[i][1]) = a[i][2]
DateHeld(a, c) ==
    MarksOf(a) \cap RelativeMarks = {} =>
        /\ c.upd.year >= 1
        /\ \A i \in DOMAIN a :
              a[i][1] \in DateMarks /\ ~Again(a, i) => FieldOf(c.upd, a[i][1]) = a[i][2]
LastHeld(a, c) ==
    a # <<>> /\ a[Len(a)][1] \in LastMarks =>
        \E b : Settled(b) /\ c = set_value(b, a[Len(a)][1], a[Len(a)][2])
Held(a, c) == ClockOf(c.upd) /\ ClockHeld(a, c) /\ DateHeld(a, c) /\ LastHeld(a, c)

LEMMA NothingHeld ==
    ASSUME NEW c, Settled(c)
    PROVE  Held(<<>>, c)
<1>1. ClockOf(c.upd) /\ c.upd.year >= 1
  BY SettledIsDate DEF ClockOf, Settled
<1> QED BY <1>1 DEF Held, ClockHeld, DateHeld, LastHeld

\* One element more.
Adds(a, m, v, b) ==
    /\ Len(b) = Len(a) + 1 /\ Len(a) \in Nat /\ b # <<>> /\ b[Len(b)] = <<m, v>>
    /\ DOMAIN b = 1 .. Len(a) + 1 /\ DOMAIN a = 1 .. Len(a)
    /\ \A i \in DOMAIN a : /\ b[i] = a[i] /\ a[i][1] \in Periods /\ a[i][2] \in Int
                           /\ ~Again(b, i) => ~Again(a, i) /\ a[i][1] # m
    /\ MarksOf(b) = MarksOf(a) \cup {m}

LEMMA OneMore ==
    ASSUME NEW a \in Seq(Periods \X Int), NEW m \in Periods, NEW v \in Int, NEW b, b = Append(a, <<m, v>>)
    PROVE  Adds(a, m, v, b)
<1>1. /\ Len(b) = Len(a) + 1 /\ Len(a) \in Nat /\ b # <<>> /\ b[Len(b)] = <<m, v>>
      /\ DOMAIN b = 1 .. Len(a) + 1 /\ DOMAIN a = 1 .. Len(a)
      /\ \A i \in DOMAIN a : b[i] = a[i]
  OBVIOUS
<1>2. \A i \in DOMAIN a : a[i][1] \in Periods /\ a[i][2] \in Int
  OBVIOUS
<1>3. ASSUME NEW i \in DOMAIN a, ~Again(b, i)
      PROVE  ~Again(a, i) /\ a[i][1] # m
  <2>1. \A j \in i + 1 .. Len(a) + 1 : b[j][1] # b[i][1]
    BY <1>1, <1>3 DEF Again
  <2>2. i \in Nat /\ i <= Len(a) /\ i >= 1
    BY <1>1
  <2>3. \A j \in i + 1 .. Len(a) : a[j][1] # a[i][1]
    <3> TAKE j \in i + 1 .. Len(a)
    <3>1. j \in DOMAIN a /\ j \in i + 1 .. Len(a) + 1
      BY <1>1, <2>2
    <3> QED BY <1>1, <2>1, <3>1
  <2>4. b[Len(b)][1] # b[i][1]
    <3>1. Len(b) \in i + 1 .. Len(a) + 1
      BY <1>1, <2>2
    <3> QED BY <2>1, <3>1
  <2>5. b[Len(b)][1] = m
    BY <1>1
  <2> QED BY <1>1, <2>3, <2>4, <2>5 DEF Again
<1>4. MarksOf(b) = MarksOf(a) \cup {m}
  <2>1. Len(b) \in DOMAIN b /\ b[Len(b)][1] = m /\ DOMAIN a \subseteq DOMAIN b
    BY <1>1
  <2>2. \A i \in DOMAIN b : i = Len(b) \/ i \in DOMAIN a
    BY <1>1
  <2> QED BY <1>1, <2>1, <2>2, ZenonT(40) DEF MarksOf
<1> QED BY <1>1, <1>2, <1>3, <1>4, Zenon DEF Adds

\* A mark that names a field writes it and leaves the others.
LEMMA PlainHeld ==
    ASSUME NEW a \in Seq(Periods \X Int), NEW c, Shows(c), Held(a, c),
           NEW m \in PlainMarks, NEW v \in Int, InRange(<<m, v>>),
           NEW b, b = Append(a, <<m, v>>), NEW d, d = set_value(c, m, v)
    PROVE  Held(b, d)
<1> DEFINE u == c.upd
           w == Written(u, m, v)
<1>1. c \in Calendar /\ u \in Tm /\ ClockOf(u)
  BY DEF Shows, Calendar, Held
<1>2. WrittenWell(u, m, v, w)
  BY <1>1, WritingIsRead
<1>3. d.upd = w
  <2>1. set_value(c, m, v) = SetPlain(c, m, v)
    BY DEF set_value, RelativeMarks, WeekPeriods, PlainMarks, ClockPeriods
  <2>2. SetPlain(c, m, v) = Pending(c, w)
    BY Zenon DEF SetPlain, Written
  <2> HIDE DEF w
  <2>3. Pending(c, w).upd = w
    BY <1>1 DEF Pending, Calendar
  <2> QED BY <2>1, <2>2, <2>3
<1> HIDE DEF u, w
<1>4. ClockOf(w) /\ FieldOf(w, m) = v
  BY <1>2 DEF WrittenWell
<1>5. ASSUME NEW p \in PlainMarks, p # m, ~SameClock(p, m)
      PROVE  FieldOf(w, p) = FieldOf(u, p)
  BY <1>2, <1>5 DEF WrittenWell
<1>6. m \in Periods
  BY DEF PlainMarks, Periods, DayPeriods
<1>7. /\ Len(b) = Len(a) + 1 /\ Len(a) \in Nat /\ b # <<>> /\ b[Len(b)] = <<m, v>>
      /\ DOMAIN b = 1 .. Len(a) + 1 /\ DOMAIN a = 1 .. Len(a)
      /\ \A i \in DOMAIN a : /\ b[i] = a[i] /\ a[i][1] \in Periods /\ a[i][2] \in Int
                             /\ ~Again(b, i) => ~Again(a, i) /\ a[i][1] # m
      /\ MarksOf(b) = MarksOf(a) \cup {m}
  <2>1. Adds(a, m, v, b)
    BY <1>6, OneMore, Zenon
  <2> QED BY <2>1, Zenon DEF Adds
<1>8. b[Len(b)][1] = m /\ b[Len(b)][2] = v
  BY <1>7
<1>9. \A i \in DOMAIN b : i \in DOMAIN a \/ i = Len(b)
  BY <1>7
<1>10. ASSUME NEW i \in DOMAIN b, b[i][1] \in PlainMarks, ~Again(b, i), i \in DOMAIN a => ~SameClock(b[i][1], m),
              i \in DOMAIN a => FieldOf(u, a[i][1]) = a[i][2]
       PROVE  FieldOf(d.upd, b[i][1]) = b[i][2]
  <2>1. CASE i = Len(b)
    BY <1>3, <1>4, <1>8, <2>1
  <2>2. CASE i \in DOMAIN a
    <3>1. b[i] = a[i] /\ a[i][1] # m
      BY <1>7, <1>10, <2>2
    <3>2. FieldOf(w, a[i][1]) = FieldOf(u, a[i][1])
      BY <1>5, <1>10, <2>2, <3>1
    <3> QED BY <1>3, <1>10, <2>2, <3>1, <3>2
  <2> QED BY <1>9, <2>1, <2>2
<1>11. ClockHeld(b, d)
  <2> SUFFICES ASSUME NEW i \in DOMAIN b, b[i][1] \in ClockPeriods, Alone(b, b[i][1]), ~Again(b, i)
               PROVE  FieldOf(d.upd, b[i][1]) = b[i][2]
    BY DEF ClockHeld
  <2>1. b[i][1] \in PlainMarks
    BY DEF PlainMarks
  <2>2. ~SameClock(b[i][1], m)
    BY <1>7 DEF Alone
  <2>3. ASSUME i \in DOMAIN a
        PROVE  FieldOf(u, a[i][1]) = a[i][2]
    <3>1. b[i] = a[i] /\ ~Again(a, i)
      BY <1>7, <2>3
    <3>2. Alone(a, a[i][1])
      BY <1>7, <3>1 DEF Alone
    <3> QED BY <2>3, <3>1, <3>2 DEF Held, ClockHeld, u
  <2> QED BY <1>10, <2>1, <2>2, <2>3
<1>12. DateHeld(b, d)
  <2> SUFFICES ASSUME MarksOf(b) \cap RelativeMarks = {}
               PROVE  /\ d.upd.year >= 1
                      /\ \A i \in DOMAIN b :
                            b[i][1] \in DateMarks /\ ~Again(b, i) => FieldOf(d.upd, b[i][1]) = b[i][2]
    BY DEF DateHeld
  <2>1. /\ u.year >= 1
        /\ \A i \in DOMAIN a :
              a[i][1] \in DateMarks /\ ~Again(a, i) => FieldOf(u, a[i][1]) = a[i][2]
    <3>1. MarksOf(a) \cap RelativeMarks = {}
      BY <1>7
    <3> QED BY <3>1 DEF Held, DateHeld, u
  <2>2. \A p \in DateMarks : p \in PlainMarks /\ ~SameClock(p, m)
    BY DEF DateMarks, PlainMarks, SameClock
  <2>3. d.upd.year >= 1
    <3>1. FieldOf(w, "year") = w.year /\ FieldOf(u, "year") = u.year
      BY DEF FieldOf
    <3>2. CASE m = "year"
      BY <1>3, <1>4, <3>1, <3>2, PlainInRange
    <3>3. CASE m # "year"
      <4>1. FieldOf(w, "year") = FieldOf(u, "year")
        BY <1>5, <2>2, <3>3 DEF DateMarks
      <4> QED BY <1>3, <2>1, <3>1, <4>1
    <3> QED BY <3>2, <3>3
  <2>4. ASSUME NEW i \in DOMAIN b, b[i][1] \in DateMarks, ~Again(b, i)
        PROVE  FieldOf(d.upd, b[i][1]) = b[i][2]
    <3>1. ASSUME i \in DOMAIN a
          PROVE  FieldOf(u, a[i][1]) = a[i][2]
      BY <1>7, <2>1, <2>4, <3>1
    <3> QED BY <1>10, <2>2, <2>4, <3>1
  <2> QED BY <2>3, <2>4
<1>13. LastHeld(b, d)
  BY <1>8 DEF LastHeld, LastMarks, PlainMarks, ClockPeriods
<1> QED BY <1>3, <1>4, <1>11, <1>12, <1>13 DEF Held

\* A mark that counts days or weeks shows what was pending, and moves the day.
LEMMA RelativeHeld ==
    ASSUME NEW a \in Seq(Periods \X Int), NEW c, Shows(c), Held(a, c),
           NEW m \in RelativeMarks, NEW v \in Int, normalize(c).tm.year >= 1,
           NEW b, b = Append(a, <<m, v>>), NEW d, d = set_value(c, m, v)
    PROVE  Held(b, d)
<1> DEFINE e == normalize(c)
           u == c.upd
<1>1. /\ Shows(e) /\ e.normalized /\ e.upd = e.tm /\ e.upd \in Tm
      /\ e.tm.hour = u.hour /\ e.tm.min = u.min /\ e.tm.sec = u.sec /\ ClockOf(u)
  BY PendingIsShown DEF Held
<1>2. Settled(e)
  BY <1>1 DEF Settled
<1>3. d = set_value(e, m, v)
  <2>1. normalize(e) = e
    BY <1>1 DEF normalize
  <2> QED BY <2>1 DEF set_value
<1> HIDE DEF e
<1>4. d = ShiftDays(e, DaysTo(e, m, v)) /\ DaysTo(e, m, v) \in Int
  BY <1>2, <1>3, RelativeIsShift
<1>5. d.upd.hour = u.hour /\ d.upd.min = u.min /\ d.upd.sec = u.sec
  <2> DEFINE n == DaysTo(e, m, v)
             w == [e.upd EXCEPT !.mday = @ + n]
  <2>1. d = Pending(e, w)
    BY <1>4 DEF ShiftDays
  <2>2. w.hour = e.upd.hour /\ w.min = e.upd.min /\ w.sec = e.upd.sec
    BY <1>1 DEF Tm
  <2> HIDE DEF w
  <2>3. d.upd = w
    BY <1>1, <2>1 DEF Pending, Shows, Calendar
  <2> QED BY <1>1, <2>2, <2>3
<1> HIDE DEF u
<1>6. m \in Periods
  BY DEF RelativeMarks, WeekPeriods, Periods, DayPeriods
<1>7. /\ Len(b) = Len(a) + 1 /\ Len(a) \in Nat /\ b # <<>> /\ b[Len(b)] = <<m, v>>
      /\ DOMAIN b = 1 .. Len(a) + 1 /\ DOMAIN a = 1 .. Len(a)
      /\ \A i \in DOMAIN a : /\ b[i] = a[i] /\ a[i][1] \in Periods /\ a[i][2] \in Int
                             /\ ~Again(b, i) => ~Again(a, i) /\ a[i][1] # m
      /\ MarksOf(b) = MarksOf(a) \cup {m}
  <2>1. Adds(a, m, v, b)
    BY <1>6, OneMore, Zenon
  <2> QED BY <2>1, Zenon DEF Adds
<1>8. b[Len(b)][1] = m /\ b[Len(b)][2] = v
  BY <1>7
<1>9. \A i \in DOMAIN b : i \in DOMAIN a \/ i = Len(b)
  BY <1>7
<1>10. ClockHeld(b, d)
  <2> SUFFICES ASSUME NEW i \in DOMAIN b, b[i][1] \in ClockPeriods, Alone(b, b[i][1]), ~Again(b, i)
               PROVE  FieldOf(d.upd, b[i][1]) = b[i][2]
    BY DEF ClockHeld
  <2>1. i \in DOMAIN a
    BY <1>8, <1>9 DEF RelativeMarks, WeekPeriods, ClockPeriods
  <2>2. b[i] = a[i] /\ ~Again(a, i)
    BY <1>7, <2>1
  <2>3. Alone(a, a[i][1])
    BY <1>7, <2>2 DEF Alone
  <2>4. FieldOf(u, a[i][1]) = a[i][2]
    BY <2>1, <2>2, <2>3 DEF Held, ClockHeld, u
  <2>5. FieldOf(d.upd, a[i][1]) = FieldOf(u, a[i][1])
    BY <1>5, <2>2 DEF FieldOf, ClockPeriods
  <2> QED BY <2>2, <2>4, <2>5
<1>11. DateHeld(b, d)
  BY <1>7 DEF DateHeld
<1>12. LastHeld(b, d)
  BY <1>2, <1>3, <1>8 DEF LastHeld
<1>13. ClockOf(d.upd)
  BY <1>1, <1>5 DEF ClockOf
<1> QED BY <1>10, <1>11, <1>12, <1>13 DEF Held

-----------------------------------------------------------------------------
(* What the last normalize shows of it. *)

LEMMA ClockIsGot ==
    ASSUME NEW a \in Seq(Periods \X Int), NEW c, Shows(c), Held(a, c), NEW i \in DOMAIN a, ~Again(a, i),
           a[i][1] \in ClockPeriods, Alone(a, a[i][1])
    PROVE  Current(normalize(c))[a[i][1]] = a[i][2]
<1> DEFINE d == normalize(c)
           m == a[i][1]
<1>1. ClockOf(c.upd) /\ FieldOf(c.upd, m) = a[i][2]
  BY DEF Held, ClockHeld
<1>2. d.tm.hour = c.upd.hour /\ d.tm.min = c.upd.min /\ d.tm.sec = c.upd.sec
  BY <1>1, PendingIsShown
<1>3. m \in PlainMarks
  BY DEF PlainMarks
<1> HIDE DEF d
<1>4. FieldOf(d.tm, m) = FieldOf(c.upd, m)
  BY <1>2 DEF FieldOf, ClockPeriods
<1>5. Current(d)[m] = FieldOf(d.tm, m)
  BY <1>3, FieldIsCurrent
<1> QED BY <1>1, <1>4, <1>5 DEF d

LEMMA DateIsGot ==
    ASSUME NEW a \in Seq(Periods \X Int), NEW c, Shows(c), Held(a, c), NEW i \in DOMAIN a, ~Again(a, i),
           a[i][1] \in DateMarks, MarksOf(a) \cap RelativeMarks = {},
           c.upd.mon \in 0 .. 11, c.upd.mday \in 1 .. days_in_month(c.upd.year, c.upd.mon + 1)
    PROVE  Current(normalize(c))[a[i][1]] = a[i][2]
<1> DEFINE d == normalize(c)
           m == a[i][1]
<1>1. ClockOf(c.upd) /\ c.upd.year >= 1 /\ FieldOf(c.upd, m) = a[i][2]
  BY DEF Held, DateHeld
<1>2. IsDate(c.upd.year, c.upd.mon, c.upd.mday)
  BY <1>1 DEF IsDate, Shows, Calendar, Tm
<1>3. d.tm.year = c.upd.year /\ d.tm.mon = c.upd.mon /\ d.tm.mday = c.upd.mday
  BY <1>1, <1>2, PendingIsShown
<1>4. m \in PlainMarks
  BY DEF PlainMarks, DateMarks
<1> HIDE DEF d
<1>5. FieldOf(d.tm, m) = FieldOf(c.upd, m)
  BY <1>3 DEF FieldOf, DateMarks
<1>6. Current(d)[m] = FieldOf(d.tm, m)
  BY <1>4, FieldIsCurrent
<1> QED BY <1>1, <1>5, <1>6 DEF d

LEMMA ElementIs ==
    ASSUME NEW S, NEW s \in Seq(S), NEW i \in DOMAIN s
    PROVE  s[i] \in S
  OBVIOUS

LEMMA LastIsGot ==
    ASSUME NEW a \in Seq(Periods \X Int), NEW c, Shows(c), Held(a, c), AllInRange(a), a # <<>>,
           NEW m \in LastMarks, NEW v, a[Len(a)] = <<m, v>>, v <= ActualMaximum(c)[m]
    PROVE  Current(normalize(c))[m] = v
<1>1. Len(a) \in DOMAIN a
  OBVIOUS
<1>2. m \in Periods /\ v \in Int /\ m \in RelativeMarks /\ InRange(<<m, v>>)
  <2>1. a[Len(a)] \in Periods \X Int
    BY <1>1, ElementIs, Zenon
  <2>2. InRange(a[Len(a)])
    BY <1>1, Zenon DEF AllInRange
  <2> QED BY <2>1, <2>2 DEF LastMarks, RelativeMarks
<1>3. PICK b : Settled(b) /\ c = set_value(b, m, v)
  BY DEF Held, LastHeld
<1>4. normalize(c) = SetTo(b, m, v)
  BY <1>3 DEF SetTo
<1>5. ActualMaximum(c) = ActualMaximum(b)
  <2>1. c = ShiftDays(b, DaysTo(b, m, v))
    BY <1>2, <1>3, RelativeIsShift
  <2> DEFINE w == [b.upd EXCEPT !.mday = @ + DaysTo(b, m, v)]
  <2>2. c = Pending(b, w)
    BY <2>1 DEF ShiftDays
  <2> HIDE DEF w
  <2>3. c.tm = b.tm /\ c.fdow = b.fdow
    BY <1>3, <2>2 DEF Pending, Settled, Shows, Calendar
  <2> QED BY <2>3 DEF ActualMaximum
<1>6. ActualMaximum(b)[m] \in Int
  <2>1. b.tm.mon \in 0 .. 11 /\ b \in Calendar
    BY <1>3, ShowsMonth DEF Settled, Shows
  <2>2. ActualMaximum(b)["day_of_year"] = days_in_year(b.tm.year) /\ days_in_year(b.tm.year) \in Int
    BY SMTT(20) DEF ActualMaximum, LeastMaximum, days_in_year, LeapDay
  <2>3. ActualMaximum(b)["day_of_week"] = 7 /\ ActualMaximum(b)["day_of_week_local"] = 7
    BY SMTT(20) DEF ActualMaximum, LeastMaximum
  <2> QED BY <2>2, <2>3 DEF LastMarks
<1>7. v >= 1 /\ Minimum(m) = 1
  BY <1>2 DEF InRange, Minimum, LastMarks, DayPeriods, WeekPeriods
<1>8. Valid(b, m, v)
  BY <1>2, <1>5, <1>6, <1>7 DEF Valid, LastMarks
<1>9. Possible(b, m, v)
  BY DEF Possible, LastMarks
<1> QED BY <1>2, <1>3, <1>4, <1>8, <1>9, SetIsGot

-----------------------------------------------------------------------------
(* Period sets. *)

InYears == cal.tm.year >= 1
AskedInv == setting /\ Clean /\ AllInRange(asked) => Held(asked, cal)

LEMMA BeginSetAsked ==
    ASSUME Inv, Staged, InYears, BeginSet
    PROVE  AskedInv'
<1>1. cal' = cal /\ asked' = <<>> /\ Clean' = cal.normalized
  BY FirstStage DEF BeginSet, Call, Staged, Clean
<1>2. ASSUME Clean'
      PROVE  Held(asked', cal')
  <2>1. Settled(cal)
    BY <1>1, <1>2 DEF Inv, InYears, Settled
  <2> QED BY <1>1, <2>1, NothingHeld
<1> QED BY <1>2 DEF AskedInv

LEMMA SetValueAsked ==
    ASSUME Inv, Staged, AskedInv, InYears', NEW m \in Periods, NEW v \in Values[m], SetValue(m, v)
    PROVE  AskedInv'
<1> SUFFICES ASSUME setting', Clean', AllInRange(asked')
             PROVE  Held(asked', cal')
  BY DEF AskedInv
<1>1. v \in Int
  BY DomainAssumption
<1>2. /\ setting /\ cal' = set_value(cal, m, v) /\ asked' = Append(asked, <<m, v>>)
      /\ stages' = Append(stages, cal') /\ asked \in Seq(Periods \X Int) /\ Shows(cal)
  BY DEF SetValue, Inv, TypeInv
<1>8. Clean
  <2>1. stages \in Seq(Calendar) /\ Len(stages) >= 1
    BY <1>2 DEF Staged
  <2>2. stages'[1] = stages[1]
    BY <1>2, <2>1
  <2> QED BY <2>2 DEF Clean
<1>3. Adds(asked, m, v, asked')
  BY <1>1, <1>2, OneMore, Zenon
<1>4. AllInRange(asked) /\ InRange(<<m, v>>)
  <2>1. /\ Len(asked') \in DOMAIN asked' /\ asked'[Len(asked')] = <<m, v>>
        /\ \A i \in DOMAIN asked : i \in DOMAIN asked' /\ asked'[i] = asked[i]
    BY <1>3 DEF Adds
  <2> QED BY <2>1 DEF AllInRange
<1>5. Held(asked, cal)
  BY <1>2, <1>4, <1>8 DEF AskedInv
<1>6. CASE m \in RelativeMarks
  <2> DEFINE e == normalize(cal)
  <2>1. Shows(e)
    BY <1>2, NormalizeShows
  <2>2. OnlyPending(e, SetRelative(e, m, v))
    BY <1>1, <1>6, <2>1, SetRelativeTyped DEF Shows
  <2>3. cal' = SetRelative(e, m, v)
    BY <1>2, <1>6 DEF set_value
  <2> HIDE DEF e
  <2>4. cal'.tm = e.tm
    BY <2>2, <2>3 DEF OnlyPending
  <2>5. e.tm.year >= 1
    BY <2>4 DEF InYears
  <2> QED BY <1>1, <1>2, <1>5, <1>6, <2>5, RelativeHeld DEF e
<1>7. CASE m \notin RelativeMarks
  <2>1. m \in PlainMarks
    BY <1>7 DEF RelativeMarks, WeekPeriods, PlainMarks, Periods, DayPeriods
  <2> QED BY <1>1, <1>2, <1>4, <1>5, <2>1, PlainHeld
<1> QED BY <1>6, <1>7

LEMMA NextAsked == Inv /\ Staged /\ AskedInv /\ InYears /\ InYears' /\ [Next]_vars => AskedInv'
<1> SUFFICES ASSUME Inv, Staged, AskedInv, InYears, InYears', [Next]_vars
             PROVE  AskedInv'
  OBVIOUS
<1>1. CASE BeginSet
  BY <1>1, BeginSetAsked
<1>2. ASSUME NEW m \in Periods, NEW v \in Values[m], SetValue(m, v)
      PROVE  AskedInv'
  BY <1>2, SetValueAsked
<1>3. CASE EndSet
  BY <1>3 DEF EndSet, AskedInv
<1>4. ASSUME NEW m \in Periods, NEW n \in Amounts, MoveBy(m, n) \/ RollBy(m, n)
      PROVE  AskedInv'
  BY <1>4 DEF MoveBy, RollBy, Call, AskedInv
<1>5. ASSUME NEW t \in Instants, SetTime(t)
      PROVE  AskedInv'
  BY <1>5 DEF SetTime, Call, AskedInv
<1>6. CASE UNCHANGED vars
  BY <1>6 DEF vars, AskedInv, Clean
<1> QED BY <1>1, <1>2, <1>3, <1>4, <1>5, <1>6 DEF Next

\* The elements of a set that the property is about.
LEMMA EndSetGets ==
    ASSUME Inv, AskedInv, EndSet, Clean, ~threw', AllInRange(asked), NEW i \in DOMAIN asked, ~Again(asked, i),
           NEW m, m = asked[i][1]
    PROVE  /\ m \in ClockPeriods /\ Alone(asked, m) => Current(cal')[m] = asked[i][2]
           /\ m \in DateMarks /\ DateExists /\ MarksOf(asked) \cap RelativeMarks = {}
                => Current(cal')[m] = asked[i][2]
           /\ m \in LastMarks /\ i = Len(asked) /\ asked[i][2] <= ActualMaximum(cal)[m]
                => Current(cal')[m] = asked[i][2]
<1>1. cal' = normalize(cal)
  BY DEF EndSet, Finish
<1>2. asked \in Seq(Periods \X Int) /\ Shows(cal) /\ Held(asked, cal) /\ asked # <<>>
  BY DEF Inv, TypeInv, AskedInv, EndSet
<1>3. ASSUME m \in ClockPeriods, Alone(asked, m)
      PROVE  Current(cal')[m] = asked[i][2]
  BY <1>1, <1>2, <1>3, ClockIsGot
<1>4. ASSUME m \in DateMarks, DateExists, MarksOf(asked) \cap RelativeMarks = {}
      PROVE  Current(cal')[m] = asked[i][2]
  BY <1>1, <1>2, <1>4, DateIsGot DEF DateExists
<1>5. ASSUME m \in LastMarks, i = Len(asked), asked[i][2] <= ActualMaximum(cal)[m]
      PROVE  Current(cal')[m] = asked[i][2]
  <2>1. asked[i] = <<m, asked[i][2]>>
    BY <1>2
  <2> QED BY <1>1, <1>2, <1>5, <2>1, LastIsGot
<1> QED BY <1>3, <1>4, <1>5

LEMMA StepGets ==
    ASSUME Inv, AskedInv, EndSet, Clean, ~threw', \A i \in DOMAIN asked : InRange(asked[i])
    PROVE  CertainAreGot
<1> SUFFICES ASSUME NEW i \in DOMAIN asked, Certain(i), ~Again(asked, i)
             PROVE  Current(cal')[asked[i][1]] = asked[i][2]
  BY Zenon DEF CertainAreGot, SetAgain, Again
<1>1. AllInRange(asked)
  BY DEF AllInRange
<1>2. \/ asked[i][1] \in ClockPeriods /\ Alone(asked, asked[i][1])
      \/ asked[i][1] \in DateMarks /\ DateExists /\ MarksOf(asked) \cap RelativeMarks = {}
      \/ asked[i][1] \in LastMarks /\ i = Len(asked) /\ asked[i][2] <= ActualMaximum(cal)[asked[i][1]]
  BY DEF Certain, Alone, MarksOf, Marks, DateMarks, LastMarks
<1> QED BY <1>1, <1>2, EndSetGets

\* date_time, while it stays since the year 1: when a period set with values in range
\* is assigned to an object that has nothing pending, every field it asks for is there
\* at the end, whatever the number and order of its elements: the clock, the year,
\* month and day of a date that exists, and the weekday or day of the year that came
\* last (operator=, date_time.cpp:173, over set_value, gregorian.cpp:144, and
\* normalize, 202).
THEOREM AskedIsAlwaysGot == Spec /\ []InYears => AskedIsGot
<1>1. Inv /\ AskedInv =>
        [EndSet /\ Clean /\ ~threw' /\ (\A i \in DOMAIN asked : InRange(asked[i])) => CertainAreGot]_vars
  BY StepGets
<1>2. Init => AskedInv
  BY DEF Init, AskedInv
<1> QED BY <1>1, <1>2, InitInv, NextInv, InitStaged, NextStaged, NextAsked, PTL DEF Spec, AskedIsGot

\* A Windows build whose system zone is less than a day from Greenwich stays there.
NearGreenwich == SystemOffset > -86400

LEMMA LateIsInYears ==
    ASSUME Windows, NearGreenwich, Inv, Late(cal)
    PROVE  InYears
<1> DEFINE t == LocalTime(cal)
<1>1. /\ cal.time \in Int /\ cal.tzoff \in Int /\ Shift(cal) \in Int /\ cal.tm = gmtime(t)
  BY FieldsAndPoint, Zenon DEF Inv, Shows, LocalTime
<1>2. Shift(cal) = SystemOffset \/ Shift(cal) = 0
  BY Zenon DEF Shift
<1>3. cal.time + cal.tzoff >= 0
  BY DEF Late
<1>4. t \in Int /\ DayOf(t) >= -1
  <2>1. t \in Int /\ t >= -86400
    BY <1>1, <1>2, <1>3, SystemOffsetAssumption, SMTT(10) DEF LocalTime, NearGreenwich
  <2> HIDE DEF t
  <2> QED BY <2>1, SMTT(10) DEF DayOf
<1> HIDE DEF t
<1>5. cal.tm.year = YearOf(t) /\ YearOf(t) \in Int
  <2>1. gmtime(t).year = YearOf(t)
    BY <1>4, GmtimeIs
  <2>2. YearOf(t) \in Int
    BY <1>4, PartsRange, Zenon
  <2> QED BY <1>1, <2>1, <2>2
<1>6. YearOf(t) >= 1
  <2>1. DayOf(t) \in Int
    BY <1>4, SMTT(10) DEF DayOf
  <2>2. DayOf(t) >= -719162
    BY <1>4, <2>1, SMTT(10)
  <2> QED BY <1>4, <2>2, SinceYearOne, SMTT(10)
<1> QED BY <1>5, <1>6, SMTT(10) DEF InYears

\* date_time in a Windows build, which refuses instants before 1970: the same, without
\* a condition on the years.
THEOREM AskedIsGotSinceEpoch ==
    ASSUME Windows, NearGreenwich
    PROVE  Spec => AskedIsGot
<1>1. Inv /\ Late(cal) => InYears
  BY LateIsInYears
<1> QED BY <1>1, AskedIsAlwaysGot, InitInv, NextInv, InitLate, NextLate, PTL DEF Spec
=============================================================================
