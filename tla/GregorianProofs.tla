--------------------------- MODULE GregorianProofs ---------------------------
(***************************************************************************)
(* Lemmas about the operators of Gregorian: the fields of every instant    *)
(* are in their ranges, and every operation on a calendar object keeps its *)
(* fields integers, so that its arithmetic is defined.                     *)
(***************************************************************************)
EXTENDS Gregorian, TLAPS

\* What division and remainder by a positive number return.
LEMMA DivMod ==
    ASSUME NEW a \in Int, NEW k \in Nat \ {0}
    PROVE  a \div k \in Int /\ a % k \in 0 .. k - 1
  BY SMTT(10)

LEMMA LeapDayInt ==
    ASSUME NEW y
    PROVE  LeapDay(y) \in 0 .. 1
  BY DEF LeapDay

\* The day of a 400-year era (as gmtime computes it) is one of a year of at
\* most 366 days that starts on 1 March.
LEMMA DayOfEra ==
    ASSUME NEW doe \in Int, 0 <= doe, doe < 146097,
           NEW a \in Int, a = doe \div 1460,
           NEW b \in Int, b = doe \div 36524,
           NEW c \in Int, c = doe \div 146096,
           NEW n \in Int, n = doe - a + b - c,
           NEW yoe \in Int, yoe = n \div 365,
           NEW q \in Int, q = yoe \div 4,
           NEW h \in Int, h = yoe \div 100,
           NEW doy \in Int, doy = doe - (365 * yoe + q - h)
    PROVE  0 <= yoe /\ yoe <= 399 /\ doy \in 0 .. 365
  BY SMTT(30)

\* The month and the day of the month of a day of such a year.
LEMMA MonthOfDay ==
    ASSUME NEW doy \in 0 .. 365, NEW mp, mp = (5 * doy + 2) \div 153
    PROVE  /\ mp \in 0 .. 11
           /\ doy - (153 * mp + 2) \div 5 + 1 \in 1 .. 31
           /\ mp < 10 <=> doy < 306
  BY SMTT(10)

\* The parts of an instant in gmtime: the day, the era it is in, the day and the year
\* of that era, the day of the year that starts on 1 March and its month.
DayOf(t) == t \div 86400
Era(t) == (DayOf(t) + 719468) \div 146097
DayInEra(t) == (DayOf(t) + 719468) % 146097
YearInEra(t) ==
    LET doe == DayInEra(t) IN (doe - doe \div 1460 + doe \div 36524 - doe \div 146096) \div 365
DayFromMarch(t) == DayInEra(t) - (365 * YearInEra(t) + YearInEra(t) \div 4 - YearInEra(t) \div 100)
MonthFromMarch(t) == (5 * DayFromMarch(t) + 2) \div 153
MonthOf(t) == IF MonthFromMarch(t) < 10 THEN MonthFromMarch(t) + 2 ELSE MonthFromMarch(t) - 10
MonthDayOf(t) == DayFromMarch(t) - (153 * MonthFromMarch(t) + 2) \div 5 + 1
YearOf(t) == YearInEra(t) + 400 * Era(t) + IF MonthOf(t) <= 1 THEN 1 ELSE 0
YearDayOf(t) == IF MonthOf(t) <= 1 THEN DayFromMarch(t) - 306 ELSE DayFromMarch(t) + 59 + LeapDay(YearOf(t))
WeekDayOf(t) == (DayOf(t) + 4) % 7
HourOf(t) == (t % 86400) \div 3600
MinuteOf(t) == ((t % 86400) % 3600) \div 60
SecondOf(t) == (t % 86400) % 60

LEMMA GmtimeParts ==
    ASSUME NEW t \in Int
    PROVE  /\ DayOf(t) \in Int /\ Era(t) \in Int
           /\ YearInEra(t) \in 0 .. 399 /\ DayFromMarch(t) \in 0 .. 365 /\ MonthFromMarch(t) \in 0 .. 11
           /\ MonthFromMarch(t) < 10 <=> DayFromMarch(t) < 306
           /\ DayOf(t) + 719468 = 146097 * Era(t) + 365 * YearInEra(t) + YearInEra(t) \div 4
                                    - YearInEra(t) \div 100 + DayFromMarch(t)
<1> DEFINE doe == DayInEra(t)
           a == doe \div 1460
           b == doe \div 36524
           c == doe \div 146096
           n == doe - a + b - c
           yoe == n \div 365
           q == yoe \div 4
           h == yoe \div 100
           doy == doe - (365 * yoe + q - h)
<1>1. DayOf(t) \in Int
  BY SMTT(10) DEF DayOf
<1>2. /\ Era(t) \in Int /\ doe \in Int /\ 0 <= doe /\ doe < 146097
      /\ DayOf(t) + 719468 = 146097 * Era(t) + doe
  BY <1>1, SMTT(10) DEF Era, DayInEra
<1>3. YearInEra(t) = yoe
  BY DEF YearInEra
<1>4. DayFromMarch(t) = doy
  BY <1>3 DEF DayFromMarch
<1>5. yoe \in Int /\ 0 <= yoe /\ yoe <= 399 /\ doy \in 0 .. 365 /\ q \in Int /\ h \in Int
  <2> HIDE DEF doe
  <2>1. a \in Int /\ b \in Int /\ c \in Int
    BY <1>2, SMTT(10)
  <2>2. n \in Int
    <3> HIDE DEF a, b, c
    <3> QED BY <1>2, <2>1, SMTT(10)
  <2>3. yoe \in Int
    <3> HIDE DEF n
    <3> QED BY <2>2, SMTT(10)
  <2>4. q \in Int /\ h \in Int
    <3> HIDE DEF yoe
    <3> QED BY <2>3, SMTT(10)
  <2>5. doy \in Int
    <3> HIDE DEF yoe, q, h
    <3> QED BY <1>2, <2>3, <2>4, SMTT(10)
  <2>6. /\ a = doe \div 1460 /\ b = doe \div 36524 /\ c = doe \div 146096
        /\ n = doe - a + b - c /\ yoe = n \div 365 /\ q = yoe \div 4 /\ h = yoe \div 100
        /\ doy = doe - (365 * yoe + q - h)
    OBVIOUS
  <2> HIDE DEF a, b, c, n, yoe, q, h, doy
  <2> QED BY <1>2, <2>1, <2>2, <2>3, <2>4, <2>5, <2>6, DayOfEra, SMTT(20)
<1>6. doe = 365 * yoe + q - h + doy
  <2> HIDE DEF doe, yoe, q, h
  <2> QED BY <1>2, <1>5, SMTT(10)
<1>7. MonthFromMarch(t) \in 0 .. 11 /\ (MonthFromMarch(t) < 10 <=> DayFromMarch(t) < 306)
  <2> DEFINE d == DayFromMarch(t)
             m == MonthFromMarch(t)
  <2>1. d \in 0 .. 365
    <3> HIDE DEF doe, a, b, c, n, yoe, q, h, doy
    <3> QED BY <1>4, <1>5, SMTT(10)
  <2>2. m = (5 * d + 2) \div 153
    BY DEF MonthFromMarch
  <2> HIDE DEF doe, a, b, c, n, yoe, q, h, doy, d, m
  <2>3. m \in 0 .. 11 /\ (m < 10 <=> d < 306)
    BY <2>1, <2>2, SMTT(30)
  <2> QED BY <2>3 DEF d, m
<1>8. DayOf(t) + 719468 = 146097 * Era(t) + 365 * yoe + q - h + doy
  <2> HIDE DEF doe, yoe, q, h, doy
  <2> QED BY <1>1, <1>2, <1>5, <1>6
<1> HIDE DEF doe, yoe, doy
<1> QED BY <1>1, <1>2, <1>3, <1>4, <1>5, <1>7, <1>8

LEMMA PartsRange ==
    ASSUME NEW t \in Int
    PROVE  /\ YearOf(t) \in Int /\ MonthOf(t) \in 0 .. 11 /\ MonthDayOf(t) \in 1 .. 31
           /\ HourOf(t) \in 0 .. 23 /\ MinuteOf(t) \in 0 .. 59 /\ SecondOf(t) \in 0 .. 59
           /\ WeekDayOf(t) \in 0 .. 6 /\ YearDayOf(t) \in 0 .. 365
           /\ MonthOf(t) <= 1 <=> DayFromMarch(t) >= 306
<1>1. /\ DayFromMarch(t) \in 0 .. 365 /\ MonthFromMarch(t) \in 0 .. 11 /\ DayOf(t) \in Int
      /\ MonthFromMarch(t) < 10 <=> DayFromMarch(t) < 306
      /\ YearInEra(t) \in 0 .. 399 /\ Era(t) \in Int
  BY GmtimeParts
<1>2. MonthDayOf(t) \in 1 .. 31
  <2> DEFINE doy == DayFromMarch(t)
             mp == MonthFromMarch(t)
  <2>1. doy \in 0 .. 365 /\ mp = (5 * doy + 2) \div 153 /\ MonthDayOf(t) = doy - (153 * mp + 2) \div 5 + 1
    BY <1>1, SMTT(10) DEF MonthFromMarch, MonthDayOf
  <2> HIDE DEF doy, mp
  <2>2. doy - (153 * mp + 2) \div 5 + 1 \in 1 .. 31
    BY <2>1, SMTT(30)
  <2> QED BY <2>1, <2>2, Zenon
<1>3. HourOf(t) \in 0 .. 23 /\ MinuteOf(t) \in 0 .. 59 /\ SecondOf(t) \in 0 .. 59
  <2> DEFINE s == t % 86400
  <2>1. s \in Int /\ 0 <= s /\ s < 86400
    BY SMTT(10)
  <2>2. HourOf(t) = s \div 3600 /\ MinuteOf(t) = (s % 3600) \div 60 /\ SecondOf(t) = s % 60
    BY SMTT(10) DEF HourOf, MinuteOf, SecondOf
  <2> HIDE DEF s
  <2>3. s \div 3600 \in 0 .. 23 /\ (s % 3600) \div 60 \in 0 .. 59 /\ s % 60 \in 0 .. 59
    BY <2>1, SMTT(10)
  <2> QED BY <2>2, <2>3, SMTT(10)
<1>4. WeekDayOf(t) \in 0 .. 6
  BY <1>1, SMTT(10) DEF WeekDayOf
<1>5. MonthOf(t) \in 0 .. 11 /\ (MonthOf(t) <= 1 <=> DayFromMarch(t) >= 306)
  BY <1>1, SMTT(10) DEF MonthOf
<1>6. YearOf(t) \in Int
  BY <1>1, <1>5, SMTT(10) DEF YearOf
<1>7. YearDayOf(t) \in 0 .. 365
  BY <1>1, <1>5, LeapDayInt, SMTT(10) DEF YearDayOf
<1> QED BY <1>2, <1>3, <1>4, <1>5, <1>6, <1>7

\* The fields of gmtime are these parts.
LEMMA GmtimeIs ==
    ASSUME NEW t \in Int
    PROVE  /\ gmtime(t) = [year |-> YearOf(t), mon |-> MonthOf(t), mday |-> MonthDayOf(t), hour |-> HourOf(t),
                           min |-> MinuteOf(t), sec |-> SecondOf(t), wday |-> WeekDayOf(t),
                           yday |-> YearDayOf(t)]
           /\ gmtime(t) \in Tm
<1>1. gmtime(t) = [year |-> YearOf(t), mon |-> MonthOf(t), mday |-> MonthDayOf(t), hour |-> HourOf(t),
                   min |-> MinuteOf(t), sec |-> SecondOf(t), wday |-> WeekDayOf(t), yday |-> YearDayOf(t)]
  BY SMTT(20) DEF gmtime, YearOf, MonthOf, MonthDayOf, HourOf, MinuteOf, SecondOf, WeekDayOf, YearDayOf,
                  DayFromMarch, MonthFromMarch, YearInEra, Era, DayInEra, DayOf
<1>2. /\ YearOf(t) \in Int /\ MonthOf(t) \in Int /\ MonthDayOf(t) \in Int /\ HourOf(t) \in Int
      /\ MinuteOf(t) \in Int /\ SecondOf(t) \in Int /\ WeekDayOf(t) \in Int /\ YearDayOf(t) \in Int
  <2>1. /\ YearOf(t) \in Int /\ MonthOf(t) \in 0 .. 11 /\ MonthDayOf(t) \in 1 .. 31
        /\ HourOf(t) \in 0 .. 23 /\ MinuteOf(t) \in 0 .. 59 /\ SecondOf(t) \in 0 .. 59
        /\ WeekDayOf(t) \in 0 .. 6 /\ YearDayOf(t) \in 0 .. 365
    BY PartsRange, ZenonT(60)
  <2> QED BY <2>1, SMTT(10)
<1>3. gmtime(t) \in Tm
  BY <1>1, <1>2, SMTT(10) DEF Tm
<1> QED BY <1>1, <1>3

\* gmtime (std::gmtime_r as gregorian.cpp uses it): every field of every
\* instant is in the range that <ctime> gives it.
LEMMA GmtimeRange ==
    ASSUME NEW t \in Int
    PROVE  /\ gmtime(t) \in Tm
           /\ gmtime(t).mon \in 0 .. 11
           /\ gmtime(t).mday \in 1 .. 31
           /\ gmtime(t).hour \in 0 .. 23
           /\ gmtime(t).min \in 0 .. 59
           /\ gmtime(t).sec \in 0 .. 59
           /\ gmtime(t).wday \in 0 .. 6
           /\ gmtime(t).yday \in 0 .. 365
<1> DEFINE g == gmtime(t)
<1>1. /\ g = [year |-> YearOf(t), mon |-> MonthOf(t), mday |-> MonthDayOf(t), hour |-> HourOf(t),
              min |-> MinuteOf(t), sec |-> SecondOf(t), wday |-> WeekDayOf(t), yday |-> YearDayOf(t)]
      /\ g \in Tm
  BY GmtimeIs, Zenon
<1>2. /\ MonthOf(t) \in 0 .. 11 /\ MonthDayOf(t) \in 1 .. 31
      /\ HourOf(t) \in 0 .. 23 /\ MinuteOf(t) \in 0 .. 59 /\ SecondOf(t) \in 0 .. 59
      /\ WeekDayOf(t) \in 0 .. 6 /\ YearDayOf(t) \in 0 .. 365
  BY PartsRange, ZenonT(60)
<1> HIDE DEF g
<1>3. /\ g.mon = MonthOf(t) /\ g.mday = MonthDayOf(t) /\ g.hour = HourOf(t) /\ g.min = MinuteOf(t)
      /\ g.sec = SecondOf(t) /\ g.wday = WeekDayOf(t) /\ g.yday = YearDayOf(t)
  BY <1>1, SMTT(10)
<1>4. /\ g \in Tm /\ g.mon \in 0 .. 11 /\ g.mday \in 1 .. 31 /\ g.hour \in 0 .. 23
      /\ g.min \in 0 .. 59 /\ g.sec \in 0 .. 59 /\ g.wday \in 0 .. 6 /\ g.yday \in 0 .. 365
  <2>1. g \in Tm
    BY <1>1, Zenon
  <2>2. /\ g.mon \in 0 .. 11 /\ g.mday \in 1 .. 31 /\ g.hour \in 0 .. 23
        /\ g.min \in 0 .. 59 /\ g.sec \in 0 .. 59 /\ g.wday \in 0 .. 6 /\ g.yday \in 0 .. 365
    BY <1>2, <1>3, SMTT(10)
  <2> QED BY <2>1, <2>2, Zenon
<1> QED BY <1>4, Zenon DEF g

-----------------------------------------------------------------------------
LEMMA CDivInt ==
    ASSUME NEW a \in Int, NEW b \in Nat \ {0}
    PROVE  CDiv(a, b) \in Int
<1>1. CASE a >= 0
  BY <1>1, DivMod DEF CDiv
<1>2. CASE ~(a >= 0)
  <2>1. (-a) \div b \in Int
    BY DivMod
  <2> QED BY <1>2, <2>1 DEF CDiv
<1> QED BY <1>1, <1>2

LEMMA CModInt ==
    ASSUME NEW a \in Int, NEW b \in Nat \ {0}
    PROVE  CMod(a, b) \in Int
  BY CDivInt DEF CMod

LEMMA DaysFrom0Int ==
    ASSUME NEW y \in Int
    PROVE  days_from_0(y) \in Int
<1> DEFINE p == y - 1
<1>1. p \in Int
  OBVIOUS
<1>2. CDiv(p, 400) \in Int /\ CDiv(p, 100) \in Int /\ CDiv(p, 4) \in Int
  BY <1>1, CDivInt
<1> QED BY <1>1, <1>2 DEF days_from_0

\* The month that internal_timegm (gregorian.cpp:69) looks up in its tables is
\* one of the twelve, whatever months were set, added or taken off.
LEMMA MonthInRange ==
    ASSUME NEW mon \in Int, NEW carry,
           carry = IF mon > 11 THEN mon \div 12
                   ELSE IF mon < 0 THEN -((11 - mon) \div 12) ELSE 0
    PROVE  carry \in Int /\ mon - 12 * carry + 1 \in 1 .. 12
<1>1. CASE mon > 11
  BY <1>1, SMTT(10)
<1>2. CASE mon < 0
  BY <1>2, SMTT(10)
<1>3. CASE ~(mon > 11) /\ ~(mon < 0)
  BY <1>3, SMTT(10)
<1> QED BY <1>1, <1>2, <1>3

LEMMA DaysFrom1JanInt ==
    ASSUME NEW y, NEW m \in 1 .. 12, NEW d \in Int
    PROVE  days_from_1jan(y, m, d) \in Int
<1>1. DaysBefore[m] \in Int
  BY SMTT(10) DEF DaysBefore
<1> QED BY <1>1, LeapDayInt DEF days_from_1jan

LEMMA TimegmInt ==
    ASSUME NEW t \in Tm
    PROVE  internal_timegm(t) \in Int
<1> DEFINE carry == IF t.mon > 11 THEN t.mon \div 12
                    ELSE IF t.mon < 0 THEN -((11 - t.mon) \div 12) ELSE 0
           year == t.year + carry
           month == t.mon - 12 * carry + 1
           days == days_from_0(year) - days_from_0(1970) + days_from_1jan(year, month, t.mday)
<1>1. /\ t.year \in Int /\ t.mon \in Int /\ t.mday \in Int
      /\ t.hour \in Int /\ t.min \in Int /\ t.sec \in Int
  BY DEF Tm
<1>2. carry \in Int /\ month \in 1 .. 12
  BY <1>1, MonthInRange
<1>3. year \in Int
  <2> HIDE DEF carry
  <2> QED BY <1>1, <1>2
<1>4. days \in Int
  <2> HIDE DEF year, month
  <2>1. days_from_0(year) \in Int /\ days_from_0(1970) \in Int
    BY <1>3, DaysFrom0Int
  <2>2. days_from_1jan(year, month, t.mday) \in Int
    BY <1>1, <1>2, DaysFrom1JanInt
  <2> QED BY <2>1, <2>2
<1>5. internal_timegm(t) = 86400 * days + 3600 * t.hour + 60 * t.min + t.sec
  BY DEF internal_timegm
<1> HIDE DEF days
<1> QED BY <1>1, <1>4, <1>5

-----------------------------------------------------------------------------
(* The tables and the definition of the calendar agree. *)

LEMMA DivStep ==
    ASSUME NEW y \in Int
    PROVE  /\ y \div 4 = (y - 1) \div 4 + (IF y % 4 = 0 THEN 1 ELSE 0)
           /\ y \div 100 = (y - 1) \div 100 + (IF y % 100 = 0 THEN 1 ELSE 0)
           /\ y \div 400 = (y - 1) \div 400 + (IF y % 400 = 0 THEN 1 ELSE 0)
           /\ y % 400 = 0 => y % 100 = 0
           /\ y % 100 = 0 => y % 4 = 0
<1>1. y \div 4 = (y - 1) \div 4 + (IF y % 4 = 0 THEN 1 ELSE 0)
  BY SMTT(10)
<1>2. y \div 100 = (y - 1) \div 100 + (IF y % 100 = 0 THEN 1 ELSE 0)
  BY SMTT(10)
<1>3. y \div 400 = (y - 1) \div 400 + (IF y % 400 = 0 THEN 1 ELSE 0)
  BY SMTT(10)
<1>4. y % 400 = 0 => y % 100 = 0
  BY SMTT(10)
<1>5. y % 100 = 0 => y % 4 = 0
  BY SMTT(10)
<1> QED BY <1>1, <1>2, <1>3, <1>4, <1>5

LEMMA YearsFrom0 ==
    ASSUME NEW y \in Int, y >= 1
    PROVE  days_from_0(y) = 365 * (y - 1) + (y - 1) \div 400 - (y - 1) \div 100 + (y - 1) \div 4
BY DEF days_from_0, CDiv

\* A year is as long as days_in_year says.
LEMMA YearLength ==
    ASSUME NEW y \in Int, y >= 1
    PROVE  days_from_0(y + 1) = days_from_0(y) + 365 + LeapDay(y)
<1> DEFINE a == (y - 1) \div 4
           b == (y - 1) \div 100
           c == (y - 1) \div 400
           l4 == IF y % 4 = 0 THEN 1 ELSE 0
           l100 == IF y % 100 = 0 THEN 1 ELSE 0
           l400 == IF y % 400 = 0 THEN 1 ELSE 0
<1>1. y \div 4 = a + l4 /\ y \div 100 = b + l100 /\ y \div 400 = c + l400
  BY DivStep
<1>2. a \in Int /\ b \in Int /\ c \in Int /\ l4 \in Int /\ l100 \in Int /\ l400 \in Int
  BY DivMod
<1>3. days_from_0(y) = 365 * (y - 1) + c - b + a
  BY YearsFrom0
<1>4. days_from_0(y + 1) = 365 * y + y \div 400 - y \div 100 + y \div 4
  <2>1. y + 1 \in Int /\ y + 1 >= 1 /\ y + 1 - 1 = y
    OBVIOUS
  <2> QED BY <2>1, YearsFrom0
<1>5. LeapDay(y) = l4 - l100 + l400
  BY DivStep DEF LeapDay, is_leap
<1> HIDE DEF a, b, c, l4, l100, l400
<1> QED BY <1>1, <1>2, <1>3, <1>4, <1>5

\* So are the years of an era, counted from its beginning.
LEMMA EraYears ==
    ASSUME NEW era \in Int, NEW yoe \in 0 .. 399, NEW y \in Int, y = yoe + 400 * era, y >= 0
    PROVE  days_from_0(y + 1) = 146097 * era + 365 * yoe + yoe \div 4 - yoe \div 100
<1>1. y \div 400 = era
  BY SMTT(10)
<1>2. y \div 100 = 4 * era + yoe \div 100
  BY SMTT(10)
<1>3. y \div 4 = 100 * era + yoe \div 4
  BY SMTT(10)
<1>4. days_from_0(y + 1) = 365 * y + y \div 400 - y \div 100 + y \div 4
  <2>1. y + 1 \in Int /\ y + 1 >= 1 /\ y + 1 - 1 = y
    OBVIOUS
  <2> QED BY <2>1, YearsFrom0
<1>5. yoe \div 100 \in Int /\ yoe \div 4 \in Int
  BY DivMod
<1> QED BY <1>1, <1>2, <1>3, <1>4, <1>5

\* What the tables say of a day that the definition places in a month.
LEMMA TablesAgree ==
    ASSUME NEW t \in Int, NEW year
    PROVE  days_from_1jan(year, MonthOf(t) + 1, MonthDayOf(t)) =
               IF MonthOf(t) <= 1 THEN DayFromMarch(t) - 306 ELSE DayFromMarch(t) + 59 + LeapDay(year)
<1> DEFINE doy == DayFromMarch(t)
           mp == MonthFromMarch(t)
           mon == MonthOf(t)
           mday == MonthDayOf(t)
<1>0. /\ doy \in 0 .. 365 /\ mp = (5 * doy + 2) \div 153
      /\ mon = IF mp < 10 THEN mp + 2 ELSE mp - 10
      /\ mday = doy - (153 * mp + 2) \div 5 + 1
  BY GmtimeParts, SMTT(40) DEF MonthFromMarch, MonthOf, MonthDayOf
<1> HIDE DEF doy, mp, mon, mday
<1>1. mp \in 0 .. 11
  BY <1>0, MonthOfDay
<1>2. LeapDay(year) \in Int
  BY LeapDayInt
<1>3. mon \in 0 .. 11 /\ (mp < 10 => mon = mp + 2) /\ (mp >= 10 => mon = mp - 10)
  BY <1>0, <1>1
<1>4. DaysBefore[mon + 1] = IF mon <= 1 THEN (153 * mp + 2) \div 5 - 306 ELSE (153 * mp + 2) \div 5 + 59
  <2>1. mp \in {0, 1, 2, 3, 4, 5, 6, 7, 8, 9, 10, 11}
    BY <1>1
  <2>2. mon \in {0, 1, 2, 3, 4, 5, 6, 7, 8, 9, 10, 11}
    BY <1>3
  <2> QED BY <2>1, <2>2, <1>3, SMTT(20) DEF DaysBefore
<1>5. (153 * mp + 2) \div 5 \in Int
  BY <1>1
<1> DEFINE g == (153 * mp + 2) \div 5
<1> HIDE DEF g
<1>6. mday - 1 = doy - g /\ g \in Int
  BY <1>0, <1>5 DEF g
<1>7. DaysBefore[mon + 1] = IF mon <= 1 THEN g - 306 ELSE g + 59
  BY <1>4 DEF g
<1>8. mday \in Int
  BY <1>0, <1>5
<1>9. days_from_1jan(year, mon + 1, mday) = IF mon <= 1 THEN doy - 306 ELSE doy + 59 + LeapDay(year)
  BY <1>0, <1>2, <1>3, <1>6, <1>7, <1>8, SMTT(20) DEF days_from_1jan
<1> QED BY <1>9, Zenon DEF mon, mday, doy

\* A time of day is its hours, minutes and seconds.
LEMMA ClockParts ==
    ASSUME NEW s \in Int
    PROVE  s = 3600 * (s \div 3600) + 60 * ((s % 3600) \div 60) + (s % 60)
<1>2. s = 3600 * (s \div 3600) + (s % 3600) /\ s \div 3600 \in Int /\ s % 3600 \in Int
  BY SMTT(10)
<1>3. ASSUME NEW r \in Int
      PROVE  r = 60 * (r \div 60) + (r % 60) /\ r \div 60 \in Int /\ r % 60 \in Int
  BY SMTT(10)
<1>4. (s % 3600) % 60 = s % 60
  BY SMTT(10)
<1> DEFINE h == s \div 3600
           r == s % 3600
<1>5. r = 60 * (r \div 60) + (r % 60) /\ r \div 60 \in Int /\ r % 60 \in Int
  <2> HIDE DEF r
  <2> QED BY <1>3, <1>2 DEF r
<1> DEFINE m == r \div 60
           c == s % 60
<1>6. r = 60 * m + c /\ m \in Int /\ c \in Int
  BY <1>4, <1>5
<1>7. s = 3600 * h + r /\ h \in Int /\ r \in Int
  BY <1>2
<1>8. s = 3600 * h + 60 * m + c
  <2> HIDE DEF h, r, m, c
  <2> QED BY <1>6, <1>7, SMTT(10)
<1> QED BY <1>8, SMTT(10)

\* A day since the year 1, counted by the tables.
LEMMA DayIsCounted ==
    ASSUME NEW t \in Int, YearOf(t) >= 1
    PROVE  /\ DayOf(t) = days_from_0(YearOf(t)) - 719162
                          + days_from_1jan(YearOf(t), MonthOf(t) + 1, MonthDayOf(t))
           /\ days_from_1jan(YearOf(t), MonthOf(t) + 1, MonthDayOf(t)) \in Nat
<1> DEFINE y == YearInEra(t) + 400 * Era(t)
           g == YearInEra(t) \div 4 - YearInEra(t) \div 100
           doy == DayFromMarch(t)
           jan == days_from_1jan(YearOf(t), MonthOf(t) + 1, MonthDayOf(t))
           days == days_from_0(YearOf(t)) - 719162 + jan
<1>1. /\ doy \in 0 .. 365 /\ YearInEra(t) \in 0 .. 399 /\ Era(t) \in Int /\ DayOf(t) \in Int
      /\ MonthFromMarch(t) \in 0 .. 11
      /\ DayOf(t) + 719468 = 146097 * Era(t) + 365 * YearInEra(t) + g + doy
  <2>1. YearInEra(t) \in 0 .. 399 /\ Era(t) \in Int /\ doy \in 0 .. 365
    BY GmtimeParts, SMTT(10)
  <2>2. YearInEra(t) \div 4 \in Int /\ YearInEra(t) \div 100 \in Int
    BY <2>1, SMTT(10)
  <2>3. DayOf(t) + 719468 = 146097 * Era(t) + 365 * YearInEra(t) + YearInEra(t) \div 4
                               - YearInEra(t) \div 100 + doy
    BY GmtimeParts, SMTT(10)
  <2>4. DayOf(t) + 719468 = 146097 * Era(t) + 365 * YearInEra(t) + g + doy
    BY <2>1, <2>2, <2>3, SMTT(10)
  <2> QED BY <2>1, <2>4, GmtimeParts, SMTT(10)
<1>2. MonthOf(t) \in 0 .. 11 /\ (MonthOf(t) <= 1 <=> doy >= 306)
  BY PartsRange, SMTT(10)
<1>3. jan = IF MonthOf(t) <= 1 THEN doy - 306 ELSE doy + 59 + LeapDay(YearOf(t))
  BY TablesAgree, SMTT(10)
<1>4. YearOf(t) >= 1 /\ YearOf(t) \in Int /\ YearOf(t) = y + IF MonthOf(t) <= 1 THEN 1 ELSE 0
  BY PartsRange, SMTT(10) DEF YearOf
<1>5. y \in Int /\ y >= 0
  BY <1>1, <1>4, SMTT(10)
<1>6. days_from_0(y + 1) = 146097 * Era(t) + 365 * YearInEra(t) + g
  <2>1. days_from_0(y + 1) = 146097 * Era(t) + 365 * YearInEra(t) + YearInEra(t) \div 4 - YearInEra(t) \div 100
    <3> HIDE DEF g
    <3>1. y = YearInEra(t) + 400 * Era(t)
      OBVIOUS
    <3> HIDE DEF y
    <3> QED BY <3>1, <1>1, <1>5, EraYears, SMTT(10)
  <2>2. YearInEra(t) \div 4 \in Int /\ YearInEra(t) \div 100 \in Int
    BY <1>1, SMTT(10)
  <2> HIDE DEF y
  <2> QED BY <2>1, <2>2, <1>1, SMTT(10)
<1> HIDE DEF g
<1>7. days_from_0(YearOf(t)) + jan + 306 = days_from_0(y + 1) + doy
  <2>1. CASE MonthOf(t) <= 1
    <3>1. YearOf(t) = y + 1 /\ jan = doy - 306
      BY <2>1, <1>3, <1>4, SMTT(10)
    <3>2. days_from_0(y + 1) \in Int
      BY <1>5, DaysFrom0Int, SMTT(10)
    <3> HIDE DEF y, jan, doy
    <3> QED BY <3>1, <3>2, <1>1, SMTT(10)
  <2>2. CASE ~(MonthOf(t) <= 1)
    <3>1. YearOf(t) = y /\ jan = doy + 59 + LeapDay(y)
      BY <2>2, <1>3, <1>4, <1>5, SMTT(10)
    <3>2. days_from_0(y + 1) = days_from_0(y) + 365 + LeapDay(y)
      BY <3>1, <1>4, YearLength, SMTT(10)
    <3>3. days_from_0(y) \in Int /\ LeapDay(y) \in Int
      BY <1>5, DaysFrom0Int, LeapDayInt, SMTT(10)
    <3> HIDE DEF y, jan, doy
    <3> QED BY <3>1, <3>2, <3>3, <1>1, SMTT(10)
  <2> QED BY <2>1, <2>2, SMTT(10)
<1>8. days = DayOf(t)
  <2>1. days_from_0(YearOf(t)) \in Int /\ jan \in Int
    <3>1. jan \in Int
      BY <1>1, <1>3, LeapDayInt, SMTT(10)
    <3> QED BY <3>1, <1>4, DaysFrom0Int, SMTT(10)
  <2>2. days = days_from_0(YearOf(t)) - 719162 + jan
    OBVIOUS
  <2> DEFINE e == 146097 * Era(t) + 365 * YearInEra(t) + g
  <2>3. e \in Int
    <3>1. g \in Int
      BY <1>1, SMTT(10) DEF g
    <3> QED BY <3>1, <1>1, SMTT(10)
  <2>4. DayOf(t) + 719468 = e + doy /\ days_from_0(YearOf(t)) + jan + 306 = e + doy
    BY <1>1, <1>6, <1>7, SMTT(10)
  <2> DEFINE z == DayOf(t)
             from == days_from_0(YearOf(t))
  <2>5. /\ z \in Int /\ doy \in Int /\ from \in Int /\ z + 719468 = e + doy /\ from + jan + 306 = e + doy
        /\ days = from - 719162 + jan
    BY <1>1, <2>1, <2>2, <2>4, SMTT(10)
  <2> HIDE DEF days, jan, y, doy, e, z, from
  <2>6. days = z
    BY <2>1, <2>3, <2>5, SMTT(10)
  <2> QED BY <2>6, Zenon DEF z
<1>9. jan \in Nat
  BY <1>1, <1>2, <1>3, LeapDayInt, SMTT(10)
<1> HIDE DEF jan
<1> QED BY <1>8, <1>9, SMTT(10) DEF jan

\* The year 1 begins with the day 719162 days before 1970.
LEMMA FromYearOne ==
    ASSUME NEW t \in Int, DayOf(t) >= -719162
    PROVE  YearOf(t) >= 1
<1>1. /\ DayFromMarch(t) \in 0 .. 365 /\ YearInEra(t) \in 0 .. 399 /\ Era(t) \in Int /\ DayOf(t) \in Int
      /\ DayOf(t) + 719468 = 146097 * Era(t) + 365 * YearInEra(t) + YearInEra(t) \div 4
                               - YearInEra(t) \div 100 + DayFromMarch(t)
  BY GmtimeParts, SMTT(10)
<1>2. DayOf(t) + 719468 >= 306
  BY <1>1, SMTT(10)
<1>3. MonthOf(t) <= 1 <=> DayFromMarch(t) >= 306
  BY PartsRange, SMTT(10)
<1> DEFINE g == YearInEra(t) \div 4 - YearInEra(t) \div 100
<1>4. g \in 0 .. 99
  BY <1>1, SMTT(10)
<1>5. DayOf(t) + 719468 = 146097 * Era(t) + 365 * YearInEra(t) + g + DayFromMarch(t)
  BY <1>1, SMTT(10)
<1>6. YearInEra(t) = 0 => g = 0
  BY <1>1, SMTT(10)
<1> HIDE DEF g
<1>7. Era(t) >= 0
  <2> DEFINE era == Era(t)
             yoe == YearInEra(t)
             doy == DayFromMarch(t)
             day == DayOf(t)
  <2>1. era \in Int /\ yoe \in 0 .. 399 /\ doy \in 0 .. 365 /\ day \in Int /\ g \in 0 .. 99
    BY <1>1, <1>4, SMTT(10)
  <2>2. day + 719468 >= 306 /\ day + 719468 = 146097 * era + 365 * yoe + g + doy
    BY <1>2, <1>5, SMTT(10)
  <2> HIDE DEF era, yoe, doy, day
  <2>3. era >= 0
    BY <2>1, <2>2, SMTT(10)
  <2> QED BY <2>3, SMTT(10) DEF era
<1>8. CASE YearInEra(t) + 400 * Era(t) >= 1
  BY <1>8, <1>1, SMTT(10) DEF YearOf
<1>9. CASE ~(YearInEra(t) + 400 * Era(t) >= 1)
  <2>1. YearInEra(t) = 0 /\ Era(t) = 0
    BY <1>9, <1>1, <1>7, SMTT(10)
  <2>2. DayFromMarch(t) >= 306
    BY <2>1, <1>1, <1>2, <1>5, <1>6, SMTT(10)
  <2> QED BY <2>1, <2>2, <1>3, SMTT(10) DEF YearOf
<1> QED BY <1>8, <1>9, SMTT(10)

LEMMA SinceYearOne ==
    ASSUME NEW t \in Int
    PROVE  YearOf(t) >= 1 <=> DayOf(t) >= -719162
<1>1. ASSUME YearOf(t) >= 1
      PROVE  DayOf(t) >= -719162
  <2> DEFINE from == days_from_0(YearOf(t))
             jan == days_from_1jan(YearOf(t), MonthOf(t) + 1, MonthDayOf(t))
             y == YearOf(t)
             p == y - 1
  <2>1. DayOf(t) = from - 719162 + jan /\ jan \in Nat
    BY <1>1, DayIsCounted, SMTT(10)
  <2>2. y \in Int /\ y >= 1
    BY <1>1, PartsRange, SMTT(10)
  <2>3. from \in Int /\ from >= 0
    <3> HIDE DEF y
    <3>1. from = 365 * p + p \div 400 - p \div 100 + p \div 4
      BY <2>2, YearsFrom0, SMTT(10) DEF y
    <3>2. p \in Nat
      BY <2>2, SMTT(10)
    <3> HIDE DEF p, from
    <3>3. 365 * p + p \div 400 - p \div 100 + p \div 4 \in Nat
      BY <3>2, SMTT(20)
    <3> QED BY <3>1, <3>3, SMTT(10)
  <2> HIDE DEF from, jan
  <2> QED BY <2>1, <2>3, SMTT(10)
<1> QED BY <1>1, FromYearOne, SMTT(10)

\* internal_timegm (gregorian.cpp:69), which counts by tables of months and leap
\* years, inverts the C library's gmtime at every instant since the year 1.
THEOREM TimegmInvertsGmtime ==
    ASSUME NEW t \in Int, gmtime(t).year >= 1
    PROVE  internal_timegm(gmtime(t)) = t
<1> DEFINE jan == days_from_1jan(YearOf(t), MonthOf(t) + 1, MonthDayOf(t))
           days == days_from_0(YearOf(t)) - days_from_0(1970) + jan
<1>1. YearOf(t) >= 1 /\ YearOf(t) \in Int
  BY GmtimeIs, PartsRange, SMTT(10)
<1>2. MonthOf(t) \in 0 .. 11 /\ DayOf(t) \in Int
  BY PartsRange, GmtimeParts, SMTT(10)
<1>3. days_from_0(1970) = 719162
  BY SMTT(10) DEF days_from_0, CDiv
<1>4. days = DayOf(t)
  BY <1>1, <1>3, DayIsCounted, SMTT(10)
<1>5. internal_timegm(gmtime(t)) = 86400 * days + 3600 * HourOf(t) + 60 * MinuteOf(t) + SecondOf(t)
  <2> DEFINE f == gmtime(t)
             carry == IF f.mon > 11 THEN f.mon \div 12
                      ELSE IF f.mon < 0 THEN -((11 - f.mon) \div 12) ELSE 0
  <2>1. /\ f.year = YearOf(t) /\ f.mon = MonthOf(t) /\ f.mday = MonthDayOf(t) /\ f.hour = HourOf(t)
        /\ f.min = MinuteOf(t) /\ f.sec = SecondOf(t)
    BY GmtimeIs, SMTT(10)
  <2> HIDE DEF f
  <2>2. carry = 0
    BY <2>1, <1>2, SMTT(10)
  <2>3. f.year + carry = YearOf(t) /\ f.mon - 12 * carry + 1 = MonthOf(t) + 1
    <3> HIDE DEF carry
    <3> QED BY <2>1, <2>2, <1>1, <1>2, SMTT(10)
  <2>4. internal_timegm(f) =
            86400 * (days_from_0(f.year + carry) - days_from_0(1970)
                       + days_from_1jan(f.year + carry, f.mon - 12 * carry + 1, f.mday))
              + 3600 * f.hour + 60 * f.min + f.sec
    BY SMTT(10) DEF internal_timegm
  <2> HIDE DEF carry
  <2> QED BY <2>1, <2>3, <2>4, SMTT(10) DEF f
<1>6. t = 86400 * DayOf(t) + 3600 * HourOf(t) + 60 * MinuteOf(t) + SecondOf(t)
  <2> DEFINE s == t % 86400
  <2>1. s \in Int /\ 0 <= s /\ s < 86400 /\ t = 86400 * DayOf(t) + s
    BY SMTT(10) DEF DayOf
  <2>2. HourOf(t) = s \div 3600 /\ MinuteOf(t) = (s % 3600) \div 60 /\ SecondOf(t) = s % 60
    BY SMTT(10) DEF HourOf, MinuteOf, SecondOf
  <2> HIDE DEF s
  <2>3. s = 3600 * (s \div 3600) + 60 * ((s % 3600) \div 60) + (s % 60)
    BY <2>1, ClockParts, SMTT(10)
  <2>4. s = 3600 * HourOf(t) + 60 * MinuteOf(t) + SecondOf(t)
    BY <2>2, <2>3, SMTT(10)
  <2>5. HourOf(t) \in Int /\ MinuteOf(t) \in Int /\ SecondOf(t) \in Int
    BY <2>1, <2>2, SMTT(10)
  <2> QED BY <2>1, <2>4, <2>5, <1>2, SMTT(10)
<1> HIDE DEF days
<1> QED BY <1>4, <1>5, <1>6, SMTT(10)

-----------------------------------------------------------------------------
(* The fields that internal_timegm takes in any range. *)

\* A month out of range is the month of the year that it carries into.
LEMMA TimegmCarries ==
    ASSUME NEW t \in Tm, NEW months, months = 12 * t.year + t.mon
    PROVE  internal_timegm(t) =
             internal_timegm([t EXCEPT !.year = months \div 12, !.mon = months % 12])
<1> DEFINE carry == IF t.mon > 11 THEN t.mon \div 12
                    ELSE IF t.mon < 0 THEN -((11 - t.mon) \div 12) ELSE 0
           y == t.year
           m == t.mon
           u == [t EXCEPT !.year = months \div 12, !.mon = months % 12]
           none == IF u.mon > 11 THEN u.mon \div 12
                   ELSE IF u.mon < 0 THEN -((11 - u.mon) \div 12) ELSE 0
<1>1. y \in Int /\ m \in Int /\ months = 12 * y + m
  BY DEF Tm
<1>2. carry = m \div 12
  <2> HIDE DEF m
  <2>1. CASE m > 11
    BY <2>1, Zenon DEF m
  <2>2. CASE m < 0
    <3>1. carry = -((11 - m) \div 12)
      BY <2>2, <1>1, SMTT(10) DEF m
    <3>2. -((11 - m) \div 12) = m \div 12
      BY <1>1, SMTT(10)
    <3> QED BY <3>1, <3>2, Zenon
  <2>3. CASE ~(m > 11) /\ ~(m < 0)
    <3>1. carry = 0
      BY <2>3, <1>1, SMTT(10) DEF m
    <3>2. m \div 12 = 0
      BY <2>3, <1>1, SMTT(10)
    <3> QED BY <3>1, <3>2, Zenon
  <2> QED BY <2>1, <2>2, <2>3
<1>3. months \div 12 = y + carry /\ months % 12 = m - 12 * carry
  <2> HIDE DEF carry, y, m
  <2> QED BY <1>1, <1>2, SMTT(10)
<1>4. /\ u.year = months \div 12 /\ u.mon = months % 12 /\ u.mday = t.mday
      /\ u.hour = t.hour /\ u.min = t.min /\ u.sec = t.sec
  BY DEF Tm
<1>5. u.mon \in 0 .. 11 /\ u.year \in Int /\ u.mon \in Int /\ carry \in Int
  <2>1. months \in Int /\ m \div 12 \in Int
    BY <1>1, SMTT(10)
  <2> HIDE DEF m, carry
  <2> QED BY <2>1, <1>2, <1>4, SMTT(10)
<1> HIDE DEF u
<1>6. none = 0
  BY <1>5, SMTT(10)
<1>7. u.year + none = y + carry /\ u.mon - 12 * none + 1 = m - 12 * carry + 1
  <2> HIDE DEF none, carry, y, m
  <2> QED BY <1>1, <1>3, <1>4, <1>5, <1>6, SMTT(10)
<1>8. internal_timegm(t) =
          86400 * (days_from_0(y + carry) - days_from_0(1970)
                     + days_from_1jan(y + carry, m - 12 * carry + 1, t.mday))
            + 3600 * t.hour + 60 * t.min + t.sec
  BY SMTT(10) DEF internal_timegm
<1>9. internal_timegm(u) =
          86400 * (days_from_0(u.year + none) - days_from_0(1970)
                     + days_from_1jan(u.year + none, u.mon - 12 * none + 1, u.mday))
            + 3600 * u.hour + 60 * u.min + u.sec
  BY SMTT(10) DEF internal_timegm
<1> HIDE DEF none, carry, y, m
<1> QED BY <1>4, <1>7, <1>8, <1>9, SMTT(10) DEF u

\* A day more in the fields is a day later.
LEMMA TimegmAddsDays ==
    ASSUME NEW t \in Tm, NEW n \in Int
    PROVE  internal_timegm([t EXCEPT !.mday = @ + n]) = internal_timegm(t) + 86400 * n
<1> DEFINE carry == IF t.mon > 11 THEN t.mon \div 12
                    ELSE IF t.mon < 0 THEN -((11 - t.mon) \div 12) ELSE 0
           y == t.year + carry
           m == t.mon - 12 * carry + 1
           from == days_from_0(y) - days_from_0(1970)
           u == [t EXCEPT !.mday = @ + n]
<1>1. /\ u.year = t.year /\ u.mon = t.mon /\ u.mday = t.mday + n
      /\ u.hour = t.hour /\ u.min = t.min /\ u.sec = t.sec
  BY DEF Tm
<1>2. /\ t.year \in Int /\ t.mon \in Int /\ t.mday \in Int
      /\ t.hour \in Int /\ t.min \in Int /\ t.sec \in Int
  BY DEF Tm
<1>3. carry \in Int /\ m \in 1 .. 12
  BY <1>2, MonthInRange
<1>4. from \in Int
  <2> HIDE DEF carry
  <2>1. y \in Int
    BY <1>2, <1>3
  <2> HIDE DEF y
  <2> QED BY <2>1, DaysFrom0Int
<1>5. internal_timegm(t) = 86400 * (from + days_from_1jan(y, m, t.mday)) + 3600 * t.hour + 60 * t.min + t.sec
  BY SMTT(10) DEF internal_timegm
<1>6. internal_timegm(u) = 86400 * (from + days_from_1jan(y, m, t.mday + n)) + 3600 * t.hour + 60 * t.min + t.sec
  <2> HIDE DEF u
  <2> QED BY <1>1, SMTT(10) DEF internal_timegm
<1> HIDE DEF y, m, from, carry
<1>7. days_from_1jan(y, m, t.mday) \in Int
  BY <1>2, <1>3, DaysFrom1JanInt
<1>8. days_from_1jan(y, m, t.mday + n) = days_from_1jan(y, m, t.mday) + n
  <2>1. DaysBefore[m] \in Int /\ (IF m > 2 THEN LeapDay(y) ELSE 0) \in Int
    BY <1>3, LeapDayInt, SMTT(10) DEF DaysBefore
  <2> QED BY <1>2, <2>1, SMTT(10) DEF days_from_1jan
<1> DEFINE jan == days_from_1jan(y, m, t.mday)
           clock == 3600 * t.hour + 60 * t.min + t.sec
<1>9. clock \in Int
  BY <1>2, SMTT(10)
<1>10. internal_timegm(t) = 86400 * (from + jan) + clock /\ internal_timegm(u) = 86400 * (from + (jan + n)) + clock
  BY <1>2, <1>4, <1>5, <1>6, <1>7, <1>8, SMTT(10)
<1> HIDE DEF jan, clock
<1>11. internal_timegm(u) = internal_timegm(t) + 86400 * n
  BY <1>4, <1>7, <1>9, <1>10, SMTT(10) DEF jan
<1> QED BY <1>11, SMTT(10) DEF u

-----------------------------------------------------------------------------
(* The dates since the year 1, one for every day. *)

\* The 366th day of a year that starts on 1 March is a leap day.
LEMMA LeapDayOfEra ==
    ASSUME NEW doe \in Int, 0 <= doe, doe < 146097,
           NEW yoe \in Int, 0 <= yoe, yoe <= 399, doe - (365 * yoe + yoe \div 4 - yoe \div 100) = 365,
           yoe = (doe - doe \div 1460 + doe \div 36524 - doe \div 146096) \div 365
    PROVE  (yoe + 1) % 4 = 0 /\ ((yoe + 1) % 100 # 0 \/ yoe = 399)
  BY SMTT(60)

Weekdays == 0 .. 6

\* What get_week_number counts (gregorian.cpp:241): it numbers the fourth day of the
\* day's week, and says -1 where that day is before the first of the period.
LEMMA WeekNumberNamesFourthDay ==
    ASSUME NEW day \in Int, 0 <= day, day <= 400, NEW w \in Weekdays, NEW fdow \in Weekdays,
           NEW fourth, fourth = day - ((w - fdow + 7) % 7) + 3
    PROVE  get_week_number(day, w, fdow) = IF fourth < 0 THEN -1 ELSE fourth \div 7 + 1
<1> DEFINE dow == (w - fdow + 7) % 7
           first == (dow + 700 - day) % 7
           start == IF first < 4 THEN -first ELSE 7 - first
<1>1. dow \in 0 .. 6
  BY SMTT(10) DEF Weekdays
<1>2. get_week_number(day, w, fdow) = IF day < start THEN -1 ELSE (day - start) \div 7 + 1
  BY DEF get_week_number
<1>3. fourth = day - dow + 3
  OBVIOUS
<1> HIDE DEF dow
<1>4. first \in 0 .. 6
  BY <1>1, SMTT(20)
<1>5. PICK k \in Int : day + first = 7 * k + dow
  <2> DEFINE j == (dow + 700 - day) \div 7
  <2>1. j \in Int /\ dow + 700 - day = 7 * j + first
    BY <1>1, SMTT(20)
  <2>2. 100 - j \in Int /\ day + first = 7 * (100 - j) + dow
    <3> HIDE DEF j, first
    <3> QED BY <1>1, <1>4, <2>1, SMTT(20)
  <2> QED BY <2>2
<1> HIDE DEF first
<1>6. first < 4 => (day - start) \div 7 = k /\ fourth \div 7 = k /\ ~(fourth < 0) /\ ~(day < start)
  BY <1>1, <1>3, <1>4, <1>5, SMTT(20)
<1>7. first >= 4 => /\ (day - start) \div 7 = k - 1 /\ fourth \div 7 = k - 1
                    /\ fourth < 0 <=> day < start
  BY <1>1, <1>3, <1>4, <1>5, SMTT(20)
<1>8. CASE first < 4
  <2> HIDE DEF start
  <2> QED BY <1>2, <1>6, <1>8
<1>9. CASE ~(first < 4)
  <2>1. first >= 4
    BY <1>4, <1>9
  <2>2. CASE fourth < 0
    <3> HIDE DEF start
    <3> QED BY <1>2, <1>7, <2>1, <2>2
  <2>3. CASE ~(fourth < 0)
    <3> HIDE DEF start
    <3> QED BY <1>2, <1>7, <2>1, <2>3
  <2> QED BY <2>2, <2>3
<1> QED BY <1>8, <1>9

\* Years are at least 365 days apart.
LEMMA YearsApart ==
    ASSUME NEW y \in Int, NEW z \in Int, 1 <= y, y <= z
    PROVE  days_from_0(z) >= days_from_0(y) + 365 * (z - y)
<1> DEFINE p == y - 1
           q == z - 1
           a == p \div 4
           b == p \div 100
           e == p \div 400
           f == q \div 4
           g == q \div 100
           h == q \div 400
<1>1. p \in Int /\ q \in Int /\ p >= 0 /\ p <= q /\ z - y = q - p
  BY SMTT(10)
<1>2. days_from_0(y) = 365 * p + e - b + a /\ days_from_0(z) = 365 * q + h - g + f
  BY YearsFrom0, SMTT(10)
<1> HIDE DEF p, q
<1>3. a \in Int /\ b \in Int /\ e \in Int /\ f \in Int /\ g \in Int /\ h \in Int
  BY <1>1, DivMod
<1>4. e <= h /\ a - b <= f - g
  <2>1. e <= h
    BY <1>1, SMTT(10)
  <2>2. /\ b = a \div 25 /\ g = f \div 25 /\ a <= f
    BY <1>1, SMTT(10)
  <2> HIDE DEF a, b, f, g
  <2>3. a - b <= f - g
    BY <1>3, <2>2, SMTT(10)
  <2> QED BY <2>1, <2>3
<1> HIDE DEF a, b, e, f, g, h
<1> QED BY <1>1, <1>2, <1>3, <1>4, SMTT(10)

\* A year begins after all days of the one before.
LEMMA YearsInOrder ==
    ASSUME NEW y \in Int, NEW z \in Int, 1 <= y, y < z
    PROVE  days_from_0(z) >= days_from_0(y) + days_in_year(y)
<1>1. days_from_0(y + 1) = days_from_0(y) + 365 + LeapDay(y)
  BY YearLength
<1>2. y + 1 \in Int /\ 1 <= y + 1 /\ y + 1 <= z
  BY SMTT(10)
<1>3. days_from_0(z) >= days_from_0(y + 1) + 365 * (z - (y + 1))
  BY <1>2, YearsApart, SMTT(10)
<1>4. days_from_0(z) \in Int /\ days_from_0(y) \in Int /\ days_from_0(y + 1) \in Int /\ LeapDay(y) \in Int
  BY <1>2, DaysFrom0Int, LeapDayInt, SMTT(10)
<1> QED BY <1>1, <1>3, <1>4, SMTT(10) DEF days_in_year
\* Where the months of a year begin.
MonthFrom(y, mon) == DaysBefore[mon + 1] + (IF mon + 1 > 2 THEN LeapDay(y) ELSE 0)

LEMMA MonthsInOrder ==
    ASSUME NEW y, NEW a \in 0 .. 11
    PROVE  /\ MonthFrom(y, a) \in Nat /\ days_in_month(y, a + 1) \in 28 .. 31
           /\ MonthFrom(y, a) + days_in_month(y, a + 1) <= days_in_year(y)
           /\ \A b \in 0 .. 11 : a < b => MonthFrom(y, a) + days_in_month(y, a + 1) <= MonthFrom(y, b)
<1> DEFINE l == LeapDay(y)
<1>1. l \in 0 .. 1
  BY LeapDayInt
<1>2. a \in {0, 1, 2, 3, 4, 5, 6, 7, 8, 9, 10, 11}
  BY SMTT(10)
<1>3. /\ MonthFrom(y, a) = DaysBefore[a + 1] + (IF a + 1 > 2 THEN l ELSE 0)
      /\ days_in_month(y, a + 1) = MonthDays[a + 1] + IF a + 1 = 2 THEN l ELSE 0
      /\ days_in_year(y) = 365 + l
  BY DEF MonthFrom, days_in_month, days_in_year
<1>4. \A b \in 0 .. 11 : MonthFrom(y, b) = DaysBefore[b + 1] + (IF b + 1 > 2 THEN l ELSE 0)
  BY DEF MonthFrom
<1> HIDE DEF l
<1>5. /\ MonthFrom(y, a) \in Nat /\ days_in_month(y, a + 1) \in 28 .. 31
      /\ MonthFrom(y, a) + days_in_month(y, a + 1) <= days_in_year(y)
  BY <1>1, <1>2, <1>3, SMTT(20) DEF DaysBefore, MonthDays
<1>6. ASSUME NEW b \in 0 .. 11, a < b
      PROVE  MonthFrom(y, a) + days_in_month(y, a + 1) <= MonthFrom(y, b)
  <2>1. b \in {0, 1, 2, 3, 4, 5, 6, 7, 8, 9, 10, 11}
    BY SMTT(10)
  <2> QED BY <1>1, <1>2, <1>3, <1>4, <1>6, <2>1, SMTT(60) DEF DaysBefore, MonthDays
<1> QED BY <1>5, <1>6

\* A date: a day of a month of a year.
IsDate(y, mon, mday) == y \in Int /\ y >= 1 /\ mon \in 0 .. 11 /\ mday \in 1 .. days_in_month(y, mon + 1)

LEMMA DateIsDayOfYear ==
    ASSUME NEW y, NEW mon, NEW mday, IsDate(y, mon, mday)
    PROVE  /\ days_from_1jan(y, mon + 1, mday) = MonthFrom(y, mon) + mday - 1
           /\ days_from_1jan(y, mon + 1, mday) \in 0 .. days_in_year(y) - 1
<1>1. /\ MonthFrom(y, mon) \in Nat /\ days_in_month(y, mon + 1) \in 28 .. 31
      /\ MonthFrom(y, mon) + days_in_month(y, mon + 1) <= days_in_year(y)
  BY MonthsInOrder DEF IsDate
<1>2. mday \in Int /\ 1 <= mday /\ mday <= days_in_month(y, mon + 1)
  BY <1>1, SMTT(10) DEF IsDate
<1>3. days_from_1jan(y, mon + 1, mday) = MonthFrom(y, mon) + mday - 1
  BY DEF days_from_1jan, MonthFrom
<1>4. days_in_year(y) \in Int
  BY LeapDayInt DEF days_in_year
<1> QED BY <1>1, <1>2, <1>3, <1>4, SMTT(10)

\* The day of a year is that of one year, and of one date.
LEMMA OneYear ==
    ASSUME NEW y \in Int, NEW z \in Int, y >= 1, z >= 1,
           NEW j \in 0 .. days_in_year(y) - 1, NEW k \in 0 .. days_in_year(z) - 1,
           days_from_0(y) + j = days_from_0(z) + k
    PROVE  y = z /\ j = k
<1>1. /\ days_from_0(y) \in Int /\ days_from_0(z) \in Int
      /\ days_in_year(y) \in Int /\ days_in_year(z) \in Int
  BY DaysFrom0Int, LeapDayInt, SMTT(10) DEF days_in_year
<1>2. j \in Int /\ 0 <= j /\ j < days_in_year(y) /\ k \in Int /\ 0 <= k /\ k < days_in_year(z)
  BY <1>1, SMTT(10)
<1>3. ~(y < z)
  BY <1>1, <1>2, YearsInOrder, SMTT(10)
<1>4. ~(z < y)
  BY <1>1, <1>2, YearsInOrder, SMTT(10)
<1> QED BY <1>1, <1>2, <1>3, <1>4, SMTT(10)

LEMMA OneDate ==
    ASSUME NEW y, NEW a, NEW d, IsDate(y, a, d), NEW b, NEW e, IsDate(y, b, e),
           days_from_1jan(y, a + 1, d) = days_from_1jan(y, b + 1, e)
    PROVE  a = b /\ d = e
<1>1. MonthFrom(y, a) + d - 1 = MonthFrom(y, b) + e - 1
  BY DateIsDayOfYear
<1>2. /\ MonthFrom(y, a) \in Nat /\ MonthFrom(y, b) \in Nat
      /\ days_in_month(y, a + 1) \in Int /\ days_in_month(y, b + 1) \in Int
      /\ a \in Int /\ b \in Int
      /\ a < b => MonthFrom(y, a) + days_in_month(y, a + 1) <= MonthFrom(y, b)
      /\ b < a => MonthFrom(y, b) + days_in_month(y, b + 1) <= MonthFrom(y, a)
  BY MonthsInOrder, SMTT(10) DEF IsDate
<1>3. d \in Int /\ 1 <= d /\ d <= days_in_month(y, a + 1) /\ e \in Int /\ 1 <= e /\ e <= days_in_month(y, b + 1)
  BY <1>2, SMTT(10) DEF IsDate
<1> QED BY <1>1, <1>2, <1>3, SMTT(10)

\* gmtime names days that exist: 29 February only in leap years.
LEMMA GmtimeIsDate ==
    ASSUME NEW t \in Int, YearOf(t) >= 1
    PROVE  IsDate(YearOf(t), MonthOf(t), MonthDayOf(t))
<1> DEFINE doy == DayFromMarch(t)
           mp == MonthFromMarch(t)
           mon == MonthOf(t)
           mday == MonthDayOf(t)
           yoe == YearInEra(t)
           era == Era(t)
           l == LeapDay(YearOf(t))
<1>1. /\ doy \in 0 .. 365 /\ mp = (5 * doy + 2) \div 153 /\ mp \in 0 .. 11
      /\ mon = IF mp < 10 THEN mp + 2 ELSE mp - 10
      /\ mday = doy - (153 * mp + 2) \div 5 + 1
      /\ yoe \in 0 .. 399 /\ era \in Int
  BY GmtimeParts, SMTT(10) DEF MonthFromMarch, MonthOf, MonthDayOf
<1>2. mday \in 1 .. 31 /\ YearOf(t) \in Int /\ mon \in 0 .. 11
  BY PartsRange, SMTT(10)
<1>3. doy = 365 => l = 1
  <2> SUFFICES ASSUME doy = 365 PROVE l = 1
    OBVIOUS
  <2> DEFINE doe == DayInEra(t)
  <2>1. (yoe + 1) % 4 = 0 /\ ((yoe + 1) % 100 # 0 \/ yoe = 399)
    <3>1. doe \in Int /\ 0 <= doe /\ doe < 146097
      BY GmtimeParts, SMTT(30) DEF DayInEra
    <3>2. /\ yoe = (doe - doe \div 1460 + doe \div 36524 - doe \div 146096) \div 365
          /\ doe - (365 * yoe + yoe \div 4 - yoe \div 100) = 365
      BY SMTT(10) DEF YearInEra, DayFromMarch
    <3>3. yoe \in Int /\ 0 <= yoe /\ yoe <= 399
      BY <1>1, SMTT(10)
    <3> HIDE DEF doe, yoe
    <3> QED BY <3>1, <3>2, <3>3, LeapDayOfEra, SMTT(20)
  <2>2. mon <= 1
    BY <1>1, SMTT(10)
  <2>3. YearOf(t) = yoe + 1 + 400 * era
    BY <1>1, <2>2, SMTT(10) DEF YearOf
  <2> HIDE DEF yoe, era
  <2>4. is_leap(yoe + 1 + 400 * era)
    <3>1. CASE yoe = 399
      <4>1. (yoe + 1 + 400 * era) % 400 = 0
        BY <1>1, <3>1, SMTT(10)
      <4> QED BY <4>1 DEF is_leap
    <3>2. CASE yoe # 399
      <4>1. (yoe + 1 + 400 * era) % 4 = 0
        BY <1>1, <2>1, SMTT(10)
      <4>2. (yoe + 1 + 400 * era) % 100 # 0
        BY <1>1, <2>1, <3>2, SMTT(10)
      <4> QED BY <4>1, <4>2 DEF is_leap
    <3> QED BY <3>1, <3>2
  <2> QED BY <2>3, <2>4 DEF LeapDay
<1>4. l \in 0 .. 1
  BY LeapDayInt
<1>5. days_in_month(YearOf(t), mon + 1) = MonthDays[mon + 1] + IF mon + 1 = 2 THEN l ELSE 0
  BY DEF days_in_month
<1> HIDE DEF doy, mp, mon, mday, yoe, era, l
<1>6. mp \in {0, 1, 2, 3, 4, 5, 6, 7, 8, 9, 10, 11}
  BY <1>1, SMTT(10)
<1>7. mday <= MonthDays[mon + 1] + IF mon + 1 = 2 THEN l ELSE 0
  BY <1>1, <1>3, <1>4, <1>6, SMTT(60) DEF MonthDays
<1>8. IsDate(YearOf(t), mon, mday)
  <2>1. days_in_month(YearOf(t), mon + 1) \in Int
    BY <1>2, MonthsInOrder, SMTT(10)
  <2> QED BY <1>2, <1>5, <1>7, <2>1, SMTT(10) DEF IsDate
<1> QED BY <1>8, Zenon DEF mon, mday

LEMMA YearDayIsCounted ==
    ASSUME NEW t \in Int, YearOf(t) >= 1
    PROVE  /\ YearDayOf(t) = days_from_1jan(YearOf(t), MonthOf(t) + 1, MonthDayOf(t))
           /\ YearDayOf(t) \in 0 .. days_in_year(YearOf(t)) - 1
           /\ DayOf(t) = days_from_0(YearOf(t)) - 719162 + YearDayOf(t)
<1>1. YearDayOf(t) = days_from_1jan(YearOf(t), MonthOf(t) + 1, MonthDayOf(t))
  BY TablesAgree DEF YearDayOf
<1> QED BY <1>1, GmtimeIsDate, DateIsDayOfYear, DayIsCounted, SMTT(10)

\* A day of a year since the year 1 is found in that year.
LEMMA YearDayIsFound ==
    ASSUME NEW t \in Int, NEW y \in Int, y >= 1, NEW j \in 0 .. days_in_year(y) - 1,
           DayOf(t) = days_from_0(y) - 719162 + j
    PROVE  YearOf(t) = y /\ YearDayOf(t) = j
<1> DEFINE k == YearDayOf(t)
           z == YearOf(t)
<1>1. days_in_year(y) \in Int /\ j \in Int /\ j >= 0
  <2>1. days_in_year(y) \in Int
    BY LeapDayInt, SMTT(10) DEF days_in_year
  <2> QED BY <2>1, SMTT(10)
<1>2. days_from_0(y) \in Int /\ days_from_0(y) >= 0
  <2>1. days_from_0(1) = 0
    BY SMTT(10) DEF days_from_0, CDiv
  <2>2. days_from_0(y) >= days_from_0(1) + 365 * (y - 1)
    BY YearsApart, SMTT(10)
  <2> QED BY <2>1, <2>2, DaysFrom0Int, SMTT(10)
<1>3. z >= 1 /\ z \in Int
  <2>1. DayOf(t) >= -719162
    BY <1>1, <1>2, SMTT(10)
  <2> QED BY <2>1, FromYearOne, PartsRange, SMTT(10)
<1>4. /\ k \in 0 .. days_in_year(z) - 1
      /\ DayOf(t) = days_from_0(z) - 719162 + k
  BY <1>3, YearDayIsCounted, SMTT(10)
<1>5. days_from_0(y) + j = days_from_0(z) + k
  <2>1. days_from_0(z) \in Int /\ k \in Int
    BY <1>3, <1>4, DaysFrom0Int, PartsRange, SMTT(10)
  <2>2. days_from_0(y) - 719162 + j = days_from_0(z) - 719162 + k
    BY <1>4, SMTT(10)
  <2> HIDE DEF k, z
  <2> QED BY <1>1, <1>2, <2>1, <2>2, SMTT(10)
<1> HIDE DEF k, z
<1>6. z = y /\ k = j
  BY <1>3, <1>4, <1>5, OneYear, SMTT(10)
<1> QED BY <1>6, SMTT(10) DEF k, z

\* The fields of the instant of a date and a time are that date and time.
LEMMA DateIsFound ==
    ASSUME NEW t \in Int, NEW y, NEW mon, NEW mday, IsDate(y, mon, mday),
           DayOf(t) = days_from_0(y) - 719162 + days_from_1jan(y, mon + 1, mday)
    PROVE  /\ YearOf(t) = y /\ MonthOf(t) = mon /\ MonthDayOf(t) = mday
           /\ YearDayOf(t) = days_from_1jan(y, mon + 1, mday)
<1> DEFINE j == days_from_1jan(y, mon + 1, mday)
<1>1. y \in Int /\ y >= 1
  BY SMTT(10) DEF IsDate
<1>2. j \in 0 .. days_in_year(y) - 1
  BY DateIsDayOfYear, SMTT(10)
<1> HIDE DEF j
<1>3. YearOf(t) = y /\ YearDayOf(t) = j
  BY <1>1, <1>2, YearDayIsFound, SMTT(10) DEF j
<1>4. IsDate(y, MonthOf(t), MonthDayOf(t)) /\ j = days_from_1jan(y, MonthOf(t) + 1, MonthDayOf(t))
  BY <1>1, <1>3, GmtimeIsDate, YearDayIsCounted, SMTT(10)
<1>5. MonthOf(t) = mon /\ MonthDayOf(t) = mday
  BY <1>4, OneDate, SMTT(10) DEF j
<1> QED BY <1>3, <1>5, SMTT(10) DEF j

\* The instant of a day and a time of day.
InstantAt(d, h, m, s) == 86400 * d + 3600 * h + 60 * m + s

IsClock(h, m, s) == h \in 0 .. 23 /\ m \in 0 .. 59 /\ s \in 0 .. 59

LEMMA ClockIsRead ==
    ASSUME NEW d \in Int, NEW h, NEW m, NEW s, IsClock(h, m, s),
           NEW t, t = InstantAt(d, h, m, s)
    PROVE  t \in Int /\ DayOf(t) = d /\ HourOf(t) = h /\ MinuteOf(t) = m /\ SecondOf(t) = s
<1> DEFINE r == 3600 * h + 60 * m + s
<1> USE DEF IsClock
<1>1. r \in Int /\ 0 <= r /\ r < 86400 /\ t = 86400 * d + r
  BY SMTT(10) DEF InstantAt
<1>2. r \div 3600 = h /\ (r % 3600) = 60 * m + s /\ r % 60 = s
  BY SMTT(20)
<1>3. (60 * m + s) \div 60 = m
  BY SMTT(10)
<1> HIDE DEF r
<1>4. t \in Int /\ t \div 86400 = d /\ t % 86400 = r
  BY <1>1, SMTT(10)
<1> QED BY <1>2, <1>3, <1>4, SMTT(10) DEF DayOf, HourOf, MinuteOf, SecondOf

\* The instant that internal_timegm makes of a month in range.
LEMMA TimegmIs ==
    ASSUME NEW u \in Tm, u.mon \in 0 .. 11
    PROVE  /\ internal_timegm(u) =
                 InstantAt(days_from_0(u.year) - 719162 + days_from_1jan(u.year, u.mon + 1, u.mday),
                           u.hour, u.min, u.sec)
           /\ days_from_0(u.year) - 719162 + days_from_1jan(u.year, u.mon + 1, u.mday) \in Int
<1> DEFINE carry == IF u.mon > 11 THEN u.mon \div 12
                    ELSE IF u.mon < 0 THEN -((11 - u.mon) \div 12) ELSE 0
<1>1. carry = 0
  BY SMTT(10)
<1>2. u.year \in Int /\ u.mon \in Int /\ u.mday \in Int
  BY DEF Tm
<1>3. u.year + carry = u.year /\ u.mon - 12 * carry + 1 = u.mon + 1
  <2> HIDE DEF carry
  <2> QED BY <1>1, <1>2, SMTT(10)
<1>4. internal_timegm(u) =
          86400 * (days_from_0(u.year + carry) - days_from_0(1970)
                     + days_from_1jan(u.year + carry, u.mon - 12 * carry + 1, u.mday))
            + 3600 * u.hour + 60 * u.min + u.sec
  BY SMTT(10) DEF internal_timegm
<1> HIDE DEF carry
<1>5. days_from_0(1970) = 719162
  BY SMTT(10) DEF days_from_0, CDiv
<1>6. days_from_0(u.year) \in Int /\ days_from_1jan(u.year, u.mon + 1, u.mday) \in Int
  <2>1. u.mon + 1 \in 1 .. 12
    BY SMTT(10)
  <2> QED BY <1>2, <2>1, DaysFrom0Int, DaysFrom1JanInt, Zenon
<1> QED BY <1>3, <1>4, <1>5, <1>6, SMTT(10) DEF InstantAt

\* gmtime inverts internal_timegm: the fields that are set to a date and a time
\* since the year 1 are the fields that are shown.
THEOREM GmtimeInvertsTimegm ==
    ASSUME NEW u \in Tm, IsDate(u.year, u.mon, u.mday),
           IsClock(u.hour, u.min, u.sec), NEW g, g = gmtime(internal_timegm(u))
    PROVE  /\ g.year = u.year /\ g.mon = u.mon /\ g.mday = u.mday
           /\ g.hour = u.hour /\ g.min = u.min /\ g.sec = u.sec
<1> DEFINE t == internal_timegm(u)
           d == days_from_0(u.year) - 719162 + days_from_1jan(u.year, u.mon + 1, u.mday)
<1>1. u.mon \in 0 .. 11
  BY SMTT(10) DEF IsDate
<1>2. t = InstantAt(d, u.hour, u.min, u.sec) /\ d \in Int
  BY <1>1, TimegmIs, SMTT(10)
<1>3. t \in Int /\ DayOf(t) = d /\ HourOf(t) = u.hour /\ MinuteOf(t) = u.min /\ SecondOf(t) = u.sec
  <2> HIDE DEF t, d
  <2> QED BY <1>2, ClockIsRead, SMTT(10)
<1>4. YearOf(t) = u.year /\ MonthOf(t) = u.mon /\ MonthDayOf(t) = u.mday
  <2> HIDE DEF t
  <2> QED BY <1>3, DateIsFound, SMTT(10)
<1>5. g = [year |-> YearOf(t), mon |-> MonthOf(t), mday |-> MonthDayOf(t), hour |-> HourOf(t),
           min |-> MinuteOf(t), sec |-> SecondOf(t), wday |-> WeekDayOf(t), yday |-> YearDayOf(t)]
  <2> HIDE DEF d
  <2> QED BY <1>3, GmtimeIs, Zenon
<1> HIDE DEF t, d
<1> QED BY <1>3, <1>4, <1>5, SMTT(10)

\* Days of the same month that are less than a year apart are of the same year.
LEMMA SameMonth ==
    ASSUME NEW t \in Int, NEW s \in Int, YearOf(t) >= 1, YearOf(s) >= 1, MonthOf(t) = MonthOf(s),
           NEW k, k = DayOf(s) - DayOf(t), k <= 300, k >= -300
    PROVE  YearOf(s) = YearOf(t) /\ MonthDayOf(s) = MonthDayOf(t) + k
<1> DEFINE y == YearOf(t)
           z == YearOf(s)
           a == YearDayOf(t)
           b == YearDayOf(s)
           d == MonthDayOf(t)
           e == MonthDayOf(s)
           f == MonthFrom(y, MonthOf(t))
           g == MonthFrom(z, MonthOf(t))
           u == days_from_0(y)
           v == days_from_0(z)
<1>1. /\ y \in Int /\ z \in Int /\ d \in 1 .. 31 /\ e \in 1 .. 31 /\ MonthOf(t) \in 0 .. 11
      /\ DayOf(t) \in Int /\ DayOf(s) \in Int
  BY PartsRange, GmtimeParts, SMTT(10)
<1>2. f \in Int /\ g \in Int /\ f - g \in -1 .. 1
  <2> DEFINE mon == MonthOf(t)
  <2>1. mon \in 0 .. 11
    BY <1>1, SMTT(10)
  <2> HIDE DEF y, z, mon
  <2>2. \A x : MonthFrom(x, mon) \in Nat
    BY <2>1, MonthsInOrder, SMTT(10)
  <2>3. LeapDay(y) \in 0 .. 1 /\ LeapDay(z) \in 0 .. 1
    BY LeapDayInt, SMTT(10)
  <2>4. DaysBefore[mon + 1] \in Int
    BY <2>1, SMTT(10) DEF DaysBefore
  <2>5. MonthFrom(y, mon) - MonthFrom(z, mon) \in -1 .. 1
    BY <2>3, <2>4, SMTT(10) DEF MonthFrom
  <2> QED BY <2>2, <2>5, SMTT(10) DEF mon
<1>3. a = f + d - 1 /\ b = g + e - 1
  <2>1. a = MonthFrom(y, MonthOf(t)) + MonthDayOf(t) - 1
    BY GmtimeIsDate, DateIsDayOfYear, YearDayIsCounted, SMTT(10)
  <2>2. b = MonthFrom(z, MonthOf(s)) + MonthDayOf(s) - 1
    BY GmtimeIsDate, DateIsDayOfYear, YearDayIsCounted, SMTT(10)
  <2> QED BY <2>1, <2>2, Zenon
<1>4. DayOf(t) = u - 719162 + a /\ DayOf(s) = v - 719162 + b
  BY YearDayIsCounted, SMTT(10)
<1>5. u \in Int /\ v \in Int
  BY <1>1, DaysFrom0Int, SMTT(10)
<1>6. (y < z => v >= u + 365 * (z - y)) /\ (z < y => u >= v + 365 * (y - z))
  <2>1. y \in Int /\ z \in Int /\ 1 <= y /\ 1 <= z
    BY <1>1, SMTT(10)
  <2> HIDE DEF y, z
  <2>2. y < z => v >= u + 365 * (z - y)
    BY <2>1, YearsApart, SMTT(10)
  <2>3. z < y => u >= v + 365 * (y - z)
    BY <2>1, YearsApart, SMTT(10)
  <2> QED BY <2>2, <2>3
<1>7. z = y => f = g /\ u = v
  OBVIOUS
<1>8. y \in Int /\ z \in Int /\ d \in 1 .. 31 /\ e \in 1 .. 31 /\ y >= 1 /\ z >= 1
  BY <1>1
<1> HIDE DEF y, z, a, b, d, e, f, g, u, v
<1>9. k = (v + g + e) - (u + f + d) /\ k \in Int
  BY <1>1, <1>2, <1>3, <1>4, <1>5, <1>8, SMTT(10)
<1>10. z = y
  BY <1>2, <1>5, <1>6, <1>8, <1>9, SMTT(10)
<1>11. e = d + k
  BY <1>2, <1>5, <1>7, <1>8, <1>9, <1>10, SMTT(10)
<1> QED BY <1>10, <1>11, Zenon DEF y, z, d, e

\* A number of days later.
LEMMA DaysLater ==
    ASSUME NEW t \in Int, NEW n \in Int, NEW s, s = t + 86400 * n
    PROVE  /\ s \in Int /\ DayOf(t) \in Int /\ DayOf(s) = DayOf(t) + n
           /\ WeekDayOf(s) = (WeekDayOf(t) + n) % 7
           /\ HourOf(s) = HourOf(t) /\ MinuteOf(s) = MinuteOf(t) /\ SecondOf(s) = SecondOf(t)
<1>1. s \in Int /\ s \div 86400 = t \div 86400 + n /\ s % 86400 = t % 86400 /\ t \div 86400 \in Int
  BY SMTT(10)
<1>2. \A z \in Int : (z + n + 4) % 7 = (((z + 4) % 7) + n) % 7
  BY SMTT(10)
<1> QED BY <1>1, <1>2, SMTT(10) DEF DayOf, WeekDayOf, HourOf, MinuteOf, SecondOf

\* What get_value returns of actual_maximum (gregorian.cpp:265).
LEMMA ActualMaximumIs ==
    ASSUME NEW c, NEW p \in Periods
    PROVE  LET y    == c.tm.year
               last == days_in_month(y, c.tm.mon + 1)
               end  == days_in_year(y) - 1
           IN  ActualMaximum(c)[p] =
                 CASE p = "day"           -> last
                   [] p = "day_of_year"   -> days_in_year(y)
                   [] p = "week_of_year"  ->
                        get_week_number(end, (end - c.tm.yday + c.tm.wday) % 7, c.fdow)
                   [] p = "week_of_month" ->
                        get_week_number(last, (last - c.tm.mday + c.tm.wday) % 7, c.fdow)
                   [] p = "day_of_week_in_month" -> (IF c.tm.mon = 1 /\ ~is_leap(y) THEN 4 ELSE 5)
                   [] OTHER -> LeastMaximum[p]
<1> DEFINE y == c.tm.year
           last == days_in_month(y, c.tm.mon + 1)
           end == days_in_year(y) - 1
           weekOfYear == get_week_number(end, (end - c.tm.yday + c.tm.wday) % 7, c.fdow)
           weekOfMonth == get_week_number(last, (last - c.tm.mday + c.tm.wday) % 7, c.fdow)
<1> HIDE DEF last, end, weekOfYear, weekOfMonth
<1>1. LeastMaximum = [x \in Periods |-> LeastMaximum[x]]
  BY DEF LeastMaximum, Periods, ClockPeriods, DayPeriods, WeekPeriods
<1>2. ActualMaximum(c) =
        [LeastMaximum EXCEPT
            !.day = last, !.day_of_year = days_in_year(y),
            !.week_of_year = weekOfYear, !.week_of_month = weekOfMonth,
            !.day_of_week_in_month = IF c.tm.mon = 1 /\ ~is_leap(y) THEN 4 ELSE 5]
  BY Zenon DEF ActualMaximum, last, end, weekOfYear, weekOfMonth
<1>3. ActualMaximum(c)[p] =
        CASE p = "day"           -> last
          [] p = "day_of_year"   -> days_in_year(y)
          [] p = "week_of_year"  -> weekOfYear
          [] p = "week_of_month" -> weekOfMonth
          [] p = "day_of_week_in_month" -> (IF c.tm.mon = 1 /\ ~is_leap(y) THEN 4 ELSE 5)
          [] OTHER -> LeastMaximum[p]
  BY <1>1, <1>2 DEF Periods, ClockPeriods, DayPeriods, WeekPeriods
<1> QED BY <1>3, Zenon DEF last, end, weekOfYear, weekOfMonth

-----------------------------------------------------------------------------
LEMMA PointInt ==
    ASSUME NEW c \in Calendar
    PROVE  Point(c) \in Int
  BY TimegmInt, SystemOffsetAssumption DEF Calendar, Point, mktime

-----------------------------------------------------------------------------
(* The operations keep a calendar object's fields integers. *)

LEMMA FromTimeTyped ==
    ASSUME NEW c \in Calendar, NEW t \in Int
    PROVE  from_time(c, t) \in Calendar
<1>1. c.tzoff \in Int
  BY DEF Calendar
<1>2. gmtime(t + c.tzoff) \in Tm /\ localtime(t + c.tzoff) \in Tm
  BY <1>1, GmtimeRange, SystemOffsetAssumption DEF localtime
<1> QED BY <1>2 DEF from_time, Calendar

LEMMA NormalizeTyped ==
    ASSUME NEW c \in Calendar
    PROVE  normalize(c) \in Calendar
<1>1. Point(c) \in Int /\ c.tzoff \in Int
  BY PointInt DEF Calendar
<1>2. gmtime(Point(c)) \in Tm /\ localtime(Point(c)) \in Tm
  BY <1>1, GmtimeRange, SystemOffsetAssumption DEF localtime
<1>3. Point(c) - c.tzoff \in Int
  BY <1>1
<1> HIDE DEF Tm
<1> QED BY <1>2, <1>3 DEF normalize, Calendar

\* Only the pending fields change, and they are pending.
OnlyPending(c, d) ==
    /\ d \in Calendar
    /\ ~d.normalized
    /\ d.time = c.time /\ d.tm = c.tm /\ d.local = c.local /\ d.tzoff = c.tzoff

LEMMA PendingTyped ==
    ASSUME NEW c \in Calendar, NEW u \in Tm
    PROVE  OnlyPending(c, Pending(c, u))
  BY DEF Pending, Calendar, OnlyPending

LEMMA MoveTyped ==
    ASSUME NEW c \in Calendar, NEW m \in Periods, NEW n \in Int
    PROVE  OnlyPending(c, MovePending(c, m, n))
<1> DEFINE u ==
        CASE m = "year"                  -> [c.upd EXCEPT !.year = @ + n]
          [] m = "month"                 -> [c.upd EXCEPT !.mon = @ + n]
          [] m \in DayPeriods            -> [c.upd EXCEPT !.mday = @ + n]
          [] m \in WeekPeriods           -> [c.upd EXCEPT !.mday = @ + 7 * n]
          [] m \in {"hour", "hour_12"}   -> [c.upd EXCEPT !.hour = @ + n]
          [] m = "am_pm"                 -> [c.upd EXCEPT !.hour = @ + 12 * n]
          [] m = "minute"                -> [c.upd EXCEPT !.min = @ + n]
          [] m = "second"                -> [c.upd EXCEPT !.sec = @ + n]
<1>1. c.upd \in Tm
  BY DEF Calendar
<1>2. u \in Tm
  BY <1>1 DEF Tm, Periods, ClockPeriods, DayPeriods, WeekPeriods
<1>3. MovePending(c, m, n) = Pending(c, u)
  BY DEF MovePending
<1> HIDE DEF u
<1> QED BY <1>2, <1>3, PendingTyped

LEMMA ToLocalDowInt ==
    ASSUME NEW v \in Int, NEW fdow \in 0 .. 6
    PROVE  ToLocalDow(v, fdow) \in Int
<1> DEFINE positive == IF v < 1 THEN v + ((-v) \div 7) * 7 + 7 ELSE v
<1>1. positive \in Int
  BY SMTT(10)
<1>2. CMod(positive - 1 - fdow + 14, 7) \in Int
  <2> HIDE DEF positive
  <2> QED BY <1>1, CModInt
<1> QED BY <1>2 DEF ToLocalDow

LEMMA WeekNumberInt ==
    ASSUME NEW d \in Int, NEW w \in Int, NEW fdow \in 0 .. 6
    PROVE  /\ get_week_number(d, w, fdow) \in Int
           /\ d >= 7 => get_week_number(d, w, fdow) > 0
<1> DEFINE first == (((w - fdow + 7) % 7) + 700 - d) % 7
           start == IF first < 4 THEN -first ELSE 7 - first
<1>1. first \in 0 .. 6
  <2>1. (w - fdow + 7) % 7 \in 0 .. 6
    BY SMTT(10)
  <2> QED BY <2>1, SMTT(10)
<1>2. start \in Int /\ start <= 3
  <2> HIDE DEF first
  <2> QED BY <1>1, SMTT(10)
<1>3. get_week_number(d, w, fdow) = IF d < start THEN -1 ELSE (d - start) \div 7 + 1
  BY DEF get_week_number
<1> HIDE DEF start
<1> QED BY <1>2, <1>3, SMTT(10)

\* get_value (gregorian.cpp:265) returns an integer for every period.
LEMMA CurrentInt ==
    ASSUME NEW c \in Calendar, NEW m \in Periods
    PROVE  Current(c)[m] \in Int
<1>1. /\ c.fdow \in 0 .. 6 /\ c.tm.year \in Int /\ c.tm.mon \in Int /\ c.tm.mday \in Int
      /\ c.tm.hour \in Int /\ c.tm.min \in Int /\ c.tm.sec \in Int
      /\ c.tm.wday \in Int /\ c.tm.yday \in Int
  BY DEF Calendar, Tm
<1>2. LocalDow(c) \in Int
  BY <1>1, SMTT(10) DEF LocalDow
<1>3. /\ OrElse(get_week_number(c.tm.yday, c.tm.wday, c.fdow), 53) \in Int
      /\ OrElse(get_week_number(c.tm.mday, c.tm.wday, c.fdow), 5) \in Int
  <2>1. /\ get_week_number(c.tm.yday, c.tm.wday, c.fdow) \in Int
        /\ get_week_number(c.tm.mday, c.tm.wday, c.fdow) \in Int
    BY <1>1, WeekNumberInt
  <2> QED BY <2>1, SMTT(10) DEF OrElse
<1>4. (c.tm.mday - 1) \div 7 + 1 \in Int /\ c.tm.hour % 12 \in Int /\ c.tm.hour \div 12 \in Int
  BY <1>1, SMTT(10)
<1>5. CASE m \in {"week_of_year", "week_of_month", "day_of_week_in_month"}
  BY <1>3, <1>4, <1>5 DEF Current
<1>6. CASE m \in {"day_of_year", "day_of_week", "day_of_week_local"}
  BY <1>1, <1>2, <1>6 DEF Current
<1>7. CASE m \in {"year", "month", "day", "hour", "hour_12", "am_pm", "minute", "second"}
  BY <1>1, <1>4, <1>7 DEF Current
<1> QED BY <1>5, <1>6, <1>7 DEF Periods, ClockPeriods, DayPeriods, WeekPeriods

\* The last value of a field is an integer, and none is below the first one.
LEMMA ActualMaximumInt ==
    ASSUME NEW c \in Calendar, c.tm.mon \in 0 .. 11, NEW m \in Periods
    PROVE  /\ ActualMaximum(c)[m] \in Int /\ Minimum(m) \in Int
           /\ ActualMaximum(c)[m] >= Minimum(m)
<1> DEFINE y == c.tm.year
           last == days_in_month(y, c.tm.mon + 1)
           end == days_in_year(y) - 1
           weekOfYear == get_week_number(end, (end - c.tm.yday + c.tm.wday) % 7, c.fdow)
           weekOfMonth == get_week_number(last, (last - c.tm.mday + c.tm.wday) % 7, c.fdow)
<1>1. /\ c.fdow \in 0 .. 6 /\ c.tm.mon \in Int /\ c.tm.mday \in Int
      /\ c.tm.wday \in Int /\ c.tm.yday \in Int
  BY DEF Calendar, Tm
<1>2. last \in 28 .. 32
  <2>1. MonthDays[c.tm.mon + 1] \in 28 .. 31
    BY SMTT(10) DEF MonthDays
  <2> QED BY <2>1, LeapDayInt DEF days_in_month
<1>3. end \in 364 .. 365
  BY LeapDayInt DEF days_in_year
<1>4. weekOfYear \in Int /\ weekOfYear > 0
  <2> HIDE DEF end
  <2>1. (end - c.tm.yday + c.tm.wday) % 7 \in Int
    BY <1>1, <1>3, SMTT(10)
  <2>2. end \in Int /\ end >= 7
    BY <1>3
  <2> QED BY <1>1, <2>1, <2>2, WeekNumberInt, Zenon
<1>5. weekOfMonth \in Int /\ weekOfMonth > 0
  <2> HIDE DEF last
  <2>1. (last - c.tm.mday + c.tm.wday) % 7 \in Int
    BY <1>1, <1>2, SMTT(10)
  <2>2. last \in Int /\ last >= 7
    BY <1>2
  <2> QED BY <1>1, <2>1, <2>2, WeekNumberInt, Zenon
<1>6. YearMax \in Int /\ YearMax > 2000
  BY SMTT(10) DEF YearMax
<1>7. \A p \in Periods : ActualMaximum(c)[p] =
        CASE p = "day"           -> last
          [] p = "day_of_year"   -> days_in_year(y)
          [] p = "week_of_year"  -> weekOfYear
          [] p = "week_of_month" -> weekOfMonth
          [] p = "day_of_week_in_month" -> (IF c.tm.mon = 1 /\ ~is_leap(y) THEN 4 ELSE 5)
          [] OTHER -> LeastMaximum[p]
  <2> HIDE DEF last, end, weekOfYear, weekOfMonth
  <2>1. LeastMaximum = [p \in Periods |-> LeastMaximum[p]]
    BY DEF LeastMaximum, Periods, ClockPeriods, DayPeriods, WeekPeriods
  <2>2. ActualMaximum(c) =
        [LeastMaximum EXCEPT
            !.day = last, !.day_of_year = days_in_year(y),
            !.week_of_year = weekOfYear, !.week_of_month = weekOfMonth,
            !.day_of_week_in_month = IF c.tm.mon = 1 /\ ~is_leap(y) THEN 4 ELSE 5]
    BY Zenon DEF ActualMaximum, last, end, weekOfYear, weekOfMonth
  <2> QED BY <2>1, <2>2 DEF Periods, ClockPeriods, DayPeriods, WeekPeriods
<1> HIDE DEF last, end, weekOfYear, weekOfMonth
<1>8. days_in_year(y) \in Int /\ days_in_year(y) > 300
  BY LeapDayInt DEF days_in_year
<1>9. CASE m = "year"
  BY <1>6, <1>7, <1>9 DEF Minimum, LeastMaximum
<1>10. CASE m \in {"day", "day_of_year"}
  BY <1>2, <1>7, <1>8, <1>10 DEF Minimum, DayPeriods, WeekPeriods
<1>11. CASE m \in {"week_of_year", "week_of_month", "day_of_week_in_month"}
  BY <1>4, <1>5, <1>7, <1>11 DEF Minimum, DayPeriods, WeekPeriods
<1>12. CASE m \in {"day_of_week", "day_of_week_local"}
  BY <1>7, <1>12 DEF Minimum, LeastMaximum, DayPeriods, WeekPeriods
<1>13. CASE m \in {"month", "hour", "hour_12", "am_pm", "minute", "second"}
  BY <1>7, <1>13 DEF Minimum, LeastMaximum, DayPeriods, WeekPeriods
<1> QED BY <1>9, <1>10, <1>11, <1>12, <1>13 DEF Periods, ClockPeriods, DayPeriods, WeekPeriods

\* Rolling (gregorian.cpp:552) never divides by zero.
LEMMA RollRangePositive ==
    ASSUME NEW c \in Calendar, c.tm.mon \in 0 .. 11, NEW m \in Periods
    PROVE  RollRange(c, m) \in Nat \ {0}
  BY ActualMaximumInt DEF RollRange

LEMMA RollValueInt ==
    ASSUME NEW c \in Calendar, c.tm.mon \in 0 .. 11, NEW m \in Periods, NEW n \in Int
    PROVE  RollValue(c, m, n) \in Int
<1> DEFINE range == RollRange(c, m)
           v == CMod(Current(c)[m] - Minimum(m) + n, range)
<1>1. Minimum(m) \in Int
  BY DEF Minimum
<1>2. range \in Nat \ {0}
  BY RollRangePositive
<1>3. Current(c)[m] - Minimum(m) + n \in Int
  BY <1>1, CurrentInt
<1>4. v \in Int
  <2> HIDE DEF range
  <2> QED BY <1>2, <1>3, CModInt
<1>5. RollValue(c, m, n) = (IF v < 0 THEN v + range ELSE v) + Minimum(m)
  BY DEF RollValue
<1> HIDE DEF v, range
<1> QED BY <1>1, <1>2, <1>4, <1>5

LEMMA ShiftTyped ==
    ASSUME NEW c \in Calendar, NEW n \in Int
    PROVE  OnlyPending(c, ShiftDays(c, n))
<1>1. [c.upd EXCEPT !.mday = @ + n] \in Tm
  BY DEF Calendar, Tm
<1> QED BY <1>1, PendingTyped DEF ShiftDays

LEMMA SetRelativeTyped ==
    ASSUME NEW c \in Calendar, NEW m \in RelativeMarks, NEW v \in Int
    PROVE  OnlyPending(c, SetRelative(c, m, v))
<1>1. c.fdow \in 0 .. 6 /\ c.upd.yday \in Int /\ c.upd.wday \in Int
  BY DEF Calendar, Tm
<1>2. CASE m = "day_of_year"
  BY <1>1, <1>2, ShiftTyped DEF SetRelative
<1>3. (c.upd.wday - c.fdow + 7) % 7 \in Int
  BY <1>1, SMTT(10)
<1>4. CASE m = "day_of_week"
  BY <1>1, <1>3, <1>4, ShiftTyped, ToLocalDowInt DEF SetRelative
<1>5. CASE m = "day_of_week_local"
  BY <1>3, <1>5, ShiftTyped DEF SetRelative
<1>6. CASE m \in WeekPeriods
  <2>1. Current(c)[m] \in Int
    BY <1>6, CurrentInt DEF Periods
  <2>2. SetRelative(c, m, v) = ShiftDays(c, 7 * (v - Current(c)[m]))
    BY <1>6 DEF SetRelative, WeekPeriods
  <2> QED BY <2>1, <2>2, ShiftTyped
<1> QED BY <1>2, <1>4, <1>5, <1>6 DEF RelativeMarks

LEMMA SetPlainTyped ==
    ASSUME NEW c \in Calendar, NEW m \in Periods \ RelativeMarks, NEW v \in Int
    PROVE  OnlyPending(c, SetPlain(c, m, v))
<1> DEFINE u ==
        CASE m = "year"    -> [c.upd EXCEPT !.year = v]
          [] m = "month"   -> [c.upd EXCEPT !.mon = v]
          [] m = "day"     -> [c.upd EXCEPT !.mday = v]
          [] m = "hour"    -> [c.upd EXCEPT !.hour = v]
          [] m = "hour_12" -> [c.upd EXCEPT !.hour = CDiv(@, 12) * 12 + v]
          [] m = "am_pm"   -> [c.upd EXCEPT !.hour = 12 * v + CMod(@, 12)]
          [] m = "minute"  -> [c.upd EXCEPT !.min = v]
          [] m = "second"  -> [c.upd EXCEPT !.sec = v]
<1>1. c.upd \in Tm /\ c.upd.hour \in Int
  BY DEF Calendar, Tm
<1>2. CDiv(c.upd.hour, 12) \in Int /\ CMod(c.upd.hour, 12) \in Int
  BY <1>1, CDivInt, CModInt
<1>3. u \in Tm
  BY <1>1, <1>2 DEF Tm, Periods, RelativeMarks, ClockPeriods, DayPeriods, WeekPeriods
<1>4. SetPlain(c, m, v) = Pending(c, u)
  BY DEF SetPlain
<1> HIDE DEF u
<1> QED BY <1>3, <1>4, PendingTyped
=============================================================================
