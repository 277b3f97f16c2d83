\* A date_time of a Windows build around 1 January 1970, where calls throw, and in
\* 2012, with period sets of up to three elements and two calls one after the
\* other; a calendar that walks through a year and more with
\* every first day of the week and every zone.
CONSTANTS
    Windows = TRUE
    SystemOffset = 19800
    FirstDays <- Monday
    Zones <- MCZones
    Instants <- MCInstants
    Values <- MCValues
    Amounts <- MCAmounts
    YearWindow <- MCYearWindow
    Walks <- MCWalks
    Steps <- MCSteps
    Years <- MCYears
    Deltas <- MCDeltas
    MaxCalls = 2
    MaxWork = 4
SPECIFICATION DatesSpec
INVARIANTS
    NormalizeIsExact
    WeeksAreCounted
    WritesAreRead
    RollsStayInField
    DifferenceFits
    FieldsDescribeTime
    SuccessLeavesNothingPending
    NeverBeforeEpoch
PROPERTIES
    AskedIsGot
    ThrowShowsPart
CHECK_DEADLOCK FALSE
