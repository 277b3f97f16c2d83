\* The value that is rolled may lie outside the range it is rolled in.
CONSTANTS
    Windows = TRUE
    SystemOffset = 19800
    FirstDays <- Monday
    Zones <- MCZones
    Instants <- MCInstants
    Values <- MCValues
    Amounts <- MCAmounts
    YearWindow <- MCYearWindow
    Walks <- MCWalks
    Steps <- MCSteps
    Years <- MCYears
    Deltas <- MCDeltas
    MaxCalls = 2
    MaxWork = 4
SPECIFICATION DatesSpec
INVARIANTS
    RollAssertion
CHECK_DEADLOCK FALSE
