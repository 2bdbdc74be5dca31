CONSTANTS
    Here = Here
    There = There
    Nowhere = Nowhere
    NoRecord = NoRecord
    Spot <- MCSpot
    Binding <- MCBinding
    MaxNow = 4

SPECIFICATION FixSpec

INVARIANTS
    RecordTellsTheNewest

PROPERTIES
    FixesKeepTheirClock

\* The system may stop: no state is owed, and MaxNow is a bound.
CHECK_DEADLOCK FALSE
