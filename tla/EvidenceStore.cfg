CONSTANTS
    Source <- MCSource
    Key <- MCKey
    Counted <- MCCounted
    Dimension <- MCDimension
    Value <- MCValue
    NoClaim = "none"
    Observations <- MCObservations
    Time <- MCTime
    Sequence <- MCSequence
    MaxRecords = 2
    MaxHistory = 1
    MaxRevision = 3

SPECIFICATION Spec

INVARIANTS
    MergeNeverRaises

PROPERTIES
    UnstampedNeverErases
    EvictionSparesWorth
    ImplementsLedger

\* The system may stop: no envelope has to arrive, and MaxRevision is a bound.
CHECK_DEADLOCK FALSE
