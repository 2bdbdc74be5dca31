CONSTANTS
    Time <- MCTime
    Profile <- MCProfile
    Preset <- MCPreset
    MovingStates <- MCMoving
    StableStates <- MCStable
    OtherStates <- MCOther
    Batches <- MCBatches
    Zone <- MCZone
    ZoneArea <- MCZoneArea
    ProfileArea <- MCProfileArea
    MaxPoints = 3
    MaxReports = 4

SPECIFICATION Spec

INVARIANTS
    HistoryIsTheNewest
    ArrivalIsEarned
    AreaNeedsAStandingCamera

\* The system may stop: no report is owed, and MaxReports is a bound.
CHECK_DEADLOCK FALSE
