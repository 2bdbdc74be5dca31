CONSTANTS
    Source <- MCSource
    Lifetime <- MCLifetime
    Counting <- MCCounting
    Measured <- MCMeasured
    Coverage <- MCCoverage
    Maturity = 1
    Latency = 1
    MaxNow = 5
    MaxMessages = 3

SPECIFICATION ExpirySpec

INVARIANTS
    SnapshotIsCoherent

PROPERTIES
    RefreshSettles
    OnlyContextsExpireSilently
    ArmedExpiryLeaves

\* The system may stop: no message is owed, and MaxNow is a bound.
CHECK_DEADLOCK FALSE
