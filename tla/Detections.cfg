CONSTANTS
    MaxEvent = 2
    Camera = {"hall", "yard"}
    CameraOf <- MCCameraOf
    Strict = {"yard"}
    Turning = {"yard"}
    HealthEntity <- MCHealthEntity
    Zone = {"porch"}
    Profile = {"lawn"}
    Envelope <- MCEnvelope
    Identity = {"ann"}
    Missing = Missing
    NoImage = NoImage
    MaxFrame = 2
    MaxInstant = 2
    MaxEnvelopes = 2
    MaxRevision = 3
SPECIFICATION Spec
INVARIANTS
    RecoveryNeedsNewEvidence
    EveryDetectionIsNumbered
PROPERTIES
    LateContextReachesCachedEvents
    RevivalNeedsANewerFrame
    OnlyReplaysGoBack
VIEW Evidence

\* The system may stop: no message is owed, and MaxRevision is a bound.
CHECK_DEADLOCK FALSE
