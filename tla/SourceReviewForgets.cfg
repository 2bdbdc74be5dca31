SPECIFICATION Spec
CONSTANTS
    tracker = tracker
    radar = radar
    lone = lone
    hub = hub
    t1 = t1
    b1 = b1
    b2 = b2
    b3 = b3
    Missing = Missing
    Entry = {tracker, radar, lone}
    Tracker = {tracker}
    Name = {t1, b1, b2, b3}
    Device = {hub}
    NameOf <- MCNameOf
    KindOf <- MCKindOf
    InitialRegistries <- MCInitialRegistries
    DeviceOf <- MCDeviceOf
    MaxEvents = 3
PROPERTIES
    OthersKeepTheirDecision
CHECK_DEADLOCK FALSE
