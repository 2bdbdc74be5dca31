CONSTANTS
    Ble = {"rssi"}
    Radar = {"x", "y"}
    SourceOf <- MCSourceOf
    Reading = {1}
    Lost = Lost
    Missing = Missing
    Window = 3
    Limit = 2
    Budget = 3
    MaxNow = 3

SPECIFICATION Spec

INVARIANTS
    OverdraftIsBounded

PROPERTIES
    LossesAreTold
