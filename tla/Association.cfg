CONSTANTS
    Hall = Hall
    Room = Room
    Attic = Attic
    T1 = T1
    T2 = T2
    Nobody = Nobody
    Nothing = Nobody
    Area <- MCArea
    Track <- MCTrack
    Scenes <- MCScenes
    Lifetime = 3
    Window = 2
    MaxClock = 4

SPECIFICATION Spec

INVARIANTS
    LinksEnd
    AnchorsAreNew
    BodiesDecide
    EndsAreArmed

PROPERTIES
    ClocksAreEarned
