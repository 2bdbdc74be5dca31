CONSTANTS
    Area <- MCArea
    Floor <- MCFloor
    FloorOf <- MCFloorOf
    Adjacent <- MCAdjacent
    Home = "Home"
    Nothing = Nothing
    Names <- MCNames
    Window = 1
    Person <- MCPerson
    Scenes <- MCScenes
    DeviceWindow = 4
    Lifetime = 3
    MaxAge = 4
SPECIFICATION Spec
INVARIANTS
    NobodyIsHidden
PROPERTIES
    NobodyIsCountedTwice
    OnlyDoubtHidesACounter
    PlacesKeepTheirClock
    IdentifiedBodiesStand
