SPECIFICATION EntrySpec
CONSTANTS
    Topic = {events, faces}
    MaxVersion = 3
INVARIANTS
    NothingOutlivesTheEntry
    ChangesAreScheduled
PROPERTIES
    MqttIsSubscribed
    OnlyAFailedSetupSavesLess
