SPECIFICATION HubSpec
CONSTANTS
    BufferCapacity = 2
    Watermark = 2
    Window = 3
    PageCapacity = 3
    MaxLoaded = 3
    MaxEntries = 6
    MaxConnects = 2
CHECK_DEADLOCK FALSE
INVARIANTS
    NoSilentGap
    HeldIsBounded
    QuietIsCaughtUp
