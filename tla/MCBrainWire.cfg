SPECIFICATION FairSpec
CONSTANTS
    speak = speak
    move = move
    trade = trade
    Event = {speak, move, trade}
    Posts <- OneOrTwo
    Task = {t1}
    Request = {r1, r2}
    Stores = {TRUE, FALSE}
    Capacity = 2
    BatchSize = 2
    MaxFaults = 2
INVARIANTS
    AckedWasHandled
    ReplayedOnce
PROPERTIES
    QueueDrains
