SPECIFICATION FairSpec
CONSTANTS
    Event = {tick}
    Cycle = {c1, c2}
    MaxId = 3
    MaxFaults = 1
    MaxCrashes = 1
    BatchCap = 1
INVARIANTS
    RowsMirrorChain
    LossLeavesError
    BrokenOnlyAtGap
    SnapshotRepairsHoles
PROPERTIES
    NewestGetsStored
