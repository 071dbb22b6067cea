SPECIFICATION FairSpec
CONSTANTS
    Account = {ann, bob}
    Listing = {l1}
    Bid = {b1, b2}
    Handler = {h1, h2}
    Sweep = {s1}
    Wealth = 60
    Price = {50}
    Offer = {50, 70}
    Rate = {200, 500}
    SkimBps = 1000
    Timeout = 1
    MaxTick = 3
    MaxReports = 1
    MaxFaults = 1
INVARIANTS
    Conserved
    OneDeal
    OneVerdict
    DisputeReachesPolice
PROPERTIES
    ImplementsEscrow
    HeldIsResolved
CHECK_DEADLOCK FALSE
