SPECIFICATION FairSpec
CONSTANTS
    Parcel = {p1}
    Zone <- Homes
    Price <- Prices
    Rates = {0, 200}
    UPKEEP_RATE_BPS = 200
    Period = 2
    Did = {a, b}
    Request = {r1}
    Scan = {s1, s2}
    MaxTick = 1
    MaxFaults = 1
    Nobody = Nobody
    Treasury = Treasury
INVARIANTS
    NoPhantomOwner
    SoldIsKept
PROPERTIES
    DefaulterLosesLand
