SPECIFICATION FairSpec
CONSTANTS
    Parcel = {p1}
    Zone <- Homes
    Price <- Prices
    Rates = {0, 200}
    UPKEEP_RATE_BPS = 200
    Period = 2
    Did = {a, b}
    Request = {r1}
    Scan = {s1}
    MaxTick = 3
    MaxFaults = 1
    Nobody = Nobody
    Treasury = Treasury
PROPERTIES
    OncePerPeriod
