SPECIFICATION FairSpec
CONSTANTS
    Did = {alice}
    Registered = {alice}
    Choice = {"yes"}
    Proposal = {p1, p2}
    Handler = {h1, h2}
    Scan = {s1}
    Terms <- NoLaw
    Backend <- Sql
    Overshoot = {}
    MaxTick = 2
    MaxLog = 2
INVARIANTS
    OneBallotPerVoter
PROPERTIES
    DueGetsTallied
