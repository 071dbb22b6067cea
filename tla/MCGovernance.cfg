SPECIFICATION Spec
CONSTANTS
    Did = {alice, ghost}
    Registered = {alice, bob}
    Choice = {"yes", "no", "abstain"}
    Proposal = {p1}
    Handler = {h1}
    Scan = {s1, s2}
    Terms <- BothTerms
    Backend <- InMemory
    Overshoot = {}
    MaxTick = 2
    MaxLog = 5
SYMMETRY Interchangeable
INVARIANTS
    OneBallotPerVoter
    RevealOpensCommit
    TallyMatchesLog
    TalliedOnce
