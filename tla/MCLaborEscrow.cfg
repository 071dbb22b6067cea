SPECIFICATION FairSpec
CONSTANTS
    Account = {nous, vault}
    Rejecting = {vault}
    FeeBps = 200
    DisputeWindow = 2
    Wei = {99}
    Deadline = {2}
    MaxJobs = 2
    MaxTime = 4
INVARIANTS
    Solvent
    SettledForCause
PROPERTIES
    ImplementsEscrow
    FundsAreNotStuck
