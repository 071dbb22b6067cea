SPECIFICATION ChainSpec
CONSTANTS
  Member = {p1, p2}
  Opener = p1
  Step = {s1, s2}
  Worker = {w}
  Nobody = Nobody
  None = None
  MaxHandoffs = 1
  MaxCommands = 2
  MaxCrashes = 1
INVARIANTS
  LeasesMatchSteps
  OnlyTwoWaysToStall
PROPERTIES
  LeaseEnds
CHECK_DEADLOCK FALSE
