SPECIFICATION StandingSpec
CONSTANTS
  Charge = {c1}
  Executor = {e1, e2}
  Judge = {j1}
  None = None
  Tracking = {TRUE, FALSE}
  MaxConnections = 2
  MaxWrites = 1
  MaxSanctions = 1
  MaxCrashes = 1
INVARIANTS
  NoSanctionWithoutConviction
  FrozenForCause
  DepartedIsFrozen
PROPERTIES
  DepartureIsNoticed
CHECK_DEADLOCK FALSE
