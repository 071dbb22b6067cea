SPECIFICATION Spec
CONSTANTS
  Peer = {1, 2, 3}
  Author = 2
  Unknown = Unknown
  MaxTime = 1
  MaxEdits = 1
  MaxCount = 1
  MaxSent = 2
INVARIANTS
  StaleHasNothingNew
  VerifiedByTwo
PROPERTIES
  ForwardOnly
CHECK_DEADLOCK FALSE
