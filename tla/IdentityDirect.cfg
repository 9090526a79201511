SPECIFICATION Spec
CONSTANTS
  alice = alice
  bob = bob
  other = other
  nobody = nobody
  Person <- MCPerson
  Unregistered <- other
  Nobody <- nobody
  Must <- CardMode
  Optional <- NoItems
  Level <- MCLevel
  DeviceLevel = 1
  IntervalOn = TRUE
  VivoDetection = TRUE
  Devices <- FaceCardFinger
  MaxInputs = 4
  MaxDeletes = 1
CHECK_DEADLOCK FALSE
INVARIANTS TypeOK NoLostWakeup FaceOpensOnce VouchedByGranted CreditsEarned OpensOnWholeRecord
PROPERTIES SearchEnds MatchHandled
