SPECIFICATION Spec
CONSTANTS
  alice = alice
  bob = bob
  other = other
  nobody = nobody
  Person <- MCPerson
  Unregistered <- other
  Nobody <- nobody
  Must <- CardAndFace
  Optional <- NoItems
  Level <- MCLevel
  DeviceLevel = 1
  IntervalOn = TRUE
  VivoDetection = TRUE
  Devices <- FaceAlone
  MaxInputs = 3
  MaxDeletes = 0
CHECK_DEADLOCK FALSE
INVARIANT CreditsEarned
