SPECIFICATION Spec
CONSTANTS
  alice = alice
  bob = bob
  other = other
  nobody = nobody
  Person <- MCPerson
  Unregistered <- other
  Nobody <- nobody
  Must <- CardMode
  Optional <- NoItems
  Level <- MCLevel
  DeviceLevel = 1
  IntervalOn = TRUE
  VivoDetection = TRUE
  Devices <- FaceAndCard
  MaxInputs = 3
  MaxDeletes = 0
CHECK_DEADLOCK FALSE
INVARIANT OpensSatisfied
