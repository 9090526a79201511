SPECIFICATION Spec
CONSTANTS
  alice = alice
  bob = bob
  other = other
  nobody = nobody
  Person <- MCPerson
  Unregistered <- other
  Nobody <- nobody
  Must <- CodeItem
  Optional <- FaceCardTemp
  Level <- MCLevel
  DeviceLevel = 1
  IntervalOn = TRUE
  VivoDetection = TRUE
  Devices <- AllDevices
  MaxInputs = 3
  MaxDeletes = 0
CHECK_DEADLOCK FALSE
INVARIANTS NoLostWakeup OpensOnWholeRecord
PROPERTIES SlotsReturn SearchEnds
