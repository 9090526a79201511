SPECIFICATION Spec
CONSTANTS
  main = main
  identity = identity
  door = door
  card1 = card1
  card2 = card2
  Callers <- MCCallers
  Threads <- MCThreads
  Door <- door
  Cards <- MCCards
  RelayModes <- DelayOnly
  MaxCalls = 3
CHECK_DEADLOCK FALSE
INVARIANT PulseLasts
