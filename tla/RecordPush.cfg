SPECIFICATION Spec
CONSTANTS
  http = http
  panel = panel
  Posters <- MCPosters
  Live <- http
  Manual <- panel
  BATCH = 2
  StrangerRows = 1
  MustFace = TRUE
  Kinds <- StrangerOnly
  MaxEvents = 5
CHECK_DEADLOCK FALSE
INVARIANT PushSendsAll
