SPECIFICATION Spec
CONSTANTS
  http = http
  panel = panel
  Posters <- MCPosters
  Live <- http
  Manual <- panel
  BATCH = 1
  StrangerRows = 1
  MustFace = TRUE
  Kinds <- StrangerAndFace
  MaxEvents = 3
CHECK_DEADLOCK FALSE
INVARIANTS TypeOK WrongMarksBounded LostRowsBounded
PROPERTIES RowsUploaded PushEnds
