SPECIFICATION Spec
CONSTANTS
  ann = ann
  bob = bob
  None = None
  Persons <- MCPersons
  Ids <- MCIds
  MAX_FACES = 3
  InView = 2
  MaxArea = 2
INVARIANTS TypeOK OneRecordPerTrack RecordOfOneFace LoneFaceIsHimself
PROPERTIES DismissalFollows
