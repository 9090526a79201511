SPECIFICATION Spec
CONSTANTS
  u1 = u1
  u2 = u2
  c1 = c1
  c2 = c2
  f1 = f1
  r1 = r1
  none = none
  Uuids <- MCUuids
  Cards <- MCCards
  NoCard = none
  Faces = {f1}
  NoFace = none
  Rules = {r1}
  Given <- FaceAndRule
  NoRule = none
  Capacity = 2
  Pages = 2
  MaxEdits = 1
  MaxUses = 1
SYMMETRY Symmetric
CHECK_DEADLOCK FALSE
INVARIANTS NoSelfWait
