--------------------------- MODULE MCRecordUpload ---------------------------
(* RecordUpload for TLC: both posting objects, and the passages compared.    *)
EXTENDS RecordUpload

CONSTANTS http, panel

MCPosters == {http, panel}
StrangerAndFace == {"stranger", "face"}
FaceOnly == {"face"}
StrangerOnly == {"stranger"}
=============================================================================
