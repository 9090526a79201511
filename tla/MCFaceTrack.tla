----------------------------- MODULE MCFaceTrack -----------------------------
(* FaceTrack for TLC: two persons, of whom one comes back.                    *)
EXTENDS FaceTrack

CONSTANTS ann, bob

MCPersons == {ann, bob}
MCIds == 0 .. 2
=============================================================================
