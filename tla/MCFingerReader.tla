--------------------------- MODULE MCFingerReader ---------------------------
(* FingerReader for TLC: two persons and two employee numbers; the sensor     *)
(* holds one template more than a search covers.                              *)
EXTENDS FingerReader

CONSTANTS u1, u2, c1, c2, f1, r1, none

MCUuids == {u1, u2}
MCCards == {c1, c2}
FaceAndRule == {<<f1, r1>>}
Symmetric == Permutations(MCUuids) \cup Permutations(MCCards)
=============================================================================
