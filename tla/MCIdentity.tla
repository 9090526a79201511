----------------------------- MODULE MCIdentity -----------------------------
(* Identity for TLC: one person with the level of the terminal and one       *)
(* without it, and the opening modes the runs compare.                       *)
EXTENDS Identity

CONSTANTS alice, bob, other, nobody

MCPerson == {alice, bob}
MCLevel == [p \in MCPerson |-> IF p = alice THEN 1 ELSE 2]

CardMode == {ICCARD}
CardAndFace == {ICCARD, SWIPING_FACE}
NoItems == {}
CodeItem == {QRCODE}

FaceCardFinger == {"face", "dismiss", "card", "finger"}
FaceAlone == {"face"}
FaceAndCard == {"face", "card"}
FaceCardTemp == {ICCARD, SWIPING_FACE, THERMOMETRY}
=============================================================================
