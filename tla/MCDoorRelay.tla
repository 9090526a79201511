---------------------------- MODULE MCDoorRelay -----------------------------
(* DoorRelay for TLC: two granting threads, two cards, every relay mode. *)
EXTENDS DoorRelay

CONSTANTS main, identity, door, card1, card2

MCCallers == {main, identity}
MCThreads == {main, identity, door}
MCCards == {card1, card2}
AllModes == {-1, 0, 1, 2}
DelayOnly == {-1}
=============================================================================
