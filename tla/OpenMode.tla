------------------------------ MODULE OpenMode ------------------------------
(***************************************************************************)
(* The opening modes of the door.  The configuration lists required and    *)
(* optional items by digit, the record of the current person collects the  *)
(* items presented so far (process_state), and CanOpenDoor compares them.  *)
(***************************************************************************)
EXTENDS Integers

ICCARD == 1         \* card
SWIPING_FACE == 2   \* face
THERMOMETRY == 3    \* temperature
MASK == 4           \* mask
QRCODE == 5         \* health code
IDCARD == 6         \* identity card
PERSON_IDCARD == 7  \* the face matches the identity card
QRCODE_LOCAL == 8   \* local health code
FINGER == 9         \* fingerprint, a literal in the code

Items == ICCARD .. FINGER

\* The two loops of CanOpenDoor: every required digit up to 7 is in process,
\* and some optional digit up to 6 is, unless the list is empty.
CanOpen(must, optional, process) ==
  /\ \A i \in 1 .. 7 : i \in must => i \in process
  /\ optional # {} => \E i \in 1 .. 6 : i \in optional \cap process

\* The rules written above CanOpenDoor: all of the required items and at
\* least one of the optional ones.
Satisfied(must, optional, process) ==
  /\ must \subseteq process
  /\ optional # {} => optional \cap process # {}
=============================================================================
