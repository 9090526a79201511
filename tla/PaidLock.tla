------------------------------ MODULE PaidLock ------------------------------
(***************************************************************************)
(* What a door that opens for a while promises: it opens only against a    *)
(* payment, each payment opens it once at most, and nothing but an opening *)
(* or a shutting moves its line.  Who takes the lock over by hand ends the *)
(* promise.  DoorRelay, with its threads, its wake-ups and its unlocked    *)
(* copy of the line, implements this.                                      *)
(***************************************************************************)
EXTENDS Naturals

VARIABLES
  level,  \* 1 while the door is open
  owed,   \* the payments that have not opened the door yet
  handed  \* somebody has taken the lock over

vars == << level, owed, handed >>

Init == level = 0 /\ owed = 0 /\ handed = FALSE

Pay == owed' = owed + 1 /\ UNCHANGED << level, handed >>

Open ==
  /\ level = 0 /\ level' = 1
  /\ owed > 0 /\ owed' = owed - 1
  /\ UNCHANGED handed

Shut == level = 1 /\ level' = 0 /\ UNCHANGED << owed, handed >>

TakeOver == ~handed /\ handed' = TRUE /\ UNCHANGED << level, owed >>

ByHand ==
  /\ handed /\ UNCHANGED handed
  /\ level' \in {0, 1} /\ owed' \in Nat

Next == Pay \/ Open \/ Shut \/ TakeOver \/ ByHand

Spec == Init /\ [][Next]_vars
=============================================================================
