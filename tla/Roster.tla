-------------------------------- MODULE Roster --------------------------------
(***************************************************************************)
(* What a store of persons with a lasting copy and one in memory promises. *)
(* A write concerns one person, in both copies at once; the load brings    *)
(* nobody who is not in the lasting copy, and forgets nobody who is; a     *)
(* restart empties memory and keeps the lasting copy, or clears it.        *)
(* Persons the store has lost track of leave the roster; a restart takes   *)
(* them up again.  PersonStore, with its rows, its list and its three      *)
(* different keys, implements this.                                        *)
(***************************************************************************)

CONSTANT Uuids

VARIABLES
  stored, \* what the lasting copy says: from persons of the roster to sets
  known,  \* what memory says of them
  ready   \* memory has been loaded

vars == << stored, known, ready >>

Everybody == DOMAIN stored

\* Memory says of a person what is stored, or nothing yet.
Sound(u) ==
  /\ \A one, other \in stored[u] : one = other
  /\ known[u] = stored[u] \/ (~ready /\ known[u] = {})

Untouched(u) == known'[u] = known[u] /\ stored'[u] = stored[u]

Init ==
  /\ stored = [u \in Uuids |-> {}] /\ known = stored
  /\ ready = FALSE

Write ==
  /\ ready' = ready
  /\ Everybody' \subseteq Everybody
  /\ \E writing \in Uuids : \A u \in Everybody' :
       IF u = writing THEN Sound(u)' ELSE Untouched(u)

Load ==
  /\ ~ready /\ ready'
  /\ Everybody' \subseteq Everybody
  /\ \A u \in Everybody' : stored'[u] = stored[u] /\ Sound(u)'

Restart ==
  /\ ~ready'
  /\ \A u \in Everybody' : Sound(u)' /\ known'[u] = {}
  /\ \/ \A u \in Everybody' \cap Everybody : stored'[u] = stored[u]
     \/ \A u \in Everybody' : stored'[u] = {}

Next == Write \/ Load \/ Restart

Spec == Init /\ [][Next]_vars
=============================================================================
