---------------------------- MODULE FaceResolver ----------------------------
(***************************************************************************)
(* FaceDataResolverObj: the thread that compares one face with the         *)
(* database of registered persons.  It keeps one task, not a queue, and    *)
(* holds its mutex during the whole comparison; SafeResolverData waits for *)
(* that mutex, replaces the task and wakes the thread.  The result goes    *)
(* to EchoFaceRecognition after the mutex is released.                     *)
(***************************************************************************)
EXTENDS Integers

CONSTANTS
  Person,       \* the persons the terminal may know
  Unregistered, \* a face or a card of nobody it knows
  Nobody        \* no face, no card, no person

ASSUME PersonAssumption ==
  /\ Unregistered \notin Person
  /\ Nobody \notin Person
  /\ Unregistered # Nobody

VARIABLE resolver \* [pc, pause, task, result]: is_pause, mFaceTask, the result

Faces == Person \cup {Unregistered, Nobody}

ResolverPC == {"top", "wait", "compare", "echo", "apply"}

ResolverState ==
  [pc : ResolverPC, pause : BOOLEAN, task : Faces, result : Faces]

ResolverInit ==
  resolver = [pc |-> "top", pause |-> TRUE, task |-> Nobody, result |-> Nobody]

\* Mutant of ResolverFree: the result is handed over with the mutex held.
FreeAfterEcho == resolver.pc \notin {"compare", "echo", "apply"}

\* QMutex sync of the resolver.
ResolverFree == resolver.pc # "compare"

\* Mutant of SafeResolverData: the thread is not woken.
SubmitSilently(f) ==
  /\ ResolverFree
  /\ resolver' = [resolver EXCEPT !.task = f, !.pause = FALSE]

\* SafeResolverData; a woken thread tests nothing before it compares, which is
\* what "top" does too once pause is FALSE.
SafeResolverData(f) ==
  /\ ResolverFree
  /\ resolver' = [resolver EXCEPT !.task = f, !.pause = FALSE,
                                  !.pc = IF @ = "wait" THEN "top" ELSE @]

\* lock; if (is_pause) wait.
ResolverTop ==
  /\ resolver.pc = "top"
  /\ resolver' = [resolver EXCEPT !.pc = IF resolver.pause THEN "wait" ELSE "compare"]

\* CheckIsIdentifyFace against the persons in known; is_pause = true; unlock.
Compare(known) ==
  /\ resolver.pc = "compare"
  /\ resolver' = [resolver EXCEPT
       !.pc = "echo",
       !.pause = TRUE,
       !.result = IF resolver.task \in known THEN resolver.task ELSE Unregistered]
=============================================================================
