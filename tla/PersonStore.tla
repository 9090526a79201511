----------------------------- MODULE PersonStore -----------------------------
(***************************************************************************)
(* The registered persons: the table of the database and the list the      *)
(* comparisons use.                                                        *)
(*                                                                         *)
(* RegisteredFacesDB keeps every person twice: as a row of the table       *)
(* `person' and as an entry of mPersons in memory.  A thread, started by   *)
(* the constructor, appends the table to mPersons once.  All writers hold  *)
(* the mutex for the whole change, so that each is one action here; the    *)
(* server's list of changes deletes a person first and registers him anew  *)
(* later, and other writers come in between.                               *)
(***************************************************************************)
EXTENDS Integers, Sequences, FiniteSets, SequencesExt

CONSTANTS
  Uuids,           \* the identifiers of persons
  Cards, NoCard,   \* employee numbers (idcardnum), and the empty one
  Faces, NoFace,   \* face features, and the empty one
  Rules, NoRule,   \* passage rules (time_of_access), and the empty one
  Given,           \* the faces and rules registrations come with
  MaxEdits         \* a bound on changes of the store

ASSUME StoreAssumption ==
  /\ NoCard \notin Cards /\ NoFace \notin Faces /\ NoRule \notin Rules
  /\ Given \subseteq (Faces \cup {NoFace}) \X (Rules \cup {NoRule})
  /\ MaxEdits \in Nat

VARIABLES
  table,   \* the rows of `person': a function from the personids in use
  cache,   \* mPersons
  loaded,  \* is_pause: the table has been appended to mPersons
  job,     \* the person of the server's list that is being replaced
  edits,   \* how many changes there were
  strays   \* history: persons stored twice, displaced, or whose deletion failed

storeVars == << table, cache, loaded, job, edits, strays >>

AnyCard == Cards \cup {NoCard}
AnyFace == Faces \cup {NoFace}
AnyRule == Rules \cup {NoRule}

\* What finger_id says of a person without a finger: the column's default is
\* -1, a new PERSONS_t has 0.
NoFinger == -1
ZeroFinger == 0

Entry == [uuid : Uuids, card : AnyCard, face : AnyFace, rule : AnyRule, finger : Int]
NoJob == {}
NoRows == << >>  \* a function without arguments

Person(u, c, f, r, id) == [uuid |-> u, card |-> c, face |-> f, rule |-> r, finger |-> id]

StoreInit ==
  /\ table = NoRows /\ cache = << >>
  /\ loaded = FALSE
  /\ job = NoJob
  /\ edits = 0
  /\ strays = {}

-----------------------------------------------------------------------------
(* Places in the table or in the list: its arguments *)

First(places) == CHOOSE i \in places : \A j \in places : i <= j
WithUuid(list, u) == {i \in DOMAIN list : list[i].uuid = u}
WithCard(list, c) == {i \in DOMAIN list : list[i].card = c}
WithFinger(list, id) == {i \in DOMAIN list : list[i].finger = id}

\* Mutant of getPersonMaxid: the rows are counted.
CountedPersonid == Cardinality(DOMAIN table) + 1

\* The personid of a new row: the largest in use, plus 1.
getPersonMaxid ==
  IF DOMAIN table = {} THEN 1 ELSE 1 + CHOOSE r \in DOMAIN table : \A q \in DOMAIN table : q <= r

\* UPDATE person SET ... WHERE uuid = u: every row of u.
EveryRow(u, Change(_)) ==
  table' = [i \in DOMAIN table |-> IF table[i].uuid = u THEN Change(table[i]) ELSE table[i]]

\* The loop over mPersons stops at the first entry of u.
FirstEntry(u, Change(_)) ==
  cache' = IF WithUuid(cache, u) = {} THEN cache
           ELSE LET i == First(WithUuid(cache, u)) IN ReplaceAt(cache, i, Change(cache[i]))

Doubled(list) == {u \in Uuids : Cardinality(WithUuid(list, u)) > 1}

Noted(lost) == strays' = strays \cup lost \cup Doubled(table') \cup Doubled(cache')

Edit == edits < MaxEdits /\ edits' = edits + 1

-----------------------------------------------------------------------------
(* The writers *)

\* The first entry with the employee number is replaced, when there is a row
\* with it: whose entry it is, is not asked.
AddEntry(known, p) ==
  LET old == WithCard(cache, p.card)
  IN  cache' = IF known /\ old # {} THEN ReplaceAt(cache, First(old), p) ELSE Append(cache, p)

\* The person whose entry another's takes the place of.
Displaced(known, p) ==
  IF known /\ WithCard(cache, p.card) # {}
  THEN {cache[First(WithCard(cache, p.card))].uuid} \ {p.uuid}
  ELSE {}

\* RegPersonToDBAndRAM.  A row with the same employee number keeps its uuid;
\* the statement replaces the whole row and does not name the finger.
RegPerson(u, c, f, r) ==
  LET rows == WithCard(table, c)
      uuid == IF rows = {} THEN u ELSE table[First(rows)].uuid
      row  == Person(uuid, c, f, r, NoFinger)
      id   == IF rows = {} THEN getPersonMaxid ELSE First(rows)
  IN  /\ table' = [q \in DOMAIN table \cup {id} |-> IF q = id THEN row ELSE table[q]]
      /\ AddEntry(rows # {}, [row EXCEPT !.finger = ZeroFinger])
      /\ Noted(Displaced(rows # {}, row))

\* UpdatePersonToDBAndRAM, for an entry that exists: what is empty stays as it
\* was, except the face, which is erased.
UpdatePerson(u, c, f, r) ==
  LET old == cache[First(WithUuid(cache, u))]
      new == [old EXCEPT !.card = IF c = NoCard THEN @ ELSE c,
                         !.rule = IF r = NoRule THEN @ ELSE r,
                         !.face = f]
  IN  /\ WithUuid(cache, u) # {}
      /\ EveryRow(u, LAMBDA row : [new EXCEPT !.finger = row.finger])
      /\ FirstEntry(u, LAMBDA e : new)
      /\ Noted({})

\* Mutant of DropEntry: the entry stays.
KeepEntry(u) == cache' = cache

DropEntry(u) ==
  cache' = IF WithUuid(cache, u) = {} THEN cache ELSE RemoveAt(cache, First(WithUuid(cache, u)))

\* DelPersonByPersionUUIDFromDBAndRAM: the entry goes even if the rows do not.
DelPerson(u, succeeds) ==
  /\ table' = IF succeeds THEN Restrict(table, DOMAIN table \ WithUuid(table, u)) ELSE table
  /\ DropEntry(u)
  /\ Noted(IF succeeds THEN {} ELSE {u})

\* UpdatePersonFaceFeature, from the panel.
UpdateFace(u, f) ==
  /\ WithUuid(cache, u) # {} /\ cache[First(WithUuid(cache, u))].card # NoCard
  /\ EveryRow(u, LAMBDA row : [row EXCEPT !.face = f])
  /\ FirstEntry(u, LAMBDA e : [e EXCEPT !.face = f])
  /\ Noted({})

\* UpdatePersonFingerId
UpdatePersonFingerId(u, id) ==
  /\ EveryRow(u, LAMBDA row : [row EXCEPT !.finger = id])
  /\ FirstEntry(u, LAMBDA e : [e EXCEPT !.finger = id])

\* clearAllFingerIds
ClearAllFingerIds ==
  /\ table' = [i \in DOMAIN table |-> [table[i] EXCEPT !.finger = ZeroFinger]]
  /\ cache' = [i \in DOMAIN cache |-> [cache[i] EXCEPT !.finger = ZeroFinger]]

-----------------------------------------------------------------------------
(* The threads *)

\* doAddPerson of the server, and the panel's form with an identifier of its own.
AddPerson ==
  /\ Edit
  /\ \E u \in Uuids, c \in AnyCard, g \in Given : RegPerson(u, c, g[1], g[2])
  /\ UNCHANGED << loaded, job >>

\* doUpdatePerson, doSetTimeOfAccess and doDeleteTimeOfAccess: none of them
\* gives a face.
ChangePerson ==
  /\ Edit
  /\ \E u \in Uuids, c \in AnyCard, r \in AnyRule : UpdatePerson(u, c, NoFace, r)
  /\ UNCHANGED << loaded, job >>

\* The panel takes a new face.
ChangeFace ==
  /\ Edit
  /\ \E u \in Uuids, f \in Faces : UpdateFace(u, f)
  /\ UNCHANGED << loaded, job >>

DeletePerson ==
  /\ Edit
  /\ \E u \in Uuids, succeeds \in BOOLEAN : DelPerson(u, succeeds)
  /\ UNCHANGED << loaded, job >>

\* The list of changes: a person that is in memory is deleted ...
SyncDelete ==
  /\ job = NoJob
  /\ Edit
  /\ \E u \in Uuids :
       /\ job' = {u}
       /\ IF WithUuid(cache, u) = {}
          THEN UNCHANGED << table, cache, strays >>
          ELSE \E succeeds \in BOOLEAN : DelPerson(u, succeeds)
  /\ UNCHANGED loaded

\* ... and registered when his picture gives a face and the table takes the row.
SyncAdd ==
  /\ job # NoJob
  /\ job' = NoJob
  /\ \/ \E u \in job, c \in AnyCard, g \in Given :
          g[1] # NoFace /\ RegPerson(u, c, g[1], g[2])
     \/ UNCHANGED << table, cache, strays >>
  /\ UNCHANGED << loaded, edits >>

\* The rows as a query without an order gives them.
InOrder(ids) ==
  /\ Range(ids) = DOMAIN table
  /\ \A i, j \in DOMAIN ids : i < j => ids[i] < ids[j]

\* run(): the table is appended to whatever is in memory by now.
Load ==
  /\ ~loaded
  /\ UNCHANGED << table, job, edits >>
  /\ \E ids \in [1 .. Cardinality(DOMAIN table) -> DOMAIN table] :
       InOrder(ids) /\ cache' = cache \o [i \in DOMAIN ids |-> table[ids[i]]]
  /\ loaded' = TRUE
  /\ Noted({})

\* The terminal starts again; doDeleteAllPerson removes the database before.
StoreRestart(rows) ==
  /\ Edit
  /\ table' = rows
  /\ cache' = << >>
  /\ loaded' = FALSE
  /\ job' = NoJob
  /\ strays' = Doubled(rows)

StoreNext ==
  \/ AddPerson \/ ChangePerson \/ ChangeFace \/ DeletePerson
  \/ SyncDelete \/ SyncAdd \/ Load

-----------------------------------------------------------------------------
(* Properties *)

\* All values stay in their ranges.
StoreTypeOK ==
  /\ IsFiniteSet(DOMAIN table) /\ DOMAIN table \subseteq Nat \ {0}
  /\ table \in [DOMAIN table -> Entry]
  /\ cache \in Seq(Entry)
  /\ loaded \in BOOLEAN
  /\ job \subseteq Uuids
  /\ edits \in 0 .. MaxEdits
  /\ strays \subseteq Uuids

\* What a list says of a person; no finger is one finger, -1 or 0.
Said(list, u) ==
  {[list[i] EXCEPT !.finger = IF @ > 0 THEN @ ELSE 0] : i \in WithUuid(list, u)}

\* Once the table is loaded, memory and table say the same of every person:
\* who was deleted no longer opens the door, and who was changed opens it by
\* his present face and rule.  Except for persons that were stored twice, under
\* two employee numbers or because a registration came before the load, for
\* those whose deletion failed in the table, and for those whose entry was
\* replaced by that of another person with the same employee number:
\* RegPersonToDBAndRAM looks for the employee number,
\* DelPersonByPersionUUIDFromDBAndRAM for the uuid, and takes only the first
\* entry out of memory.
StoreAgrees ==
  loaded => \A u \in Uuids \ strays : Said(cache, u) = Said(table, u)

\* Who somebody is, to whom a list is asked; fingers are the sensor's.
Described(list, u) ==
  {[card |-> list[i].card, face |-> list[i].face, rule |-> list[i].rule] :
     i \in WithUuid(list, u)}

DescribedIn(list) == [u \in Uuids \ strays |-> Described(list, u)]

Book == INSTANCE Roster
        WITH stored <- DescribedIn(table), known <- DescribedIn(cache), ready <- loaded

\* Every registration, change and deletion concerns one person, in the table and
\* in memory at once, although a row is found by its employee number, a new one
\* gets a personid, an entry is the first with a number or a uuid and the
\* statements and loops are different ones; the load and the work with fingers
\* change nobody.  Except for strays.
ActsAsRoster == Book!Spec
=============================================================================
