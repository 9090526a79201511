# Formal model of the access terminal

The repository is the firmware application of a door terminal: it recognises
faces, cards, codes and fingerprints, opens a door, keeps a record of every
passage and reports to a server. It is a Qt program with some twenty threads
that share state through singletons. This directory holds TLA+ models of its
core, the TLC configurations that check them, and proofs checked by TLAPS.

## 1. Inventory

| Component | State | Operations | Model |
|---|---|---|---|
| Door thread (`PCIcore/Utils_Door`) | `is_pause`, card number, mutex, one condition variable | `OpenDoor`, `run` | `DoorRelay` |
| Relay line (`PCIcore/GPIO`) | pin, static copy `nRelayState` | `Device_SetDeviceState` | `GpioLine` |
| Identification engine (`ManageEngines/IdentityManagement*`) | the record of the current person, last card, identity card, code, temperature | a slot per device, `DistributeTheTasks`, `CheckDoorOpenMode`, `CanOpenDoor`, `EchoFaceRecognition` | `Identity`, `OpenMode` |
| Face resolver (`ManageEngines/FaceDataResolverObj`) | one face, `is_pause`, mutex | `SafeResolverData`, `run` | `FaceResolver` |
| Passage records (`ManageEngines/PersonRecordToDB`) | table `identifyrecord` | insert, mark as uploaded, pages, delete | `RecordUpload` |
| Record upload (`HttpServer/PostPersonRecordThread`) | `picList`, manual push flag and dates, mutexes | live, automatic and manual posts | `RecordUpload` |
| Registered persons (`DB/RegisteredFacesDB`) | the table `person` and its copy `mPersons` | register, update, delete, take a new face, set and clear finger numbers, load; the server's list of changes | `PersonStore`; as the set `db` of `Identity` |
| Registration (`HttpServer/PersonRegistrationThread`, `Threads/ParsePersonXlsx`) | a queue of tasks | download, extract, register | by its effect, `RegPerson` |
| Fingerprint reader (`BaiduFace/FingerprintManager`) | the serial line, `sensorReady`, polling timer, mutex; the templates on the sensor | poll, recover, enrol, compare, delete | `FingerReader` |
| Start and health of the reader (`Application/FaceApp`) | a start in the thread pool, the health timer | start, retry, check, stop | `FingerReader` |
| Persons on the panel (`AddUserFrm`) | the number of a captured finger | capture, register, delete a finger, take a face | `FingerReader`, `PersonStore` |
| Face detection (`BaiduFace/BaiduFaceManager`) | table of face records by tracking number, `mMatchCoreFace`, registration state | one handler per picture, `getCoreFace`, `FaceFeatureExtract` | `FaceTrack`; its signals are inputs of `Identity` |
| Server commands (`HttpServer/ConnHttpServerThread`) | configuration, persons, records | one handler per command | `doOpenDoor`, the commands on persons, deletions |
| Power, watchdog, housekeeping threads | flags, counters, files | timers | row deletion only |
| Configuration, sensors, readers, UI, vendor code | | | inputs and constants |

Interactions. Device threads send Qt signals; the slots of `IdentityManagement`
run on the main thread, mostly without the engine's mutex. `slotMatchCoreFace`
takes that mutex, and in the direct modes the resolver's mutex inside it; the
resolver calls `EchoFaceRecognition` on its own thread after it has released
its mutex, and takes the engine's there. The identity thread runs
`DistributeTheTasks` with the mutex and sleeps on a condition variable. All of
them open the door through `Utils_Door::OpenDoor` or write the relay directly,
and send the record to the thread of `PersonRecordToDB`, which posts it to a
slot of the main thread and then stores it. Two objects of
`PostPersonRecordThread` upload the stored rows: the one of `GetInstance()` and
a second one that `FaceApp` creates.

The camera's thread hands its pictures to `setCameraPreviewYUVData`, which signals
`sigMatchCoreFace` and `sigDisMissMessage` to the engine; the panel switches the
registration state from the main thread. `FingerprintManager` lives on the main
thread: its polling timer, the health timer of `FaceApp` and the forms use the
sensor one after the other under one mutex, but the start of the sensor runs in
the pool. All writers of the persons hold the mutex of `RegisteredFacesDB` for
one change; the server's list of changes deletes and registers in two.

What is hard here: slots that write a record another thread is deciding about;
results of a comparison that arrive for the next person; a condition variable
used for work and for a timed wait; wake-ups outside of the mutex; a nested
event loop in the fingerprint slot; a two-second timer that clears whoever came
next; row numbers that are read before the insert and used after a deletion;
answers that are lost; pages of a table that changes; a table of persons that
exists twice; numbers of templates that outlive their persons; events dispatched
inside an operation that holds a mutex; a record that lives on from one picture
to the next, filled for whoever was largest. `PROJECT.json` lists these
hazards, each with its line and the properties that would fail if it went wrong. Several are not
caught but happen, and no property forbids them: their notes say so (section 3, "What the properties except").

What correctness means, by component. Door: it opens for a request and only
then, and closes again. Engine: no face is forgotten, none opens twice, no
recognition, card or finger whose level was refused opens, a door
that needs several items opens only with them. Records: no row is lost, a row
is marked as uploaded when the server has it, every row gets there. Persons: table
and memory agree, a finger names the person it was registered for. Reader: one
operation at a time on its line, polling that is watched. Face detection: what is
signalled belongs together and was seen, who is gone is dismissed.

## 2. Modules

* `GpioLine` - one output line. `gpio[t]` says where thread t is in
  `Device_SetDeviceState`: test of the static copy, write, update of the copy.
  Nothing excludes several threads from it.
* `DoorRelay` EXTENDS `GpioLine` - `pc[c]` is the statement of `OpenDoor` that
  caller c executes next (`TestPause`, `Store`, `WakeOne`); `pc[Door]` is the
  statement of `run`. "parked" and "hold" are the two waits of the same
  condition variable. `Grant` stands for the places in the engine that
  open the door, `RemoteOpen` for `doOpenDoor`. `credit`, `cut` and `direct` are
  history: steps that pay for a pulse, a pulse ended by a wake-up, a caller
  that drove the line itself.
* `OpenMode` - the items and `CanOpenDoor`'s two loops, with the written rule
  (`Satisfied`) beside them.
* `FaceResolver` - the resolver's one-slot task and its thread.
* `Identity` EXTENDS both - the engine. Each slot is an action whose name is
  the slot's; it is split (`NameCard`, `CheckDoor`, `OpenDoor`, `ClearAfter`,
  `Stamp`) exactly where it runs without the mutex and another thread can see
  the record half written. `main` says where the main thread is, `suspended`
  which slot waits below a nested event loop. `worker` is the identity thread;
  it keeps the mutex from the decision to the opening. `tickets`, `voucher` and
  `earned` are history variables.
* `RecordUpload` - table, writers, live posts and both posting threads. A post
  is split into sending, the server's answer and the update of the row, since
  the table changes in between. `UpdatePersonRecordUploadFlag` and the queries
  are atomic: each holds the mutex of `PersonRecordToDB`.
* `PaidLock` - the abstract lock: it opens against a payment, once for each,
  until somebody drives it by hand. `DoorRelay` instantiates it with
  `level <- pin`, `owed <- Unspent` (the credit of requests and wake-ups that has
  not become a rise of the line yet) and `handed <- direct`;
  `OpensAgainstPayment` is its specification, checked as a property of the run
  `door` and proved.
* `PersonStore` - the table `person`, its copy in memory and their writers, each
  under the mutex and therefore one action: `AddPerson`, `ChangePerson`, `ChangeFace`,
  `DeletePerson`, the two halves of the server's list `SyncDelete` and `SyncAdd`, and
  `Load`, the thread that appends the table to memory once. `table` is a function from
  the personids in use to the rows: a new row gets the largest plus one
  (`getPersonMaxid`), a row with the same employee number keeps its own, a deletion
  restricts the function, and the load takes the rows in the order of their
  personids. A statement changes every row of a uuid, a loop over memory the first entry only; a registration replaces
  the first entry with the same employee number. `strays` is history: the persons
  stored twice, displaced by another's registration, or whose deletion failed.
* `Roster` - the abstract store: a write concerns one person, in the lasting copy and in
  memory at once; the load brings nobody else and forgets nobody; a restart empties
  memory and keeps the lasting copy or clears it. `PersonStore` instantiates it with `stored`
  and `known` what table and memory say of each person who is no stray, his finger left out, and
  `ready <- loaded`; `ActsAsRoster` is its specification, checked as a property of the
  run `finger` and proved.
* `FingerReader` EXTENDS `PersonStore` - the sensor, who holds its mutex (`lock`),
  the operation inside which the main thread dispatches events (`ui`), the two
  timers, the start in the pool, the templates, and the buttons of `AddUserFrm`.
  `stuck` is what happens when an operation is dispatched inside another one.
* `FaceTrack` - one picture after the other: `TakePicture`, then `TrackFace` or
  `IgnoreFace` for each face, then `NobodyThere` or `SelectLargest`, `OutOfRange`,
  `StopForRegistration`, `InspectFace`, `FaceFeatureExtract`, `SendFace`. The steps are
  separate because the panel may switch the registration state between any two.
  `getCoreFace` is kept as written: it looks up the number plus one, while
  `exist` holds the numbers themselves.
* `MCDoorRelay`, `MCIdentity`, `MCRecordUpload`, `MCFingerReader`, `MCFaceTrack` -
  values for TLC.
* `DoorRelayProof`, `IdentityProof`, `RecordUploadProof`, `FingerReaderProof`,
  `FaceTrackProof` - theorems and proofs. `PersonStoreProof` holds the lemmas on the
  store, which `FingerReaderProof` uses: the store has no specification of its own.

Abstractions. A face is the person it shows; a person is a model value with an
access level. Quality, liveness, the interval and expiry tests and the
permission by time are free choices wherever the code makes them. Pictures,
names, wording, sound and display are left out. The server accepts a record or
not, its answer arrives or not; when it acknowledges a row it names the number
it was sent. A configured upload server is assumed, and a manual push
covers all rows; the one started by the uninitialised flag has no dates and
covers none. Deletions stand for the server's commands, the panel's clean button
and `ShrinkFaceImageThread`. Two rows stored within the same second are taken in
the order they were stored.

In `PersonStore` a person is a uuid with an employee number, a face, a passage
rule and a finger number, all values without content; what follows the row and
nothing looks at (name, department, card) is left out. In `FingerReader` a command
works, fails, or brings the line back first; `LineCloses` stands for every way
`isUARTOpen` finds the descriptor invalid; the answer to a store or delete command
may be lost. A slot remembers whom its template was registered for, not whose
finger it is. In `FaceTrack` an area of 0 is a face that was lost or is below the
threshold; the rectangle, the looks (mask and liveness) and the feature are the
person they were taken from; the second detection inside `FaceFeatureExtract` finds
the same faces in any order. Pictures that are skipped while the form of a new
person is open are no steps.

## 3. Runs

| Run | Bounds | What it shows |
|---|---|---|
| `door` | two callers, three passages, two cards, all relay modes | The line follows the pulses while nobody else drives it; each pulse is paid for by a stored request or a wake-up; a request is served wherever the door thread is; an open door closes unless somebody drives the line by hand; and the whole implements `PaidLock`. |
| `door_pulse` | delay mode only | Violation: a wake-up that comes late ends the opening time. |
| `identity_direct` | card mode, an identification interval, two persons (one without the level), faces, cards, fingers and dismissals, four inputs, one deletion | No lost wake-up, one opening per face, only vouched persons, only earned items; a slot opens on the record it decided for or on one forgotten as a whole; searches end, matches are handled. |
| `identity_factors` | a code required, a card, face or temperature optional, an identification interval, all nine inputs, three of them | A slot about to open has all of its items or a record forgotten as a whole, none taken singly; slots return; searches end; no lost wake-up. |
| `opened_forgotten` | card mode, an interval, faces and cards | Violation: the record is forgotten between `CanOpenDoor` and the opening, and the door opens for nobody. |
| `stranger_face` | card and face required | Violation: an unknown face is credited. |
| `upload` | strangers and recognised faces, three events of any kind, batches of one, two posting objects | Wrong marks and lost rows are bounded by what causes them; every row is marked in the end; every push ends. |
| `record_flag` | faces only | Violation: a row is marked that the server never got. |
| `record_push` | strangers, five events, batches of two | Violation: a manual push leaves a record behind. |
| `finger` | two persons, two employee numbers, one face and rule, a sensor of two templates of which one is searched, three edits, three uses; symmetric in persons and numbers | But for the persons of `strays`, table and memory agree and together implement `Roster`, no writer touching two persons, and a finger names the person it was registered for; one operation at a time on the line; polling is watched and no start runs beside it. |
| `self_wait` | as `finger` | Violation: the main thread waits for a mutex it holds. |
| `face_track` | two persons, tracking numbers 0 to 2 (one comes back), a table of three of which the loop uses two, areas 0 to 2 | One record for a number; number and rectangle signalled belong to one face of the picture; who is alone is signalled with his own number, rectangle and looks, and with his own feature if it could be extracted; who is gone is dismissed once the menu stays closed. |

Why the bounds are enough. The door thread has one pulse and one pending
request; a third passage is what makes a late wake-up meet the next pulse. The
engine keeps one person: two persons and three inputs give every hand-over from
one to another, a fourth input lets a result meet the person after next. In
`RecordUpload` three events are a record, its deletion and the record that gets
its number, or a record, a push and a row that arrives during it. BATCH is 5 in
the code; one and two make the page boundaries happen with few rows. MaxCalls,
MaxInputs, MaxDeletes, MaxEvents, MaxEdits and MaxUses bound only what the
environment does. In `RecordUpload` a stranger is only stored, and a recognised face is posted live
first. A card is a stored row whose live answer is ignored, a passage without a
picture a row whose live post is dropped: in the run they would be strangers with
one more harmless step; the proofs of the two safety properties cover all kinds. In `FingerReader` three edits are a registration, its replacement and
a deletion, and three uses a capture, a deletion and a second capture; random
behaviours of six edits and seven uses showed nothing more. In `FaceTrack` two faces
are what it takes to give a record away, the third number to come back with a new
one, and a table of three to have a record that the loop, which ends one face before the
table is full, never reaches; the proofs cover every other size.

What the properties except. Some hazards are what the code does; a property that forbade them would
be violated, so that it excepts them and shows that the harm goes no further:
* `LineFollowsPulse` and `DoorCloses` end with the first direct write of the line
  (`direct`): with two writers the copy `nRelayState` and the line may differ for good, and whoever keeps the door
  open by hand means it.
* `VouchedByGranted` excepts a person deleted since his face was compared: his level is
  not tested any more (`EchoAccess`). It says who was vouched for, not that a late result is
  credited to the person it belongs to, which the code does not ensure (`EchoApply`).
* `OpensOnWholeRecord` excepts a record forgotten as too old, and the fingerprint, which opens
  the door without `CanOpenDoor` and whatever other slots did to the record in its `processEvents`.
* `StoreAgrees`, `ActsAsRoster` and `FingerNamesOwner` except the `strays`: persons there
  twice after the load, displaced by a registration under their employee number, or left behind in one copy by a
  deletion. They show that nobody else is touched.
* `RowsUploaded` rests on strong fairness (below): while the newest row is not acknowledged,
  the older ones do wait.
* `RecordOfOneFace` and `OneRecordPerTrack` hold although two faces share a record, and then the
  number signalled need not be that of the largest; `LoneFaceIsHimself` excepts the feature
  when its extraction failed; `DismissalFollows` excepts a menu that stays open.

Deadlock is checked in `face_track`, whose camera never stops. In the other runs
the inputs are bounded, so that every run ends with all threads waiting. `SlotsReturn`, `SearchEnds`, `RequestServed` and
`PushEnds` say that no thread is stuck before.

Fairness. Each thread is weakly fair: the operating system schedules it and no
thread keeps a mutex for ever (they are held over statements, a comparison or a
post). A post comes back some day: the connection has a time limit, the answer of
a connected server has none, so that this is an assumption about the server. In `DoorRelay` the mutex is released
in both waits, so that a caller that needs it finds it free again and again; callers hold it for one
step. In `Identity` the slots of the main thread need the two mutexes only in
steps that are enabled continuously once their holders moved on. In
`RecordUpload` an accepted and heard answer to the object of `GetInstance()` is
strongly fair: the network and the server work again some day.
In `FaceTrack` the camera's loop (`cameramanager.cpp:225`) hands over picture after
picture and each is handled to its end; nobody need leave or close the menu.
`DismissalFollows` speaks of a menu that stays closed: a picture under way while it
opens may tell the engine last that someone is there, and with the form of a new
person open no further picture is looked at. `FingerReader` states no fairness: its
properties are safety properties.
Nothing is assumed of the inputs.

## 4. Proofs

For every value of the constants that satisfies the modules' ASSUMEs.

`DoorRelayProof`. `TypeCorrect` is inductive by itself. `PaidPulses` needs to know
what credit is still due: a cleared `is_pause` and a woken door thread each hold
one, and every caller between `Store` and `WakeOne` is about to bring one.
`LineAndPulse` needs the whole history of the static copy: without direct writes
the door thread is alone on the line, and the copy equals the pin, or is -1 with
the pin at 0, except between the write and its copy.

`IdentityProof`.
* `TypeCorrect` - the type invariant, in five parts, with what the pending
  slot's argument may be.
* `WakeUps` - `NoLostWakeup` is inductive: only the identity thread parks, with
  the record in UNKNOWN, and only `slotMatchCoreFace` gives a parked thread work.
* `OneOpening` - counts what may still open the door: a submitted task, a result
  on its way, a record in MATCH, the worker before its opening. Each submission
  brings one; the invariant says that the submissions not yet used are at least
  as many.
* `OnlyVouched` - the result of a comparison carries a claim that the level was
  tested or that the person is deleted; the claim survives later deletions.
* `OpenedRightly` - `OpensOnWholeRecord`, with an identification interval or without:
  between `CanOpenDoor` and the opening the other threads only add items to the record
  (`ThreadsAdd`) or forget all of it, and a forgotten record stays so until the slot has
  opened (`ForgottenStays`). That needs more than the property says: the identity thread must not
  be before an opening of its own, which would write into the empty record; it is not, since it was the one
  that forgot. Assumed: required items up to 7, which are those `CanOpenDoor` tests.
  `OpensSatisfied`, the written rule without the exception, is false with an interval; that is
  the run `opened_forgotten`.
* `CreditedRightly` - `CreditsEarned` is inductive in the direct modes: items and what
  was earned are reset together and credited together. Assumed: no identity
  cards, whose slots credit the item whoever the card belongs to; in the other modes
  `CheckDoorOpenMode` credits a card without its level.

`DoorRelayProof` also proves `Implements`: `Spec => OpensAgainstPayment`. The refinement
mapping needs what `LineAndPulse` and `PaidPulses` established: the line rises only in
a pulse and a pulse begins only with credit. Each step is then a payment, an
opening, a shutting, a take-over, one by hand, or a stutter.

`RecordUploadProof`.
* `TypeCorrect` - inductive with `Room`: each passage brings at most two rows, and a
  number is at most the rows brought so far, so that the numbers stay in their range
  although they are the largest plus one.
* `LostRows` - a row is refused when its number was read before the other thread
  stored its own. The main thread stores only for the door button, one row
  at a time (`DoorPart`); the rows refused, the button being handled and the row of
  the other thread whose number is taken by now are together at most the
  buttons (`LostPart`).
* `WrongMarks` - there are two sets of row numbers, `D` paid for by deletions and `A`
  paid for by live acknowledgements (each pays for row 0 and one entry of
  `picList`), that cover every wrong mark. The invariant is their existence: each
  post on its way names a row that is still its own or whose number is in `D`
  (`Known`), so that whatever the answer marks is right or paid for.

`FingerReaderProof`.
* `OneAtATime` and `Watched` are inductive; the steps of the store leave the life of
  the reader alone (`StoreApart`).
* `TypeCorrect` - a new personid is above all others, so that the table stays a finite
  set of rows (`NewPersonid`); the pending takings-up of polling (`resumes`) are at most the uses.
* `Agreement` - StoreAgrees alone is not inductive: before the load nothing is said of
  the two copies, and whether `UpdatePersonToDBAndRAM` does the same to both depends
  on there being one of each. The invariant (`StoreInv`) says of everybody who is no
  stray that he has one row and one entry at most (`NotedOnce`: whoever has more is
  noted), that an entry has a row that says the same, before the load too (`EntryHasRow`), and
  that after the load a row has an entry (`RowHasEntry`). Each writer has a lemma; the subtle one is a
  registration (`RegisterKeeps`): the row found by employee number names the person,
  while the entry it replaces is the first with that number and may be another's, who is then a
  stray.
* `Implements` - `Spec => ActsAsRoster`. Each writer concerns one person
  (`WriterConcerns`): the one whose row is found by employee number, not the one the
  request names, whose place a new personid does not take from anybody; whoever else loses an entry
  leaves the roster. That both copies say the same after it is the invariant of `Agreement`.
  Fingers are no part of what the roster says, so that clearing all of them is a stutter.
* `NamesOwner` - the number on a row is that of its person's template, or the template
  is gone (`NumbersPart`); a number under enrolment or waiting in the form is above the
  numbers of all rows, since it was chosen above them and only `RegFinger` writes a
  number into a row; and an entry of somebody who is no stray has the number its row has, by
  the invariant of `Agreement`.

`FaceTrackProof`. One invariant, inductive together with the types: the table has one
record for a number; the record of the largest face is that of some accepted face of
this picture (`LoopPart`: `TrackFace` either keeps the number it looked for or writes
one that is not in the table, and what it overwrites it overwrites with the face at
hand); and what was inspected and extracted is of this picture (`RecordPart`). `Himself`
follows since a picture of one face has no other witness; of the feature it speaks only if it could be
extracted (`fresh`), since otherwise the record's old one is sent. Assumed: tracking numbers
are natural numbers and the table has a record.

Every safety property of the passing runs is stated by a theorem. Only model-checked:
the liveness properties (`RequestServed`, `DoorCloses`, `SearchEnds`, `MatchHandled`,
`SlotsReturn`, `RowsUploaded`, `PushEnds`, `DismissalFollows`), which rest on fairness and
therefore on ENABLED, which the provers cannot treat; and the violations, each a behaviour that
TLC found.

## 5. Findings

* A late wake-up closes the door before its opening time is over (`PulseLasts`).
* With an identification interval, which is the default, the identity thread may forget the
  record between `CanOpenDoor` and the opening of a slot: the door opens, and the passage is stored,
  without the items and without the person (`OpensSatisfied`).
* A face that was not recognised counts as presented (`CreditsEarned` in
  `stranger_face`).
* A live acknowledgement marks two rows that need not be its own
  (`UploadedWasAccepted`).
* A manual push may leave records behind (`PushSendsAll`).
* An enrolment or comparison dispatches events while it holds the sensor's mutex;
  the polling timer of the same thread then waits for it for ever (`NoSelfWait`).

Noticed while reading, not stated as properties: the card that opened the door is stored
again after the clear that follows (`IdentityManagement.cpp:1104`, `Stamp`), although comment 910 has it
forgotten; the result of
`CheckDoorOpenMode` is dropped, so that in the modes of several items the last
face opens nothing; a finger opens the door alone whatever else is required;
`DeletePersonRecordByTime` builds a statement without quotes, which SQLite
rejects; with face mode required, a fingerprint passage has no picture and
therefore no record.

In the store and at the reader: `AddUserFrm` never forgets a captured finger when it
is left (`clearFormAndResetUI` has no caller), so that the next person may be given
it; a new time of access erases the face (`ConnHttpServerThread.cpp:1973`, 2043); persons
without an employee number replace each other; a registration anew forgets the
finger; templates from number 100 on are stored and never searched; polling is not
taken up again when the recovery failed while a finger was read; a retry of
`InitFingerprintManager` connects its signals once more; in the server's list a person
without a rule gets that of the person before. A passage rule by dates has no comma
and is therefore taken for no rule (`RegisteredFacesDB.cpp:1249`).
`ShrinkFaceImageThread` deletes the pictures of the rows that remain.

In the face manager: when an extraction fails, the record keeps the feature of the
person before and is signalled with the new rectangle; a feature that is extracted
is that of the first face found, not of the largest; `getCoreFace` gives away the
record of a face that is in front of the camera, so that with numbers that do not
follow each other two persons share one record and the largest is signalled with
the other's number (`RecordOfOneFace` and `LoneFaceIsHimself` say what still holds);
the features signalled share one buffer, which the next picture overwrites;
`m_stAiMutex` is unlocked without having been locked; the branch for no face after
the loop cannot be reached.

## 6. Plan

Done: door and line, engine and resolver, records and upload, persons and
fingerprint reader, face tracking; the abstract lock and the abstract roster, each with its
implementation; proofs for all of them.

Left, in this order:
1. `PassageTime`: `CheckPassageOfTime` as an operator over rules of weekdays and
   minutes, against the case table written above it, and its walk over memory
   without the lock.
2. `DoorPolicy`: an abstract specification of who may open the door when, and
   `Identity` shown to implement it in the direct modes.
3. The door and the engine composed, with `Grant` the opening of `Identity`; the
   face manager as its source of faces and dismissals.
4. Housekeeping and the power manager's standby flag against the dismissal signal.

## 7. Not modelled

The customer variants (Haoyu, Zhangjiakou) override slots of the same engine. The
offline user synchronisation in `RegisteredFacesDB` (`sendCroppedImageToServer`,
`triggerManualSync`) is not called from anywhere. `PersonRegistrationThread` is not
created anywhere. User interface, camera, network
and audio hold no state the door or the records depend on; vendor SDKs and
third-party code are closed or vendored. Power management and the watchdog are
left for later.
