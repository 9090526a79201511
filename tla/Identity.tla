------------------------------ MODULE Identity ------------------------------
(***************************************************************************)
(* IdentityManagement: who stands in front of the terminal, what he has    *)
(* presented, and when the door opens for him.                             *)
(*                                                                         *)
(* Three threads share one record (mIdentifyFaceRecord).  The main thread  *)
(* runs the slots of the devices, mostly without the mutex; a slot is      *)
(* split where another thread can see it half done.  The identity thread   *)
(* runs DistributeTheTasks with the mutex, every 30 ms or once for each    *)
(* face when it has nothing to do.  The resolver thread compares a face    *)
(* and calls EchoFaceRecognition.                                          *)
(***************************************************************************)
EXTENDS FaceResolver, OpenMode, FiniteSets

CONSTANTS
  Must, Optional, \* the opening modes, sets of Items
  Level,          \* access_level of each person in the database
  DeviceLevel,    \* m_deviceAccessLevel
  IntervalOn,     \* mIdentifyInterval # 0
  VivoDetection,  \* mVivoDetection: live faces only
  Devices,        \* the inputs that occur
  MaxInputs,      \* bounds for model checking: inputs,
  MaxDeletes      \* and persons deleted by the server

AllDevices ==
  {"face", "dismiss", "card", "code", "idcard", "idfull", "temp", "local", "finger"}

ASSUME IdentityAssumption ==
  /\ Must \subseteq Items /\ Optional \subseteq Items
  /\ Level \in [Person -> Nat] /\ DeviceLevel \in Nat
  /\ IntervalOn \in BOOLEAN /\ VivoDetection \in BOOLEAN
  /\ Devices \subseteq AllDevices
  /\ MaxInputs \in Nat /\ MaxDeletes \in Nat

VARIABLES
  rec,      \* mIdentifyFaceRecord
  micCard,  \* the number of the last card, or Nobody
  idCard,   \* mIdentityCard.idCard
  health,   \* mHealthCode: "none" when its timer is 0, else "green" or "other"
  temp,     \* mCurTemperatureValue: "none", "normal" or "high"
  db,       \* the persons in the database
  main,     \* the slot the main thread is in: [pc, dev, arg]
  suspended,\* the fingerprint slot that runs the event loop, or Idle
  timers,   \* pending two-second timers of the fingerprint slot
  worker,   \* where the identity thread is
  inputs,   \* history: how many inputs so far
  tickets,  \* history: faces submitted to the resolver, less openings by face
  voucher,  \* history: who last made the record that of a registered person
  earned    \* history: the items presented and accepted since the last reset

shared == << rec, micCard, idCard, health, temp >>
history == << tickets, voucher, earned >>
vars == << shared, db, main, suspended, timers, worker, resolver, inputs, history >>

RecType == {"UNKNOWN", "MOVING", "SEARCH", "MATCH", "DELETE"}
RecKind == {"unset", "stranger", "known"}

Record ==
  [type : RecType,           \* face.enFaceType
   face : Faces,             \* whose face is stored
   mask : BOOLEAN,           \* face.attr_info.face_mask
   started : BOOLEAN,        \* time_Start # 0
   kind : RecKind,           \* FaceType
   who : Person \cup {Nobody}, \* face_uuid
   process : SUBSET Items,   \* process_state
   Finish : BOOLEAN,
   img : BOOLEAN]            \* FaceImgPath is not empty

Cleared ==
  [type |-> "UNKNOWN", face |-> Nobody, mask |-> FALSE, started |-> FALSE,
   kind |-> "unset", who |-> Nobody, process |-> {}, Finish |-> FALSE, img |-> FALSE]

Idle == [pc |-> "idle", dev |-> "none", arg |-> Nobody]

MainPC == {"idle", "wake", "name", "check", "checkOther", "open", "clear",
           "stamp", "events"}
MainState ==
  [pc : MainPC, dev : AllDevices \cup {"none"}, arg : Faces \cup {"green", "other"}]

FaceMode == SWIPING_FACE \in Must \cup Optional

\* MustOpenMode is "1" or "2": a recognised face opens the door by itself.
Direct == Must \in {{ICCARD}, {SWIPING_FACE}}

\* CheckAccessLevelFromDB
Granted(p) == Level[p] # 0 /\ Level[p] = DeviceLevel

\* The identity thread keeps the mutex in these places.
SyncFree == worker \notin {"open", "submit"}

Live(f) == VivoDetection => f # Nobody

Init ==
  /\ rec = Cleared
  /\ micCard = Nobody /\ idCard = Nobody /\ health = "none" /\ temp = "none"
  /\ db = Person
  /\ main = Idle /\ suspended = Idle /\ timers = 0
  /\ worker = "run"
  /\ ResolverInit
  /\ inputs = 0
  /\ tickets = 0 /\ voucher = Nobody /\ earned = {}

-----------------------------------------------------------------------------
(* The main thread: entering and leaving a slot *)

\* The event loop runs: the thread is idle, or in the processEvents of the
\* fingerprint slot.
Listening == main.pc = "idle" \/ (main.pc = "events" /\ suspended = Idle)

\* It delivers a signal of device dev.
Deliver(dev) ==
  /\ dev \in Devices
  /\ inputs < MaxInputs
  /\ inputs' = inputs + 1
  /\ Listening

\* Run on at pc, in the slot of dev that has just been entered.
Enter(dev, pc, arg) ==
  /\ main' = [pc |-> pc, dev |-> dev, arg |-> arg]
  /\ suspended' = IF main.pc = "events" THEN main ELSE suspended

\* The slot returns at once.
Skip == UNCHANGED << main, suspended >>

Goto(pc) == main' = [main EXCEPT !.pc = pc] /\ UNCHANGED suspended

\* The slot returns, to the event loop or to the slot it interrupted.
Return == main' = suspended /\ suspended' = Idle

\* slotDisClearMessage
Clear(finish) ==
  /\ rec' = [Cleared EXCEPT !.Finish = finish]
  /\ micCard' = Nobody /\ idCard' = Nobody /\ health' = "none" /\ temp' = "none"
  /\ earned' = {}

\* process_state.append, for items that were presented and accepted.
Credit(r, items) == [r EXCEPT !.process = @ \cup items]

-----------------------------------------------------------------------------
(* The main thread: the slots *)

\* CheckMaskMode and CheckNotMaskMode store face f with mask m: a live face
\* of sufficient quality is taken when there is none or when it is another
\* person's; who has presented what is kept.  Quality is abstracted by ok.
TakeFace(f, m, ok) ==
  LET taken == IF ok /\ (~rec.started \/ f # rec.face)
               THEN [rec EXCEPT !.type = "MOVING", !.face = f, !.started = TRUE,
                                !.img = TRUE]
               ELSE rec
  IN  Credit([taken EXCEPT !.mask = m], IF m THEN {MASK} ELSE {})

\* slotMatchCoreFace, up to the release of the mutex.
slotMatchCoreFace(f, m, ok) ==
  /\ Deliver("face")
  /\ SyncFree
  /\ IF Direct
     THEN IF rec.started
          THEN UNCHANGED << rec, resolver, tickets, earned >>
          ELSE /\ rec' = [rec EXCEPT !.face = f, !.mask = m, !.started = TRUE,
                                     !.type = "SEARCH"]
               /\ SafeResolverData(f)
               /\ tickets' = tickets + 1
               /\ UNCHANGED earned
     ELSE /\ rec' = TakeFace(f, m, ok)
          /\ earned' = earned \cup (rec'.process \ rec.process)
          /\ UNCHANGED << resolver, tickets >>
  /\ Enter("face", "wake", f)
  /\ UNCHANGED << micCard, idCard, health, temp, db, timers, worker, voucher >>

\* Mutant of WakeWorker: nobody is woken.
WakeNobody ==
  /\ main.pc = "wake"
  /\ Return
  /\ UNCHANGED << shared, db, timers, worker, resolver, inputs, history >>

\* pauseCond.wakeOne() at its end.
WakeWorker ==
  /\ main.pc = "wake"
  /\ worker' = IF worker = "parked" THEN "run" ELSE worker
  /\ Return
  /\ UNCHANGED << shared, db, timers, resolver, inputs, history >>

\* slotDisMissMessage(false): nobody is in front of the camera.
slotDisMissMessage ==
  /\ Deliver("dismiss")
  /\ FaceMode
  /\ Clear(FALSE)
  /\ Skip
  /\ UNCHANGED << db, timers, worker, resolver, tickets, voucher >>

\* slotReadIccardNum: the card is looked up, and a granted one is credited.
slotReadIccardNum(p) ==
  /\ Deliver("card")
  /\ micCard' = p
  /\ IF p \in db /\ Granted(p)
     THEN /\ rec' = [Credit(rec, {ICCARD}) EXCEPT !.kind = "known"]
          /\ earned' = earned \cup {ICCARD}
          /\ voucher' = p
          /\ Enter("card", "name", p)
     ELSE /\ rec' = IF p \in db THEN [rec EXCEPT !.kind = "stranger"] ELSE rec
          /\ UNCHANGED << earned, voucher >>
          /\ Enter("card", "stamp", p)
  /\ UNCHANGED << idCard, health, temp, db, timers, worker, resolver, tickets >>

\* ... then named and timed.
NameCard ==
  /\ main.pc = "name"
  /\ rec' = [rec EXCEPT !.who = main.arg, !.img = TRUE, !.started = TRUE,
                        !.Finish = FALSE]
  /\ Goto("check")
  /\ UNCHANGED << micCard, idCard, health, temp, db, timers, worker, resolver,
                  inputs, history >>

\* slotHealthCodeInfo
slotHealthCodeInfo(code) ==
  /\ Deliver("code")
  /\ IF code = "green"
     THEN /\ rec' = [Credit(rec, {QRCODE}) EXCEPT !.started = TRUE, !.Finish = FALSE]
          /\ earned' = earned \cup {QRCODE}
          /\ Enter("code", "check", code)
     ELSE /\ Enter("code", "stamp", code)
          /\ UNCHANGED << rec, earned >>
  /\ UNCHANGED << micCard, idCard, health, temp, db, timers, worker, resolver,
                  tickets, voucher >>

\* slotIdentityCardInfo: a query for an unknown number returns some other
\* row, and that branch credits the card too.
slotIdentityCardInfo(p) ==
  /\ Deliver("idcard")
  /\ rec.img
  /\ idCard' = p
  /\ IF db = {}
     THEN UNCHANGED << rec, earned >> /\ Enter("idcard", "stamp", p)
     ELSE /\ rec' = [Credit(rec, {IDCARD}) EXCEPT
                       !.who = IF p \in db THEN p ELSE @, !.started = TRUE]
          /\ earned' = IF p \in db THEN earned \cup {IDCARD} ELSE earned
          /\ Enter("idcard", IF p \in db THEN "check" ELSE "checkOther", p)
  /\ UNCHANGED << micCard, health, temp, db, timers, worker, resolver, tickets,
                  voucher >>

\* slotIdentityCardFullInfo: the card is credited whoever it belongs to.
slotIdentityCardFullInfo(p, late) ==
  /\ Deliver("idfull")
  /\ idCard' = p
  /\ rec' = [Credit(rec, {IDCARD}) EXCEPT
               !.started = @ \/ (~FaceMode /\ IntervalOn /\ late)]
  /\ Skip
  /\ UNCHANGED << micCard, health, temp, db, timers, worker, resolver, tickets,
                  voucher, earned >>

\* slotTemperatureValue, when somebody stands there and 3 is in the modes.
slotTemperatureValue(t) ==
  /\ Deliver("temp")
  /\ temp' = IF temp = "none" THEN t ELSE temp
  /\ IF /\ t = "normal"
        /\ Live(rec.face) \/ rec.img
        /\ THERMOMETRY \in Must \cup Optional
     THEN /\ rec' = [Credit(rec, {THERMOMETRY}) EXCEPT !.started = @ \/ ~FaceMode]
          /\ earned' = earned \cup {THERMOMETRY}
          /\ IF FaceMode THEN Skip ELSE Enter("temp", "check", Nobody)
     ELSE UNCHANGED << rec, earned >> /\ Skip
  /\ UNCHANGED << micCard, idCard, health, db, timers, worker, resolver, tickets,
                  voucher >>

\* slotLRHealthCodeInfo2 and ShowLRHealthCodeAndOpenDoor: ok is a green code
\* whose test is at most 24 hours old.
slotLRHealthCodeInfo2(green, ok) ==
  /\ Deliver("local")
  /\ rec.img
  /\ LET items == IF ok /\ QRCODE_LOCAL \in Must \cup Optional
                  THEN {QRCODE_LOCAL} ELSE {}
         read  == green /\ temp # "high"
     IN  /\ rec' = [Credit(rec, IF read THEN items ELSE {}) EXCEPT !.started = TRUE]
         /\ earned' = earned \cup (rec'.process \ rec.process)
         /\ IF read THEN Enter("local", "check", Nobody) ELSE Skip
  /\ UNCHANGED << micCard, idCard, health, temp, db, timers, worker, resolver,
                  tickets, voucher >>

\* slotFingerprintMatched, up to processEvents.
slotFingerprintMatched(p) ==
  /\ Deliver("finger")
  /\ SyncFree
  /\ p \in db
  /\ IF Granted(p)
     THEN /\ rec' = [Credit(rec, {FINGER}) EXCEPT !.kind = "known", !.who = p,
                                                  !.started = TRUE]
          /\ earned' = earned \cup {FINGER}
          /\ voucher' = p
          /\ Enter("finger", "events", p)
     ELSE /\ rec' = [rec EXCEPT !.kind = "stranger", !.who = Nobody, !.started = TRUE]
          /\ Skip
          /\ UNCHANGED << earned, voucher >>
  /\ UNCHANGED << micCard, idCard, health, temp, db, timers, worker, resolver,
                  tickets >>

\* processEvents returns: the finger opens the door in these modes, with no
\* further test.
FingerGoesOn ==
  /\ main.pc = "events"
  /\ IF FINGER \in Must \cup Optional \/ Direct THEN Goto("open") ELSE Return
  /\ UNCHANGED << shared, db, timers, worker, resolver, inputs, history >>

\* Mutant of FingerTimer: the timer repeats.
FingerTimerRepeats ==
  /\ timers > 0 \/ rec.Finish
  /\ Listening
  /\ timers' = timers - 1
  /\ Clear(TRUE)
  /\ UNCHANGED << db, main, suspended, worker, resolver, inputs, tickets, voucher >>

\* The timer of the fingerprint slot, two seconds after it opened the door.
FingerTimer ==
  /\ timers > 0
  /\ Listening
  /\ timers' = timers - 1
  /\ Clear(TRUE)
  /\ UNCHANGED << db, main, suspended, worker, resolver, inputs, tickets, voucher >>

-----------------------------------------------------------------------------
(* The main thread: what the slots have in common *)

\* Where a slot goes on after its attempt to open the door.
AfterCheck == IF main.dev \in {"card", "code", "idcard"} THEN Goto("stamp") ELSE Return

\* CanOpenDoor: passage is CheckPassageOfTime, late is the interval test.
Expired(late) == FaceMode /\ IntervalOn /\ late

MayOpen(passage, late) ==
  /\ passage
  /\ ~Expired(late)
  /\ ~(FaceMode /\ rec.Finish)
  /\ CanOpen(Must, Optional, rec.process)

\* An unknown identity card opens nothing in the face modes.
Refused == main.pc = "checkOther" /\ FaceMode

CheckDoor(passage, late) ==
  /\ main.pc \in {"check", "checkOther"}
  /\ IF MayOpen(passage, late) /\ ~Refused THEN Goto("open") ELSE AfterCheck
  /\ IF passage /\ Expired(late)
     THEN Clear(FALSE)
     ELSE UNCHANGED << shared, earned >>
  /\ UNCHANGED << db, timers, worker, resolver, inputs, tickets, voucher >>

\* The relay and appRecordData.
OpenDoor ==
  /\ main.pc = "open"
  /\ CASE main.dev = "finger" -> timers' = timers + 1 /\ Return
       [] main.dev = "local"  -> Return /\ UNCHANGED timers
       [] OTHER               -> Goto("clear") /\ UNCHANGED timers
  /\ UNCHANGED << shared, db, worker, resolver, inputs, tickets, voucher, earned >>

\* slotDisClearMessage after the opening.
ClearAfter ==
  /\ main.pc = "clear"
  /\ Clear(main.dev \in {"card", "code"})
  /\ AfterCheck
  /\ UNCHANGED << db, timers, worker, resolver, inputs, tickets, voucher >>

\* The last statement of these slots stores what was read, with its time.
Stamp ==
  /\ main.pc = "stamp"
  /\ SyncFree
  /\ micCard' = IF main.dev = "card" THEN main.arg ELSE micCard
  /\ health' = IF main.dev = "code" THEN main.arg ELSE health
  /\ idCard' = IF main.dev = "idcard" THEN main.arg ELSE idCard
  /\ Return
  /\ UNCHANGED << rec, temp, db, timers, worker, resolver, inputs, history >>

Slot ==
  WakeWorker \/ NameCard \/ FingerGoesOn \/ OpenDoor \/ ClearAfter \/ Stamp
  \/ \E passage, late \in BOOLEAN : CheckDoor(passage, late)

Signal ==
  \/ \E f \in Person \cup {Unregistered}, m, ok \in BOOLEAN : slotMatchCoreFace(f, m, ok)
  \/ slotDisMissMessage
  \/ \E p \in Person \cup {Unregistered} :
       slotReadIccardNum(p) \/ slotIdentityCardInfo(p)
  \/ \E p \in Person \cup {Unregistered}, late \in BOOLEAN :
       slotIdentityCardFullInfo(p, late)
  \/ \E code \in {"green", "other"} : slotHealthCodeInfo(code)
  \/ \E t \in {"normal", "high"} : slotTemperatureValue(t)
  \/ \E green, ok \in BOOLEAN : slotLRHealthCodeInfo2(green, ok)
  \/ \E p \in Person : slotFingerprintMatched(p)

-----------------------------------------------------------------------------
(* The identity thread: DistributeTheTasks, by the type of the stored face *)

WorkerKeeps == UNCHANGED << db, main, suspended, timers, inputs >>

\* CORE_FACE_RECT_TYPE_UNKNOWN: wait for a face.
Park ==
  /\ worker = "run" /\ rec.type = "UNKNOWN"
  /\ worker' = "parked"
  /\ WorkerKeeps
  /\ UNCHANGED << shared, resolver, history >>

\* CORE_FACE_RECT_TYPE_MOVING: search, or go on without a search.
StartSearch ==
  /\ worker = "run" /\ rec.type = "MOVING"
  /\ rec' = [rec EXCEPT !.type = IF FaceMode THEN "SEARCH" ELSE "MATCH"]
  /\ worker' = IF FaceMode THEN "submit" ELSE "run"
  /\ WorkerKeeps
  /\ UNCHANGED << micCard, idCard, health, temp, resolver, history >>

\* The face is read when the resolver's mutex is free.
Submit ==
  /\ worker = "submit"
  /\ SafeResolverData(rec.face)
  /\ tickets' = tickets + 1
  /\ worker' = "run"
  /\ WorkerKeeps
  /\ UNCHANGED << shared, voucher, earned >>

\* Mutant of MatchDirect: a stranger's record is not closed.
MatchKeepsStranger ==
  /\ worker = "run" /\ rec.type = "MATCH" /\ Direct
  /\ rec.kind = "known"
  /\ worker' = "open"
  /\ WorkerKeeps
  /\ UNCHANGED << shared, resolver, history >>

\* CORE_FACE_RECT_TYPE_MATCH in the direct modes, up to the decision,
MatchDirect ==
  /\ worker = "run" /\ rec.type = "MATCH" /\ Direct
  /\ IF rec.kind = "known"
     THEN worker' = "open" /\ UNCHANGED rec
     ELSE rec' = [rec EXCEPT !.type = "DELETE"] /\ UNCHANGED worker
  /\ WorkerKeeps
  /\ UNCHANGED << micCard, idCard, health, temp, resolver, history >>

\* Mutant of OpenForFace: the record stays in MATCH.
OpenKeepsMatch ==
  /\ worker = "open"
  /\ tickets' = tickets - 1
  /\ worker' = "run"
  /\ WorkerKeeps
  /\ UNCHANGED << shared, resolver, voucher, earned >>

\* and the opening, which stores the record as it is by then.
OpenForFace ==
  /\ worker = "open"
  /\ rec' = [rec EXCEPT !.type = "DELETE"]
  /\ tickets' = tickets - 1
  /\ worker' = "run"
  /\ WorkerKeeps
  /\ UNCHANGED << micCard, idCard, health, temp, resolver, voucher, earned >>

\* CheckDoorOpenMode works through the items of the modes.  Each stage maps a
\* record to a record; valid(i) says that what was read for item i is recent.
MustItems == IF Must \cup Optional = {} THEN {ICCARD, SWIPING_FACE} ELSE Must

Lacks(r, i) == i \notin r.process

Registered(r, i) == [Credit(r, {i}) EXCEPT !.kind = "known"]

ByCard(r, modes, valid) ==
  IF ICCARD \in modes /\ Lacks(r, ICCARD) /\ ICCARD \in valid /\ micCard \in db
  THEN Registered(r, ICCARD) ELSE r

\* A stranger's face counts as presented when the face is required.
ByFace(r, modes) ==
  IF SWIPING_FACE \in modes /\ r.kind # "known" THEN Credit(r, {SWIPING_FACE}) ELSE r

ByCode(r, modes, valid) ==
  IF QRCODE \in modes /\ Lacks(r, QRCODE) /\ QRCODE \in valid /\ health = "green"
  THEN Credit(r, {QRCODE}) ELSE r

ByIdCard(r, modes, valid) ==
  IF IDCARD \in modes /\ Lacks(r, IDCARD) /\ IDCARD \in valid /\ idCard \in db
  THEN Registered(r, IDCARD) ELSE r

\* The stored picture is compared with the one on the identity card.
ByPersonIdCard(r, modes) ==
  IF /\ PERSON_IDCARD \in modes /\ Lacks(r, PERSON_IDCARD)
     /\ idCard # Nobody /\ idCard = r.face
  THEN Registered(r, PERSON_IDCARD) ELSE r

ByMask(r, modes) == IF MASK \in modes /\ r.mask THEN Credit(r, {MASK}) ELSE r

AfterRequired(valid) ==
  ByPersonIdCard(ByIdCard(ByCode(ByFace(ByCard(rec, MustItems, valid), MustItems),
                                 MustItems, valid), MustItems, valid), MustItems)

AfterOptional(r, valid) ==
  ByIdCard(ByCode(ByMask(r, Optional), Optional, valid), Optional, valid)

\* What stands behind a new credit: the level of the card, a known face.
Accepted(i) ==
  /\ i = ICCARD => Granted(micCard)
  /\ i # SWIPING_FACE

\* CORE_FACE_RECT_TYPE_MATCH in the other modes, at a time when passage is
\* allowed.  Nothing opens here: what CheckDoorOpenMode returns is dropped,
\* but the CanOpenDoor it ends with forgets a record that is too old.
MatchModes(valid, late) ==
  /\ worker = "run" /\ rec.type = "MATCH" /\ ~Direct
  /\ LET r1 == AfterRequired(valid)
         r2 == ByCard(r1, Optional, valid)
         stranger == SWIPING_FACE \in Optional /\ r2.kind # "known"
     IN  IF ~stranger /\ Expired(late)
         THEN Clear(FALSE) /\ UNCHANGED voucher
         ELSE /\ rec' = IF stranger THEN r2 ELSE AfterOptional(r2, valid)
              /\ earned' = earned \cup {i \in rec'.process \ rec.process : Accepted(i)}
              /\ voucher' = IF rec'.kind = rec.kind THEN voucher
                            ELSE IF ICCARD \in rec'.process THEN micCard ELSE idCard
              /\ UNCHANGED << micCard, idCard, health, temp >>
  /\ WorkerKeeps
  /\ UNCHANGED << worker, resolver, tickets >>

\* The same at a time when it is not: wait for a face.
MatchRefused ==
  /\ worker = "run" /\ rec.type = "MATCH" /\ ~Direct
  /\ worker' = "parked"
  /\ WorkerKeeps
  /\ UNCHANGED << shared, resolver, history >>

\* Mutant of Forget: only the items are forgotten.
ForgetItems ==
  /\ worker = "run" /\ rec.type = "DELETE" /\ IntervalOn
  /\ rec' = [rec EXCEPT !.type = "UNKNOWN", !.process = {}]
  /\ micCard' = Nobody /\ idCard' = Nobody /\ health' = "none"
  /\ earned' = {}
  /\ WorkerKeeps
  /\ UNCHANGED << temp, worker, resolver, tickets, voucher >>

\* CORE_FACE_RECT_TYPE_DELETE: after the interval the record is forgotten.
Forget ==
  /\ worker = "run" /\ rec.type = "DELETE" /\ IntervalOn
  /\ rec' = Cleared
  /\ micCard' = Nobody /\ idCard' = Nobody /\ health' = "none"
  /\ earned' = {}
  /\ WorkerKeeps
  /\ UNCHANGED << temp, worker, resolver, tickets, voucher >>

Worker ==
  Park \/ StartSearch \/ Submit \/ MatchDirect \/ OpenForFace \/ MatchRefused
  \/ Forget \/ \E valid \in SUBSET {ICCARD, QRCODE, IDCARD}, late \in BOOLEAN :
                 MatchModes(valid, late)

-----------------------------------------------------------------------------
(* The resolver thread *)

ResolverKeeps == UNCHANGED << db, main, suspended, timers, worker, inputs >>

ResolverWork ==
  /\ ResolverTop \/ Compare(db)
  /\ ResolverKeeps
  /\ UNCHANGED << shared, history >>

\* Mutant of EchoAccess: the level is not tested.
EchoAnyLevel ==
  /\ resolver.pc = "echo"
  /\ resolver' = [resolver EXCEPT !.pc = "apply"]
  /\ ResolverKeeps
  /\ UNCHANGED << shared, history >>

\* EchoFaceRecognition looks the person up again and tests his level; a person
\* deleted since the comparison has no row to test.
EchoAccess ==
  /\ resolver.pc = "echo"
  /\ resolver' = [resolver EXCEPT
       !.pc = "apply",
       !.result = IF @ \in db /\ ~Granted(@) THEN Unregistered ELSE @]
  /\ ResolverKeeps
  /\ UNCHANGED << shared, history >>

\* What a result p makes of the record, crediting the items of credits.
Echoed(p, credits) ==
  [rec EXCEPT !.type = "MATCH", !.started = TRUE, !.process = credits,
              !.kind = IF p \in Person THEN "known" ELSE "stranger",
              !.who = IF p \in Person THEN p ELSE Nobody]

\* Mutant of FaceCredits: a stranger's face is credited.
CreditsAnyFace(p) == rec.process \cup {SWIPING_FACE}

\* Mutant of FaceCredits: the items collected so far are overwritten.
CreditsFaceOnly(p) == IF p \in Person THEN {SWIPING_FACE} ELSE rec.process

\* A known face is credited.
FaceCredits(p) == IF p \in Person THEN rec.process \cup {SWIPING_FACE} ELSE rec.process

\* With the mutex, the result goes to the record as it is now, whichever face
\* was compared.
EchoApply ==
  /\ resolver.pc = "apply"
  /\ SyncFree
  /\ resolver' = [resolver EXCEPT !.pc = "top"]
  /\ LET p == resolver.result
     IN  IF rec.type = "UNKNOWN"
         THEN UNCHANGED << rec, earned, voucher >>
         ELSE /\ rec' = Echoed(p, FaceCredits(p))
              /\ earned' = IF p \in Person THEN earned \cup {SWIPING_FACE} ELSE earned
              /\ voucher' = IF p \in Person THEN p ELSE voucher
  /\ ResolverKeeps
  /\ UNCHANGED << micCard, idCard, health, temp, tickets >>

Resolver == ResolverWork \/ EchoAccess \/ EchoApply

\* The server deletes a person.
DeletePerson(p) ==
  /\ p \in db
  /\ Cardinality(Person \ db) < MaxDeletes
  /\ db' = db \ {p}
  /\ UNCHANGED << shared, main, suspended, timers, worker, resolver, inputs, history >>

Next ==
  \/ Signal
  \/ FingerTimer
  \/ Slot
  \/ Worker
  \/ Resolver
  \/ \E p \in Person : DeletePerson(p)

Fairness == WF_vars(Slot) /\ WF_vars(Worker) /\ WF_vars(Resolver)

Spec == Init /\ [][Next]_vars /\ Fairness
-----------------------------------------------------------------------------
(* Properties *)

TypeOK ==
  /\ rec \in Record
  /\ micCard \in Faces /\ idCard \in Faces
  /\ health \in {"none", "green", "other"} /\ temp \in {"none", "normal", "high"}
  /\ db \subseteq Person
  /\ main \in MainState /\ suspended \in MainState
  /\ timers \in Nat
  /\ worker \in {"run", "parked", "submit", "open"}
  /\ resolver \in ResolverState
  /\ inputs \in 0 .. MaxInputs
  /\ tickets \in Int /\ voucher \in Faces /\ earned \subseteq Items

\* The identity thread sleeps without a timeout only when there is nothing to
\* do for the stored face, or when the slot that stored it is about to wake
\* it; outside the direct modes a match at a forbidden time sleeps too.
NoLostWakeup ==
  worker = "parked" /\ rec.type # "UNKNOWN" =>
    main.pc = "wake" \/ (~Direct /\ rec.type = "MATCH")

\* In the direct modes each face given to the resolver opens the door at most
\* once: neither a late result, nor a reset by another thread between the
\* decision and the opening, nor a record found in MATCH again makes it two.
FaceOpensOnce == Direct => tickets >= 0

\* Whoever made the record that of a registered person had the level of this
\* terminal, or is not in its database any more: no order of face, card and
\* finger makes a refused recognition, card or finger one that opens.  Whether
\* it is credited to the person it came from is not said.
Vouched == voucher \in Person /\ (Granted(voucher) \/ voucher \notin db)

VouchedByGranted ==
  Direct /\ (rec.kind = "known" \/ worker = "open" \/ main.pc = "open") => Vouched

\* An item counts as presented only if it was accepted.
CreditsEarned == rec.process \subseteq earned

\* The slots that ask CanOpenDoor before they open; the fingerprint's does not.
Opening == main.pc = "open" /\ main.dev # "finger"

\* What rules 1 to 3 above CanOpenDoor demand: whoever opens the door has all
\* of the required items and one of the optional ones, still at the opening,
\* whose record is stored with it.  With an interval the code does not do it.
OpensSatisfied == Opening => Satisfied(Must, Optional, rec.process)

\* What the code does do: no other thread takes single items out of the record
\* between CanOpenDoor and the opening, by a late result, by the tests of
\* CheckDoorOpenMode or otherwise.  The identity thread may find it too old in
\* that time, and then nothing of it is left, neither item nor name.
OpensOnWholeRecord ==
  Opening => \/ Satisfied(Must, Optional, rec.process)
             \/ IntervalOn /\ rec = Cleared

\* Every slot returns, whoever holds the mutex it needs.
SlotsReturn == (main.pc # "idle") ~> (main.pc = "idle")

\* A face that is searched gets a result or is dismissed: the task it was put
\* in is not lost, whatever the resolver is doing at that moment.
SearchEnds == (rec.type = "SEARCH") ~> (rec.type # "SEARCH")

\* In the direct modes a recognised face is acted on.
MatchHandled == Direct => ((rec.type = "MATCH") ~> (rec.type # "MATCH"))
=============================================================================
