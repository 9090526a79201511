----------------------------- MODULE FingerReader -----------------------------
(***************************************************************************)
(* The fingerprint reader, its lock and the persons it names.              *)
(*                                                                         *)
(* FingerprintManager polls the sensor by a timer of the main thread, and  *)
(* the forms of the panel use the sensor from the same thread.  Every      *)
(* operation holds one mutex.  Enrolment, comparison and a successful      *)
(* check let the main thread dispatch its events while they hold it; a     *)
(* timer that is due then asks for the mutex its own thread holds.         *)
(* FaceApp opens the sensor in a thread of the pool and watches it by a    *)
(* second timer.  The templates are on the sensor; which person a template *)
(* belongs to is the finger_id of the store.                               *)
(***************************************************************************)
EXTENDS PersonStore

CONSTANTS
  Capacity,   \* templates the sensor can hold
  Pages,      \* a search covers the templates below this number, 100 in the code
  MaxUses     \* a bound on uses of the panel and on fingers at the door

ASSUME ReaderAssumption ==
  Capacity \in Nat \ {0} /\ Pages \in Nat /\ MaxUses \in Nat

VARIABLES
  lock,      \* who holds the manager's mutex: nobody, the main thread or the start
  ui,        \* the operation in which the main thread dispatches events
  stuck,     \* another operation waits for the mutex inside of it
  open,      \* the serial line is open
  ready,     \* sensorReady
  monitoring,\* m_isMonitoring
  timer,     \* m_monitoringTimer: there is none, stopped, running
  resumes,   \* single shots that will start the timer again
  health,    \* m_pFingerprintHealthTimer runs
  start,     \* the start of the sensor by FaceApp
  slots,     \* the templates: whose finger_id was set to them
  target,    \* the number the enrolment will store to
  form,      \* the number in mFingerTemplate of the panel's form, 0 for none
  asked,     \* the person and the number whose deletion is being confirmed
  uses       \* how many uses there were

lifeVars == << lock, ui, stuck, open, ready, monitoring, timer, resumes, health, start >>
fingerVars == << slots, target, form, asked >>
vars == << storeVars, lifeVars, fingerVars, uses >>

Empty == "empty"
Unclaimed == "unclaimed"
Numbers == 1 .. Capacity
Searched == {s \in Numbers : s < Pages}  \* searchDatabase
Nobody == {}

Idle == ui = "idle"
Awake == ~stuck  \* the main thread takes the next event

Init ==
  /\ StoreInit
  /\ lock = "free" /\ ui = "idle" /\ stuck = FALSE
  /\ open = FALSE /\ ready = FALSE
  /\ monitoring = FALSE /\ timer = "none" /\ resumes = 0
  /\ health = FALSE
  /\ start = "wait"
  /\ slots = [s \in Numbers |-> Empty]
  /\ target = 0 /\ form = 0
  /\ asked = Nobody
  /\ uses = 0

Use == uses < MaxUses /\ uses' = uses + 1

-----------------------------------------------------------------------------
(* The serial line *)

\* Something closes the line.
LineCloses ==
  /\ open
  /\ open' = FALSE
  /\ UNCHANGED << storeVars, lock, ui, stuck, ready, monitoring, timer, resumes, health,
                  start, fingerVars, uses >>

\* attemptUARTRecovery
Recovers == open' = TRUE /\ ready' = TRUE
RecoveryFails == open' = FALSE /\ ready' = FALSE
AttemptRecovery == Recovers \/ RecoveryFails

\* Every command tests the line first and tries to get it back.
Works == Recovers \/ (open /\ UNCHANGED << open, ready >>)
Command == Works \/ RecoveryFails

-----------------------------------------------------------------------------
(* The start by FaceApp *)

\* Mutant of TakeLock: the sensor is opened without the mutex.
TakeNoLock == lock' = lock

TakeLock == lock = "free" /\ lock' = "start"

\* The single shot of InitFingerprintManager, or the one of the health check,
\* hands initFingerprintSensor to the pool.
OpenSensor ==
  /\ start = "wait"
  /\ TakeLock
  /\ start' = "open"
  /\ UNCHANGED << storeVars, ui, stuck, open, ready, monitoring, timer, resumes, health,
                  fingerVars, uses >>

\* initUART: a failure closes the line and leaves sensorReady; after 15 seconds
\* InitFingerprintManager runs again.
SensorOpened ==
  /\ start = "open"
  /\ lock' = "free"
  /\ \/ Recovers /\ start' = "opened"
     \/ open' = FALSE /\ ready' = ready /\ start' = "wait"
  /\ UNCHANGED << storeVars, ui, stuck, monitoring, timer, resumes, health, fingerVars, uses >>

\* startContinuousMonitoring returns when the monitoring is on.
StartMonitoring ==
  /\ monitoring' = TRUE
  /\ timer' = IF monitoring THEN timer ELSE "on"

\* The monitoring starts, and the health timer, unless the sensor was lost
\* meanwhile: then nothing starts it again.
Monitor ==
  /\ start = "opened" /\ Awake
  /\ start' = "none"
  /\ IF ready THEN StartMonitoring /\ health' = TRUE
              ELSE UNCHANGED << monitoring, timer, health >>
  /\ UNCHANGED << storeVars, lock, ui, stuck, open, ready, resumes, fingerVars, uses >>

-----------------------------------------------------------------------------
(* The two timers *)

\* A timer is due, or a button of the panel is pressed, while the main thread
\* dispatches events inside an operation that holds the mutex.
Nested ==
  /\ ~Idle /\ Awake
  /\ \/ timer = "on" /\ UNCHANGED uses
     \/ health /\ UNCHANGED uses
     \/ Use
  /\ stuck' = TRUE
  /\ UNCHANGED << storeVars, lock, ui, open, ready, monitoring, timer, resumes, health,
                  start, fingerVars >>

\* checkForFingerprint and the health check start without waiting.
Tick == Idle /\ lock = "free"

\* Mutant of StopMonitoring: the health timer runs on.
StopMonitoringOnly == monitoring' = FALSE /\ timer' = "none" /\ health' = health

\* stopContinuousMonitoring and the stop of the health timer.
StopMonitoring == monitoring' = FALSE /\ timer' = "none" /\ health' = FALSE

\* checkUARTHealth finds the line closed: it recovers, or the monitoring stops
\* and the sensor is started again after five seconds.
HealthTick ==
  /\ health /\ Tick /\ ~open
  /\ \/ Recovers /\ UNCHANGED << monitoring, timer, health, start >>
     \/ RecoveryFails /\ StopMonitoring /\ start' = "wait"
  /\ UNCHANGED << storeVars, lock, ui, stuck, resumes, fingerVars, uses >>

\* checkForFingerprint without a sensor or a line, or without a finger.
CheckRecovers ==
  /\ timer = "on" /\ Tick
  /\ AttemptRecovery
  /\ UNCHANGED << storeVars, lock, ui, stuck, monitoring, timer, resumes, health, start,
                  fingerVars, uses >>

Check ==
  /\ timer = "on" /\ Tick /\ ready
  /\ Use
  /\ timer' = "off"

\* A finger nobody has on the sensor, or one whose number no person has, or
\* the line is lost while it is read.
CheckUnknown ==
  /\ Check
  /\ Command
  /\ resumes' = resumes + 1
  /\ UNCHANGED << storeVars, lock, ui, stuck, monitoring, health, start, fingerVars >>

\* A known finger: the signal is sent, and delivered with the mutex held.
CheckMatched ==
  /\ Check
  /\ Works
  /\ \E s \in Searched : slots[s] # Empty /\ WithFinger(cache, s) # {}
  /\ lock' = "main" /\ ui' = "check"
  /\ UNCHANGED << storeVars, stuck, monitoring, resumes, health, start,
                  fingerVars >>

EndCheck ==
  /\ ui = "check" /\ Awake
  /\ ui' = "idle" /\ lock' = "free"
  /\ resumes' = resumes + 1
  /\ UNCHANGED << storeVars, stuck, open, ready, monitoring, timer, health, start,
                  fingerVars, uses >>

\* Three seconds later the timer runs again, if the sensor is ready.
Resume ==
  /\ resumes > 0 /\ Awake
  /\ resumes' = resumes - 1
  /\ timer' = IF timer # "none" /\ ready THEN "on" ELSE timer
  /\ UNCHANGED << storeVars, lock, ui, stuck, open, ready, monitoring, health, start,
                  fingerVars, uses >>

-----------------------------------------------------------------------------
(* The forms of the panel *)

Used == {table[i].finger : i \in DOMAIN table} \cap (Nat \ {0})

\* Mutant of getNextAvailableFingerId: the largest number itself.
LargestFingerId ==
  IF \A i \in DOMAIN table : table[i].finger <= 0 THEN 1
  ELSE CHOOSE n \in Used : \A k \in Used : k <= n

\* getNextAvailableFingerId: the largest number in the table, plus 1.
getNextAvailableFingerId ==
  IF \A i \in DOMAIN table : table[i].finger <= 0 THEN 1
  ELSE 1 + CHOOSE n \in Used : \A k \in Used : k <= n

Press == Use /\ Tick /\ asked = Nobody

\* slotCaptureFingerButton: a sensor that is not ready is opened first; then
\* startEnrollment waits for the finger and dispatches events meanwhile.
CaptureFinger ==
  /\ Press
  /\ \/ ready /\ UNCHANGED << open, ready >>
     \/ ~ready /\ Recovers
  /\ target' = getNextAvailableFingerId
  /\ form' = 0
  /\ lock' = "main" /\ ui' = "enrol"
  /\ UNCHANGED << storeVars, stuck, monitoring, timer, resumes, health, start, slots, asked >>

\* The sensor cannot be opened.
CaptureRefused ==
  /\ Press /\ ~ready
  /\ open' = FALSE
  /\ UNCHANGED << storeVars, lock, ui, stuck, ready, monitoring, timer, resumes, health,
                  start, fingerVars >>

\* Mutant of StoreSucceeds: the answer to the store command is not looked at.
StoreUnchecked == Works

\* storeToFlash: the sensor takes the template, if it has the place.
StoreSucceeds == Works /\ target \in Numbers

Stored == [slots EXCEPT ![target] = Unclaimed]

\* The third sample is taken: the template is stored, unless the finger is a
\* duplicate, does not come or the line is lost.  The answer may be lost too.
EndEnrollment ==
  /\ ui = "enrol" /\ Awake
  /\ ui' = "idle" /\ lock' = "free"
  /\ \/ /\ StoreSucceeds
        /\ slots' = Stored
        /\ form' = target
     \/ StoreSucceeds /\ slots' = Stored /\ form' = form
     \/ Command /\ UNCHANGED << slots, form >>
  /\ target' = 0
  /\ UNCHANGED << storeVars, stuck, monitoring, timer, resumes, health, start, asked, uses >>

\* identifyAndShowResult: detectFinger and the message boxes dispatch events,
\* the one that says the sensor is not ready too.
CompareFinger ==
  /\ Press
  /\ lock' = "main" /\ ui' = "find"
  /\ UNCHANGED << storeVars, stuck, open, ready, monitoring, timer, resumes, health, start,
                  fingerVars >>

EndComparison ==
  /\ ui = "find" /\ Awake
  /\ ui' = "idle" /\ lock' = "free"
  /\ IF ready THEN Command ELSE UNCHANGED << open, ready >>
  /\ UNCHANGED << storeVars, stuck, monitoring, timer, resumes, health, start, fingerVars, uses >>

\* findUuidByEmployeeId: the first entry in memory, else the first row.
UuidOf(c) ==
  IF WithCard(cache, c) # {} THEN {cache[First(WithCard(cache, c))].uuid}
  ELSE IF WithCard(table, c) # {} THEN {table[First(WithCard(table, c))].uuid} ELSE {}

\* slotRegFingerButton: the number in the form goes to the person in the form,
\* and is forgotten when the person has a row.
RegFinger ==
  /\ Awake /\ asked = Nobody
  /\ form # 0
  /\ \E c \in Cards : \E u \in UuidOf(c) :
       /\ UpdatePersonFingerId(u, form)
       /\ slots' = [slots EXCEPT ![form] = IF @ = Empty THEN Empty ELSE u]
       /\ form' = IF WithUuid(table, u) = {} THEN form ELSE 0
  /\ UNCHANGED << loaded, job, edits, strays, lifeVars, target, asked, uses >>

\* getFingerId: the first entry in memory, else the first row.
getFingerId(u) ==
  IF WithUuid(cache, u) # {} THEN cache[First(WithUuid(cache, u))].finger
  ELSE table[First(WithUuid(table, u))].finger

\* slotDeleteFingerButton asks to confirm; only a zero means no finger.
AskDelete ==
  /\ Press
  /\ \E c \in Cards : \E u \in UuidOf(c) :
       /\ getFingerId(u) # ZeroFinger
       /\ asked' = {[uuid |-> u, id |-> getFingerId(u)]}
  /\ UNCHANGED << storeVars, lifeVars, slots, target, form >>

\* Yes: the template goes, then the number of the person, unless the answer of
\* the sensor is lost.
DeleteFinger ==
  /\ asked # Nobody /\ Tick
  /\ asked' = Nobody
  /\ \/ \E a \in asked :
          /\ Works /\ a.id \in Numbers
          /\ slots' = [slots EXCEPT ![a.id] = Empty]
          /\ \/ UpdatePersonFingerId(a.uuid, ZeroFinger)
             \/ UNCHANGED << table, cache >>
     \/ Command /\ UNCHANGED << table, cache, slots >>
  /\ UNCHANGED << loaded, job, edits, strays, lock, ui, stuck, monitoring, timer, resumes,
                  health, start, target, form, uses >>

\* deleteAllFingerprints
DeleteAllFingers ==
  /\ Press
  /\ \/ /\ Works /\ slots' = [s \in Numbers |-> Empty]
        /\ ClearAllFingerIds \/ UNCHANGED << table, cache >>
     \/ Command /\ UNCHANGED << table, cache, slots >>
  /\ UNCHANGED << loaded, job, edits, strays, lock, ui, stuck, monitoring, timer, resumes,
                  health, start, target, form, asked >>

-----------------------------------------------------------------------------
(* The terminal starts again; the sensor keeps its templates. *)

Restart ==
  /\ \E rows \in {table, NoRows} : StoreRestart(rows)
  /\ lock' = "free" /\ ui' = "idle" /\ stuck' = FALSE
  /\ open' = FALSE /\ ready' = FALSE
  /\ monitoring' = FALSE /\ timer' = "none" /\ resumes' = 0
  /\ health' = FALSE
  /\ start' = "wait"
  /\ target' = 0 /\ form' = 0
  /\ asked' = Nobody
  /\ UNCHANGED << slots, uses >>

Store == StoreNext /\ UNCHANGED << lifeVars, fingerVars, uses >>

Next ==
  \/ Store \/ LineCloses
  \/ OpenSensor \/ SensorOpened \/ Monitor
  \/ Nested \/ HealthTick \/ CheckRecovers \/ CheckUnknown \/ CheckMatched \/ EndCheck
  \/ Resume
  \/ CaptureFinger \/ CaptureRefused \/ EndEnrollment \/ CompareFinger \/ EndComparison
  \/ RegFinger \/ AskDelete \/ DeleteFinger \/ DeleteAllFingers
  \/ Restart

Spec == Init /\ [][Next]_vars

-----------------------------------------------------------------------------
(* Properties *)

\* All values stay in their ranges; an enrolment knows where it will store,
\* and the form has a number only of the sensor.
TypeOK ==
  /\ StoreTypeOK
  /\ lock \in {"free", "main", "start"}
  /\ ui \in {"idle", "check", "enrol", "find"}
  /\ stuck \in BOOLEAN
  /\ open \in BOOLEAN /\ ready \in BOOLEAN /\ monitoring \in BOOLEAN /\ health \in BOOLEAN
  /\ timer \in {"none", "off", "on"}
  /\ resumes \in 0 .. MaxUses
  /\ start \in {"none", "wait", "open", "opened"}
  /\ slots \in [Numbers -> Uuids \cup {Empty, Unclaimed}]
  /\ target \in Nat /\ form \in Numbers \cup {0}
  /\ asked \subseteq [uuid : Uuids, id : Int]
  /\ uses \in 0 .. MaxUses

\* A finger at the door names the person it was registered for: whatever is
\* deleted, registered again or enrolled in between, no entry in memory has the
\* number of a template that belongs to somebody else or to nobody yet.  Except
\* for the entries of strays, which the table does not count any more when the
\* next number is chosen (getNextAvailableFingerId).
FingerNamesOwner ==
  \A i \in DOMAIN cache :
    /\ cache[i].finger \in Numbers
    /\ cache[i].uuid \notin strays
    => slots[cache[i].finger] \in {Empty, cache[i].uuid}

\* Two operations never talk to the sensor at the same time: the mutex is held
\* by the start while it opens the line, and by the main thread as long as it is
\* inside of an operation, in which no second one is entered.
OneOnTheWire ==
  /\ (start = "open") = (lock = "start")
  /\ ~Idle = (lock = "main")

\* While the sensor is polled, its health is watched too, and no start is under
\* way: the start by FaceApp and the health check hand over to each other, and
\* neither runs twice.
MonitoringIsWatched ==
  /\ monitoring = health
  /\ monitoring = (timer # "none")
  /\ monitoring => start = "none"

\* The main thread never waits for the mutex it holds itself.
NoSelfWait == ~stuck
=============================================================================
