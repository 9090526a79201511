-------------------------- MODULE FingerReaderProof --------------------------
(***************************************************************************)
(* FingerReader, proved for every set of persons, every size of the sensor *)
(* and any number of uses: one operation at a time on the serial line, the *)
(* hand-over of polling and watching between the start and the health      *)
(* timer, the types, the agreement of memory and table, and that a finger  *)
(* at the door names its owner.  The first two do not depend on what the   *)
(* store does: its steps leave the life of the reader alone.  The last two *)
(* rest on the steps of the store, proved in PersonStoreProof.             *)
(***************************************************************************)
EXTENDS FingerReader, PersonStoreProof

\* The steps of the store and of the form touch nothing of the reader's life.
LEMMA StoreApart == Store \/ RegFinger \/ AskDelete => UNCHANGED lifeVars
  BY DEF Store, RegFinger, AskDelete

-----------------------------------------------------------------------------
(* The mutex and the line *)

LEMMA WireStart == Init => OneOnTheWire
  BY DEF Init, OneOnTheWire, Idle

\* Who takes the mutex finds it free, and who gives it back held it.
LEMMA WireStep == OneOnTheWire /\ [Next]_vars => OneOnTheWire'
<1> SUFFICES ASSUME OneOnTheWire, [Next]_vars PROVE OneOnTheWire'
  OBVIOUS
<1> USE DEF OneOnTheWire, Idle
<1>1. CASE Store \/ RegFinger \/ AskDelete
  BY <1>1, StoreApart DEF lifeVars
<1>2. CASE UNCHANGED vars
  BY <1>2 DEF vars, lifeVars
<1>3. CASE OpenSensor
  BY <1>3 DEF OpenSensor, TakeLock
<1>4. CASE SensorOpened
  BY <1>4 DEF SensorOpened
<1>5. CASE Monitor
  BY <1>5 DEF Monitor
<1>6. CASE HealthTick
  BY <1>6 DEF HealthTick, Tick
<1>7. CASE CheckMatched
  BY <1>7 DEF CheckMatched, Check, Tick
<1>8. CASE CaptureFinger \/ CompareFinger
  BY <1>8 DEF CaptureFinger, CompareFinger, Press, Tick
<1>9. CASE EndCheck \/ EndEnrollment \/ EndComparison
  BY <1>9 DEF EndCheck, EndEnrollment, EndComparison
<1>10. CASE LineCloses \/ Nested \/ CheckRecovers \/ CheckUnknown \/ Resume \/ CaptureRefused
  BY <1>10 DEF LineCloses, Nested, CheckRecovers, CheckUnknown, Resume, CaptureRefused, fingerVars
<1>11. CASE DeleteFinger \/ DeleteAllFingers
  BY <1>11 DEF DeleteFinger, DeleteAllFingers
<1>12. CASE Restart
  BY <1>12 DEF Restart
<1> QED
  BY <1>1, <1>2, <1>3, <1>4, <1>5, <1>6, <1>7, <1>8, <1>9, <1>10, <1>11, <1>12 DEF Next

\* Two operations never talk to the sensor at once, whatever the main thread
\* dispatches and whenever the pool opens the sensor: the mutex is held by the
\* start exactly while it opens the line, and by the main thread exactly while
\* it is inside of an operation.
THEOREM OneAtATime == Spec => []OneOnTheWire
  BY WireStart, WireStep, PTL DEF Spec

-----------------------------------------------------------------------------
(* Polling and watching *)

LEMMA WatchStart == Init => MonitoringIsWatched
  BY DEF Init, MonitoringIsWatched

\* Both timers are started by one step and stopped by another; in between the
\* polling timer is stopped and started, never removed.
LEMMA WatchStep == MonitoringIsWatched /\ [Next]_vars => MonitoringIsWatched'
<1> SUFFICES ASSUME MonitoringIsWatched, [Next]_vars PROVE MonitoringIsWatched'
  OBVIOUS
<1> USE DEF MonitoringIsWatched
<1>1. CASE Store \/ RegFinger \/ AskDelete
  BY <1>1, StoreApart DEF lifeVars
<1>2. CASE UNCHANGED vars
  BY <1>2 DEF vars, lifeVars
<1>3. CASE OpenSensor
  BY <1>3 DEF OpenSensor
<1>4. CASE SensorOpened
  BY <1>4 DEF SensorOpened
<1>5. CASE Monitor
  <2>1. ~monitoring /\ ~health /\ start' = "none"
    BY <1>5 DEF Monitor
  <2>2. CASE ready
    <3>1. monitoring' = TRUE /\ health' = TRUE /\ timer' = "on"
      BY <1>5, <2>1, <2>2 DEF Monitor, StartMonitoring
    <3> QED
      BY <2>1, <3>1
  <2>3. CASE ~ready
    <3>1. monitoring' = monitoring /\ health' = health /\ timer' = timer
      BY <1>5, <2>3 DEF Monitor
    <3> QED
      BY <2>1, <3>1
  <2> QED
    BY <2>2, <2>3
<1>6. CASE HealthTick
  <2>1. CASE RecoveryFails /\ StopMonitoring /\ start' = "wait"
    BY <2>1 DEF StopMonitoring
  <2>2. CASE UNCHANGED << monitoring, timer, health, start >>
    BY <2>2
  <2> QED
    BY <1>6, <2>1, <2>2 DEF HealthTick
<1>7. CASE CheckMatched \/ CheckUnknown
  BY <1>7 DEF CheckMatched, CheckUnknown, Check
<1>8. CASE Resume
  BY <1>8 DEF Resume
<1>9. CASE EndCheck \/ EndEnrollment \/ EndComparison \/ CaptureFinger \/ CompareFinger
  BY <1>9 DEF EndCheck, EndEnrollment, EndComparison, CaptureFinger, CompareFinger, fingerVars
<1>10. CASE LineCloses \/ Nested \/ CheckRecovers \/ CaptureRefused
  BY <1>10 DEF LineCloses, Nested, CheckRecovers, CaptureRefused, fingerVars
<1>11. CASE DeleteFinger \/ DeleteAllFingers
  BY <1>11 DEF DeleteFinger, DeleteAllFingers
<1>12. CASE Restart
  BY <1>12 DEF Restart
<1> QED
  BY <1>1, <1>2, <1>3, <1>4, <1>5, <1>6, <1>7, <1>8, <1>9, <1>10, <1>11, <1>12 DEF Next

\* However often the line fails and the terminal restarts, the sensor is polled
\* exactly while its health is watched, and then no start is under way that
\* would begin a second polling.
THEOREM Watched == Spec => []MonitoringIsWatched
  BY WatchStart, WatchStep, PTL DEF Spec

-----------------------------------------------------------------------------
(* The life of the reader: types *)

\* Every single shot that is pending, and the check that will leave one, stands
\* for a use.
LifeOK ==
  /\ lock \in {"free", "main", "start"}
  /\ ui \in {"idle", "check", "enrol", "find"}
  /\ stuck \in BOOLEAN
  /\ open \in BOOLEAN /\ ready \in BOOLEAN /\ monitoring \in BOOLEAN /\ health \in BOOLEAN
  /\ timer \in {"none", "off", "on"}
  /\ start \in {"none", "wait", "open", "opened"}

UsesOK ==
  /\ resumes \in Nat /\ uses \in 0 .. MaxUses
  /\ resumes <= uses
  /\ ui = "check" => resumes < uses

LEMMA LifeStart == Init => LifeOK /\ UsesOK
<1>1. Init => LifeOK
  BY Zenon DEF Init, LifeOK
<1>2. Init => resumes = 0 /\ uses = 0 /\ ui = "idle"
  BY Zenon DEF Init
<1>3. MaxUses \in Nat
  BY ReaderAssumption
<1>4. resumes = 0 /\ uses = 0 /\ ui = "idle" => UsesOK
  BY <1>3 DEF UsesOK
<1> QED
  BY <1>1, <1>2, <1>4

LEMMA LifeStep == LifeOK /\ [Next]_vars => LifeOK'
<1> SUFFICES ASSUME LifeOK, [Next]_vars PROVE LifeOK'
  OBVIOUS
<1> USE DEF LifeOK, Recovers, RecoveryFails, Works, Command, AttemptRecovery
<1>1. CASE Store \/ RegFinger \/ AskDelete
  BY <1>1, StoreApart DEF lifeVars
<1>2. CASE UNCHANGED vars
  BY <1>2 DEF vars, lifeVars
<1>3. CASE OpenSensor
  BY <1>3 DEF OpenSensor, TakeLock
<1>4. CASE SensorOpened
  BY <1>4 DEF SensorOpened
<1>5. CASE Monitor
  BY <1>5 DEF Monitor, StartMonitoring
<1>6. CASE HealthTick
  BY <1>6 DEF HealthTick, StopMonitoring
<1>7. CASE CheckRecovers
  BY <1>7 DEF CheckRecovers
<1>8. CASE CheckUnknown
  BY <1>8 DEF CheckUnknown, Check
<1>9. CASE CheckMatched
  BY <1>9 DEF CheckMatched, Check
<1>10. CASE EndCheck
  BY <1>10 DEF EndCheck
<1>11. CASE Resume
  BY <1>11 DEF Resume
<1>12. CASE CaptureFinger
  BY <1>12 DEF CaptureFinger
<1>13. CASE CaptureRefused
  BY <1>13 DEF CaptureRefused
<1>14. CASE EndEnrollment
  BY <1>14 DEF EndEnrollment, StoreSucceeds
<1>15. CASE CompareFinger
  BY <1>15 DEF CompareFinger
<1>16. CASE EndComparison
  BY <1>16 DEF EndComparison
<1>17. CASE DeleteFinger
  BY <1>17 DEF DeleteFinger
<1>18. CASE DeleteAllFingers
  BY <1>18 DEF DeleteAllFingers
<1>19. CASE Restart
  BY <1>19 DEF Restart
<1>20. CASE LineCloses
  BY <1>20 DEF LineCloses
<1>21. CASE Nested
  BY <1>21 DEF Nested
<1> QED
  BY <1>1, <1>2, <1>3, <1>4, <1>5, <1>6, <1>7, <1>8, <1>9, <1>10, <1>11, <1>12, <1>13, <1>14,
     <1>15, <1>16, <1>17, <1>18, <1>19, <1>20, <1>21 DEF Next

\* A check uses a finger and leaves at most one single shot, at its end.
LEMMA UsesStep == UsesOK /\ [Next]_vars => UsesOK'
<1> SUFFICES ASSUME UsesOK, [Next]_vars PROVE UsesOK'
  OBVIOUS
<1> USE DEF UsesOK
<1>0. MaxUses \in Nat
  BY ReaderAssumption
<1>1. CASE Store \/ RegFinger
  BY <1>1, StoreApart DEF lifeVars, Store, RegFinger
<1>2. CASE UNCHANGED vars
  BY <1>2 DEF vars, lifeVars
<1>3. CASE UNCHANGED << ui, resumes, uses >>
  BY <1>3
<1>4. CASE Use /\ UNCHANGED << ui, resumes >>
  BY <1>0, <1>4 DEF Use
<1>5. CASE ui' # "check" /\ UNCHANGED << resumes, uses >>
  BY <1>5
<1>6. CASE OpenSensor \/ SensorOpened \/ Monitor \/ HealthTick \/ CheckRecovers \/ LineCloses
  BY <1>6, <1>3
  DEF OpenSensor, SensorOpened, Monitor, HealthTick, CheckRecovers, LineCloses
<1>7. CASE CheckUnknown
  BY <1>0, <1>7 DEF CheckUnknown, Check, Use, Tick, Idle
<1>8. CASE CheckMatched
  BY <1>0, <1>8 DEF CheckMatched, Check, Use
<1>9. CASE EndCheck
  BY <1>9 DEF EndCheck
<1>10. CASE Resume
  BY <1>10 DEF Resume
<1>11. CASE AskDelete \/ CaptureRefused \/ DeleteAllFingers
  BY <1>11, <1>4 DEF AskDelete, CaptureRefused, DeleteAllFingers, Press, lifeVars
<1>12. CASE CaptureFinger \/ CompareFinger
  BY <1>0, <1>12 DEF CaptureFinger, CompareFinger, Press, Use
<1>13. CASE EndEnrollment \/ EndComparison
  BY <1>13, <1>5 DEF EndEnrollment, EndComparison
<1>14. CASE DeleteFinger
  BY <1>14, <1>3 DEF DeleteFinger
<1>15. CASE Restart
  BY <1>15 DEF Restart
<1>16. CASE Nested
  BY <1>16, <1>3, <1>4 DEF Nested
<1> QED
  BY <1>1, <1>2, <1>6, <1>7, <1>8, <1>9, <1>10, <1>11, <1>12, <1>13, <1>14, <1>15, <1>16 DEF Next

-----------------------------------------------------------------------------
(* The numbers *)

\* A finger on the sensor belongs to the person whose row has its number, or is
\* gone; the number an enrolment or the form holds is above those of all rows.
NumbersPart ==
  /\ \A r \in DOMAIN table :
       table[r].finger \in Numbers => slots[table[r].finger] \in {Empty, table[r].uuid}
  /\ form # 0 => \A r \in DOMAIN table : table[r].finger < form
  /\ ui = "enrol" => form = 0 /\ \A r \in DOMAIN table : table[r].finger < target

FingersOK ==
  /\ slots \in [Numbers -> Uuids \cup {Empty, Unclaimed}]
  /\ target \in Nat /\ form \in Numbers \cup {0}
  /\ asked \subseteq [uuid : Uuids, id : Int]

StoreValuesOK == loaded \in BOOLEAN /\ job \subseteq Uuids /\ edits \in 0 .. MaxEdits

Inv == StoreInv /\ StoreValuesOK /\ LifeOK /\ UsesOK /\ FingersOK /\ NumbersPart

LEMMA RowTypes ==
  ASSUME TableOK, NEW r \in DOMAIN table
  PROVE  r \in Nat /\ table[r].uuid \in Uuids /\ table[r].finger \in Int
<1>1. table[r] \in Entry
  BY DEF TableOK
<1> QED
  BY <1>1, EntryFields DEF TableOK

\* getNextAvailableFingerId gives a number above those of all rows.
LEMMA NextNumber ==
  ASSUME TableOK
  PROVE  /\ getNextAvailableFingerId \in Nat \ {0}
         /\ \A r \in DOMAIN table : table[r].finger < getNextAvailableFingerId
<1>1. CASE \A i \in DOMAIN table : table[i].finger <= 0
  <2>1. getNextAvailableFingerId = 1
    BY <1>1 DEF getNextAvailableFingerId
  <2> QED
    BY <1>1, <2>1, RowTypes
<1>2. CASE ~(\A i \in DOMAIN table : table[i].finger <= 0)
  <2> DEFINE last == CHOOSE n \in Used : \A k \in Used : k <= n
  <2>1. getNextAvailableFingerId = 1 + last
    BY <1>2 DEF getNextAvailableFingerId
  <2>2. Used \in SUBSET Nat /\ Used # {}
    <3>1. PICK i \in DOMAIN table : ~(table[i].finger <= 0)
      BY <1>2
    <3>2. table[i].finger \in Nat \ {0}
      BY <3>1, RowTypes
    <3>3. table[i].finger \in Used
      BY <3>2 DEF Used
    <3> QED
      BY <3>3 DEF Used
  <2>3. IsFiniteSet(Used)
    <3> DEFINE number == [r \in DOMAIN table |-> table[r].finger]
    <3> DEFINE all == {table[r].finger : r \in DOMAIN table}
    <3>1. number \in Surjection(DOMAIN table, all)
      BY DEF Surjection
    <3>2. IsFiniteSet(all)
      <4> HIDE DEF number, all
      <4> QED
        BY <3>1, FS_Surjection DEF TableOK
    <3>3. Used \in SUBSET all
      BY DEF Used
    <3> QED
      BY <3>2, <3>3, FS_Subset
  <2>4. \E n \in Used : \A k \in Used : k <= n
    BY <2>2, <2>3, LargestExists
  <2>5. last \in Used /\ \A k \in Used : k <= last
    BY <2>4
  <2> HIDE DEF last
  <2>6. last \in Nat
    BY <2>2, <2>5
  <2>7. ASSUME NEW r \in DOMAIN table PROVE table[r].finger < 1 + last
    <3>1. table[r].finger \in Int
      BY RowTypes
    <3>2. CASE table[r].finger <= 0
      BY <2>6, <3>1, <3>2
    <3>3. CASE ~(table[r].finger <= 0)
      <4>1. table[r].finger \in Used
        BY <3>1, <3>3 DEF Used
      <4> QED
        BY <2>5, <2>6, <3>1, <4>1
    <3> QED
      BY <3>2, <3>3
  <2> QED
    BY <2>1, <2>6, <2>7
<1> QED
  BY <1>1, <1>2

\* findUuidByEmployeeId gives a person, and getFingerId his number.
LEMMA PersonFound ==
  ASSUME StoreInv, NEW c, NEW u \in UuidOf(c)
  PROVE  u \in Uuids /\ getFingerId(u) \in Int
<1> USE DEF StoreInv
<1>1. \A i \in DOMAIN cache : i \in Nat /\ cache[i].uuid \in Uuids /\ cache[i].finger \in Int
  BY CacheEntries, EntryFields DEF CacheOK
<1>2. ASSUME NEW S \in SUBSET DOMAIN cache, S # {} PROVE First(S) \in S
  BY <1>1, <1>2, FirstIsMember
<1>3. ASSUME NEW S \in SUBSET DOMAIN table, S # {} PROVE First(S) \in S
  BY <1>3, RowTypes, FirstIsMember
<1>4. u \in Uuids /\ (WithUuid(cache, u) = {} => WithUuid(table, u) # {})
  <2>1. CASE WithCard(cache, c) # {}
    <3>1. First(WithCard(cache, c)) \in DOMAIN cache
      BY <1>2, <2>1 DEF WithCard
    <3>2. u = cache[First(WithCard(cache, c))].uuid
      BY <2>1 DEF UuidOf
    <3> QED
      BY <1>1, <3>1, <3>2 DEF WithUuid
  <2>2. CASE WithCard(cache, c) = {}
    <3>1. WithCard(table, c) # {} /\ u = table[First(WithCard(table, c))].uuid
      BY <2>2 DEF UuidOf
    <3>2. First(WithCard(table, c)) \in DOMAIN table
      BY <1>3, <3>1 DEF WithCard
    <3> QED
      BY <3>1, <3>2, RowTypes DEF WithUuid
  <2> QED
    BY <2>1, <2>2
<1>5. CASE WithUuid(cache, u) # {}
  <2>1. First(WithUuid(cache, u)) \in DOMAIN cache
    BY <1>2, <1>5 DEF WithUuid
  <2> QED
    BY <1>1, <1>4, <1>5, <2>1 DEF getFingerId
<1>6. CASE WithUuid(cache, u) = {}
  <2>1. First(WithUuid(table, u)) \in DOMAIN table
    BY <1>3, <1>4, <1>6 DEF WithUuid
  <2> QED
    BY <1>4, <1>6, <2>1, RowTypes DEF getFingerId
<1> QED
  BY <1>5, <1>6

-----------------------------------------------------------------------------
(* The store, the numbers and the owners from step to step *)

LEMMA FingerStart == Init => FingersOK /\ NumbersPart
<1> SUFFICES ASSUME Init PROVE FingersOK /\ NumbersPart
  OBVIOUS
<1>1. /\ slots = [s \in Numbers |-> Empty] /\ target = 0 /\ form = 0 /\ asked = {} /\ ui = "idle"
      /\ table = << >>
  BY Zenon DEF Init, Nobody, StoreInit, NoRows
<1>2. DOMAIN table = {}
  BY <1>1
<1> QED
  BY <1>1, <1>2 DEF FingersOK, NumbersPart

\* A deletion that is confirmed, or one of all fingers, takes numbers away.
\* The reader's own steps leave the store alone.
LEMMA ReaderApart ==
  [Next]_vars =>
    Store \/ RegFinger \/ DeleteFinger \/ DeleteAllFingers \/ Restart \/ UNCHANGED storeVars
<1>1. CASE \/ LineCloses \/ OpenSensor \/ SensorOpened \/ Monitor \/ Nested \/ HealthTick
           \/ CheckRecovers \/ CheckUnknown \/ CheckMatched \/ EndCheck \/ Resume
  BY <1>1, Zenon DEF LineCloses, OpenSensor, SensorOpened, Monitor, Nested, HealthTick, CheckRecovers,
     CheckUnknown, CheckMatched, EndCheck, Resume
<1>2. CASE \/ CaptureFinger \/ CaptureRefused \/ EndEnrollment \/ CompareFinger \/ EndComparison
           \/ AskDelete \/ UNCHANGED vars
  BY <1>2, Zenon DEF CaptureFinger, CaptureRefused, EndEnrollment, CompareFinger, EndComparison,
     AskDelete, vars
<1> QED
  BY <1>1, <1>2, Zenon DEF Next

LEMMA StoreKept == Inv /\ [Next]_vars => StoreInv' /\ StoreValuesOK'
<1> SUFFICES ASSUME Inv, [Next]_vars PROVE StoreInv' /\ StoreValuesOK'
  OBVIOUS
<1> USE DEF Inv
<1>1. ASSUME UNCHANGED << loaded, job, edits >> PROVE StoreValuesOK'
  BY <1>1 DEF StoreValuesOK
<1>2. ASSUME UNCHANGED storeVars PROVE StoreInv' /\ StoreValuesOK'
  <2>1. UNCHANGED << table, cache, strays, loaded, job, edits >>
    BY <1>2 DEF storeVars
  <2> QED
    BY <2>1, <1>1 DEF StoreInv, TableOK, CacheOK, Once, EntryHasRow, RowHasEntry
<1>3. ASSUME NEW u \in Uuids, NEW id \in Int, UpdatePersonFingerId(u, id),
             UNCHANGED << loaded, job, edits, strays >>
      PROVE  StoreInv' /\ StoreValuesOK'
  <2>1. AlikeChange(u)
    BY <1>3, FingerIdChange
  <2>2. strays \subseteq strays' /\ strays' \subseteq Uuids /\ loaded' = loaded
    BY <1>3 DEF StoreInv
  <2> QED
    BY <2>1, <2>2, <1>1, <1>3, ChangeKeeps
<1>4. ASSUME UNCHANGED << table, cache, loaded, job, edits, strays >> PROVE UNCHANGED storeVars
  BY <1>4 DEF storeVars
<1>5. CASE Store
  <2>1. StoreInv'
    BY <1>5, StoreStep DEF Store, StoreValuesOK
  <2>2. StoreValuesOK'
    BY <1>5, StoreStepTypes DEF Store, StoreValuesOK
  <2> QED
    BY <2>1, <2>2
<1>6. CASE RegFinger
  <2>1. PICK c \in Cards : \E u \in UuidOf(c) : UpdatePersonFingerId(u, form)
    BY <1>6 DEF RegFinger
  <2>2. PICK u \in UuidOf(c) : UpdatePersonFingerId(u, form)
    BY <2>1
  <2>3. u \in Uuids
    BY PersonFound
  <2>4. form \in Int
    BY ReaderAssumption DEF FingersOK, Numbers
  <2> QED
    BY <1>3, <1>6, <2>2, <2>3, <2>4 DEF RegFinger
<1>7. CASE DeleteFinger
  <2>1. UNCHANGED << loaded, job, edits, strays >>
    BY <1>7 DEF DeleteFinger
  <2>2. UNCHANGED << table, cache >> \/ \E a \in asked : UpdatePersonFingerId(a.uuid, ZeroFinger)
    BY <1>7 DEF DeleteFinger
  <2>3. CASE UNCHANGED << table, cache >>
    BY <2>1, <2>3, <1>2, <1>4
  <2>4. ASSUME NEW a \in asked, UpdatePersonFingerId(a.uuid, ZeroFinger)
        PROVE  StoreInv' /\ StoreValuesOK'
    <3>1. a.uuid \in Uuids
      BY DEF FingersOK
    <3> QED
      BY <1>3, <2>1, <2>4, <3>1 DEF ZeroFinger
  <2> QED
    BY <2>2, <2>3, <2>4
<1>8. CASE DeleteAllFingers
  <2>1. UNCHANGED << loaded, job, edits, strays >>
    BY <1>8 DEF DeleteAllFingers
  <2>2. UNCHANGED << table, cache >> \/ ClearAllFingerIds
    BY <1>8 DEF DeleteAllFingers
  <2>3. CASE UNCHANGED << table, cache >>
    BY <2>1, <2>3, <1>2, <1>4
  <2>4. CASE ClearAllFingerIds
    BY <2>1, <2>4, <1>1, ClearKeeps
  <2> QED
    BY <2>2, <2>3, <2>4
<1>9. CASE Restart
  <2>1. PICK rows \in {table, NoRows} : StoreRestart(rows)
    BY <1>9 DEF Restart
  <2>2. StoreInv'
    BY <2>1, RestartKeeps
  <2>3. StoreValuesOK'
    BY <2>1, StoreStepTypes DEF StoreValuesOK
  <2> QED
    BY <2>2, <2>3
<1> QED
  BY <1>2, <1>5, <1>6, <1>7, <1>8, <1>9, ReaderApart

LEMMA FingerStep == Inv /\ [Next]_vars => FingersOK'
<1> SUFFICES ASSUME Inv, [Next]_vars PROVE FingersOK'
  OBVIOUS
<1> USE DEF Inv
<1>0. Capacity \in Nat
  BY ReaderAssumption
<1>1. ASSUME UNCHANGED fingerVars PROVE FingersOK'
  BY <1>1 DEF fingerVars, FingersOK
<1>2. CASE Store \/ UNCHANGED vars
  BY <1>1, <1>2 DEF Store, vars
<1>3. CASE \/ LineCloses \/ OpenSensor \/ SensorOpened \/ Monitor \/ Nested \/ HealthTick
            \/ CheckRecovers \/ CheckUnknown \/ CheckMatched \/ EndCheck \/ Resume
            \/ CaptureRefused \/ CompareFinger \/ EndComparison
  <2>1. UNCHANGED fingerVars
    BY <1>3, Zenon DEF LineCloses, OpenSensor, SensorOpened, Monitor, Nested, HealthTick, CheckRecovers,
       CheckUnknown, CheckMatched, EndCheck, Resume, CaptureRefused, CompareFinger, EndComparison
  <2> QED
    BY <2>1, <1>1
<1>4. CASE CaptureFinger
  <2>1. target' = getNextAvailableFingerId /\ form' = 0 /\ UNCHANGED << slots, asked >>
    BY <1>4, Zenon DEF CaptureFinger
  <2> QED
    BY <2>1, NextNumber DEF FingersOK, StoreInv
<1>5. CASE EndEnrollment
  <2>1. /\ target' = 0 /\ asked' = asked
        /\ \/ target \in Numbers /\ slots' = Stored /\ form' \in {form, target}
           \/ UNCHANGED << slots, form >>
    BY <1>5 DEF EndEnrollment, StoreSucceeds
  <2> QED
    BY <2>1 DEF FingersOK, Stored
<1>6. CASE RegFinger
  <2>1. PICK c \in Cards : \E u \in UuidOf(c) :
          slots' = [slots EXCEPT ![form] = IF @ = Empty THEN Empty ELSE u] /\ form' \in {form, 0}
    BY <1>6 DEF RegFinger
  <2>2. PICK u \in UuidOf(c) :
          slots' = [slots EXCEPT ![form] = IF @ = Empty THEN Empty ELSE u] /\ form' \in {form, 0}
    BY <2>1
  <2>3. u \in Uuids
    BY PersonFound
  <2>4. UNCHANGED << target, asked >>
    BY <1>6 DEF RegFinger
  <2> QED
    BY <2>2, <2>3, <2>4 DEF FingersOK
<1>7. CASE AskDelete
  <2>1. PICK c \in Cards : \E u \in UuidOf(c) : asked' = {[uuid |-> u, id |-> getFingerId(u)]}
    BY <1>7 DEF AskDelete
  <2>2. PICK u \in UuidOf(c) : asked' = {[uuid |-> u, id |-> getFingerId(u)]}
    BY <2>1
  <2>3. u \in Uuids /\ getFingerId(u) \in Int
    BY PersonFound
  <2>4. UNCHANGED << slots, target, form >>
    BY <1>7 DEF AskDelete
  <2> QED
    BY <2>2, <2>3, <2>4 DEF FingersOK
<1>8. CASE DeleteFinger
  <2>1. /\ asked' = {} /\ UNCHANGED << target, form >>
        /\ \/ \E a \in asked : slots' = [slots EXCEPT ![a.id] = Empty]
           \/ slots' = slots
    BY <1>8 DEF DeleteFinger, Nobody
  <2> QED
    BY <2>1 DEF FingersOK
<1>9. CASE DeleteAllFingers
  <2>1. /\ UNCHANGED << target, form, asked >>
        /\ slots' = [s \in Numbers |-> Empty] \/ slots' = slots
    BY <1>9 DEF DeleteAllFingers
  <2> QED
    BY <2>1 DEF FingersOK
<1>10. CASE Restart
  <2>1. target' = 0 /\ form' = 0 /\ asked' = {} /\ slots' = slots
    BY <1>10, Zenon DEF Restart, Nobody
  <2> QED
    BY <2>1 DEF FingersOK
<1> QED
  BY <1>2, <1>3, <1>4, <1>5, <1>6, <1>7, <1>8, <1>9, <1>10, Zenon DEF Next

\* Rows get the number of the form only, and that one is above all of them; a
\* template is stored only under a number above all of them.
LEMMA NumbersStep == Inv /\ [Next]_vars => NumbersPart'
<1> SUFFICES ASSUME Inv, [Next]_vars PROVE NumbersPart'
  OBVIOUS
<1> USE DEF Inv
<1>0. /\ \A r \in DOMAIN table : table[r].finger \in Int
      /\ form \in Nat /\ target \in Nat /\ Numbers \subseteq Nat \ {0}
  BY RowTypes, ReaderAssumption DEF StoreInv, FingersOK, Numbers
<1>1. ASSUME UNCHANGED << table, slots, target, form >>, ui' = "enrol" => ui = "enrol"
      PROVE  NumbersPart'
  BY <1>1 DEF NumbersPart
<1>2. ASSUME \A r \in DOMAIN table' :
               \/ table'[r].finger <= 0 /\ table'[r].finger \in Int
               \/ \E q \in DOMAIN table :
                    table'[r].finger = table[q].finger /\ table'[r].uuid = table[q].uuid,
             ui' = "enrol" => ui = "enrol" /\ target > 0, form' = form, target' = target,
             \A s \in Numbers : slots'[s] \in {Empty, slots[s]}
      PROVE  NumbersPart'
  <2>1. ASSUME NEW r \in DOMAIN table', table'[r].finger \in Numbers
        PROVE  slots'[table'[r].finger] \in {Empty, table'[r].uuid}
    <3>1. PICK q \in DOMAIN table : table'[r].finger = table[q].finger /\ table'[r].uuid = table[q].uuid
      BY <1>0, <1>2, <2>1
    <3>2. slots[table[q].finger] \in {Empty, table[q].uuid}
      BY <2>1, <3>1 DEF NumbersPart
    <3> QED
      BY <1>2, <2>1, <3>1, <3>2
  <2>2. ASSUME form' # 0, NEW r \in DOMAIN table' PROVE table'[r].finger < form'
    BY <1>0, <1>2, <2>2 DEF NumbersPart
  <2>3. ASSUME ui' = "enrol" PROVE form' = 0 /\ \A r \in DOMAIN table' : table'[r].finger < target'
    BY <1>0, <1>2, <2>3 DEF NumbersPart
  <2> QED
    BY <2>1, <2>2, <2>3 DEF NumbersPart
<1>3. CASE Store
  <2>1. NoNewNumber
    BY <1>3, StoreNumbers DEF Store, StoreValuesOK
  <2>2. UNCHANGED << ui, slots, target, form >>
    BY <1>3 DEF Store, lifeVars, fingerVars
  <2>3. \A r \in DOMAIN table' :
          \/ table'[r].finger = -1
          \/ \E q \in DOMAIN table :
               table'[r].finger = table[q].finger /\ table'[r].uuid = table[q].uuid
    BY <2>1 DEF NoNewNumber, NoFinger
  <2> QED
    BY <1>0, <2>2, <2>3 DEF NumbersPart
<1>4. CASE RegFinger
  <2>1. PICK c \in Cards : \E u \in UuidOf(c) :
          /\ UpdatePersonFingerId(u, form)
          /\ slots' = [slots EXCEPT ![form] = IF @ = Empty THEN Empty ELSE u]
          /\ form' = IF WithUuid(table, u) = {} THEN form ELSE 0
    BY <1>4 DEF RegFinger
  <2>2. PICK u \in UuidOf(c) :
          /\ UpdatePersonFingerId(u, form)
          /\ slots' = [slots EXCEPT ![form] = IF @ = Empty THEN Empty ELSE u]
          /\ form' = IF WithUuid(table, u) = {} THEN form ELSE 0
    BY <2>1
  <2>3. form # 0 /\ ui' = ui /\ target' = target
    BY <1>4 DEF RegFinger, lifeVars
  <2>4. table' = [r \in DOMAIN table |->
                   IF table[r].uuid = u THEN [table[r] EXCEPT !.finger = form] ELSE table[r]]
    BY <2>2 DEF UpdatePersonFingerId, EveryRow
  <2>5. ASSUME NEW r \in DOMAIN table
        PROVE  /\ table'[r].uuid = table[r].uuid
               /\ table'[r].finger = IF table[r].uuid = u THEN form ELSE table[r].finger
    <3>1. table[r] \in Entry
      BY DEF StoreInv, TableOK
    <3> QED
      BY <2>4, <3>1 DEF Entry
  <2>6. slots \in [Numbers -> Uuids \cup {Empty, Unclaimed}] /\ form \in Numbers
    BY <2>3 DEF FingersOK
  <2>7. ASSUME NEW r \in DOMAIN table, table'[r].finger \in Numbers
        PROVE  slots'[table'[r].finger] \in {Empty, table'[r].uuid}
    <3>1. CASE table[r].uuid = u
      BY <2>2, <2>5, <2>6, <3>1
    <3>2. CASE table[r].uuid # u
      <4>1. table[r].finger # form
        BY <1>0, <2>3 DEF NumbersPart
      <4> QED
        BY <2>2, <2>5, <2>6, <2>7, <3>2, <4>1 DEF NumbersPart
    <3> QED
      BY <3>1, <3>2
  <2>8. ASSUME form' # 0, NEW r \in DOMAIN table PROVE table'[r].finger < form'
    <3>1. WithUuid(table, u) = {} /\ form' = form
      BY <2>2, <2>8
    <3>2. table[r].uuid # u
      BY <3>1 DEF WithUuid
    <3> QED
      BY <2>3, <2>5, <3>1, <3>2 DEF NumbersPart
  <2>9. ui' # "enrol"
    BY <2>3 DEF NumbersPart
  <2>10. DOMAIN table' = DOMAIN table
    BY <2>4
  <2> QED
    BY <2>7, <2>8, <2>9, <2>10 DEF NumbersPart
<1>5. CASE DeleteFinger
  <2>1. /\ ui' = "idle" /\ target' = target /\ form' = form
        /\ slots' = slots \/ \E a \in asked : slots' = [slots EXCEPT ![a.id] = Empty]
        /\ table' = table \/ \E a \in asked : UpdatePersonFingerId(a.uuid, ZeroFinger)
    BY <1>5 DEF DeleteFinger, Tick, Idle
  <2>2. ASSUME NEW s \in Numbers PROVE slots'[s] \in {Empty, slots[s]}
    BY <2>1 DEF FingersOK
  <2>3. ASSUME NEW r \in DOMAIN table'
        PROVE  \/ table'[r].finger <= 0 /\ table'[r].finger \in Int
               \/ \E q \in DOMAIN table :
                    table'[r].finger = table[q].finger /\ table'[r].uuid = table[q].uuid
    <3>1. CASE table' = table
      BY <3>1
    <3>2. CASE \E a \in asked : UpdatePersonFingerId(a.uuid, ZeroFinger)
      <4>1. PICK a \in asked : UpdatePersonFingerId(a.uuid, ZeroFinger)
        BY <3>2
      <4>2. table' = [q \in DOMAIN table |->
                       IF table[q].uuid = a.uuid THEN [table[q] EXCEPT !.finger = 0] ELSE table[q]]
        BY <4>1 DEF UpdatePersonFingerId, EveryRow, ZeroFinger
      <4>3. \A q \in DOMAIN table : table[q] \in Entry
        BY DEF StoreInv, TableOK
      <4> QED
        BY <4>2, <4>3 DEF Entry
    <3> QED
      BY <2>1, <3>1, <3>2
  <2> QED
    BY <1>2, <2>1, <2>2, <2>3
<1>6. CASE DeleteAllFingers
  <2>1. /\ ui' = "idle" /\ target' = target /\ form' = form
        /\ slots' = slots \/ slots' = [s \in Numbers |-> Empty]
        /\ table' = table \/ ClearAllFingerIds
    BY <1>6 DEF DeleteAllFingers, Press, Tick, Idle
  <2>2. ASSUME NEW s \in Numbers PROVE slots'[s] \in {Empty, slots[s]}
    BY <2>1
  <2>3. ASSUME NEW r \in DOMAIN table'
        PROVE  \/ table'[r].finger <= 0 /\ table'[r].finger \in Int
               \/ \E q \in DOMAIN table :
                    table'[r].finger = table[q].finger /\ table'[r].uuid = table[q].uuid
    <3>1. CASE table' = table
      BY <3>1
    <3>2. CASE ClearAllFingerIds
      <4>1. table' = [q \in DOMAIN table |-> [table[q] EXCEPT !.finger = 0]]
        BY <3>2 DEF ClearAllFingerIds, ZeroFinger
      <4>2. \A q \in DOMAIN table : table[q] \in Entry
        BY DEF StoreInv, TableOK
      <4> QED
        BY <4>1, <4>2 DEF Entry
    <3> QED
      BY <2>1, <3>1, <3>2
  <2> QED
    BY <1>2, <2>1, <2>2, <2>3
<1>7. CASE CaptureFinger
  <2>1. target' = getNextAvailableFingerId /\ form' = 0 /\ slots' = slots /\ table' = table
    BY <1>7, Zenon DEF CaptureFinger, storeVars
  <2> QED
    BY <2>1, NextNumber DEF NumbersPart, StoreInv
<1>8. CASE EndEnrollment
  <2>1. /\ table' = table /\ ui = "enrol" /\ ui' = "idle"
        /\ \/ slots' = Stored /\ form' \in {form, target}
           \/ UNCHANGED << slots, form >>
    BY <1>8 DEF EndEnrollment, storeVars
  <2>2. form = 0 /\ \A r \in DOMAIN table : table[r].finger < target
    BY <2>1 DEF NumbersPart
  <2>3. \A r \in DOMAIN table : table[r].finger \in Numbers => slots'[table[r].finger] = slots[table[r].finger]
    BY <1>0, <2>1, <2>2 DEF Stored, FingersOK
  <2> QED
    BY <2>1, <2>2, <2>3 DEF NumbersPart
<1>9. CASE Restart
  <2>1. slots' = slots /\ form' = 0 /\ ui' = "idle" /\ (table' = table \/ table' = NoRows)
    BY <1>9, Zenon DEF Restart, StoreRestart
  <2>2. CASE table' = table
    BY <2>1, <2>2 DEF NumbersPart
  <2>3. CASE table' = NoRows
    <3>1. DOMAIN table' = {}
      BY <2>3 DEF NoRows
    <3> QED
      BY <2>1, <3>1 DEF NumbersPart
  <2> QED
    BY <2>1, <2>2, <2>3
<1>10. CASE \/ LineCloses \/ OpenSensor \/ SensorOpened \/ Monitor \/ Nested \/ HealthTick
            \/ CheckRecovers \/ CheckUnknown \/ Resume \/ CaptureRefused \/ AskDelete \/ UNCHANGED vars
  <2>1. UNCHANGED << table, slots, target, form, ui >>
    BY <1>10, Zenon DEF LineCloses, OpenSensor, SensorOpened, Monitor, Nested, HealthTick, CheckRecovers,
       CheckUnknown, Resume, CaptureRefused, AskDelete, vars, storeVars, lifeVars, fingerVars
  <2> QED
    BY <2>1, <1>1
<1>11. CASE CheckMatched \/ EndCheck \/ CompareFinger \/ EndComparison
  <2>1. UNCHANGED << table, slots, target, form >>
    BY <1>11, Zenon DEF CheckMatched, EndCheck, CompareFinger, EndComparison, storeVars, fingerVars
  <2>2. ui' # "enrol"
    BY <1>11 DEF CheckMatched, EndCheck, CompareFinger, EndComparison
  <2> QED
    BY <2>1, <2>2, <1>1
<1> QED
  BY <1>3, <1>4, <1>5, <1>6, <1>7, <1>8, <1>9, <1>10, <1>11, Zenon DEF Next

LEMMA InvStart == Init => Inv
<1>1. Init => StoreInv /\ StoreTypeOK
  BY StoreStart DEF Init
<1>2. StoreTypeOK => StoreValuesOK
  BY Zenon DEF StoreTypeOK, StoreValuesOK
<1> QED
  BY <1>1, <1>2, LifeStart, FingerStart, Zenon DEF Inv

LEMMA InvStep == Inv /\ [Next]_vars => Inv'
  BY StoreKept, LifeStep, UsesStep, FingerStep, NumbersStep, Zenon DEF Inv

LEMMA InvTypes == Inv => TypeOK
<1> SUFFICES ASSUME Inv PROVE TypeOK
  OBVIOUS
<1>1. StoreTypeOK
  BY Zenon DEF Inv, StoreInv, TableOK, CacheOK, StoreValuesOK, StoreTypeOK
<1>2. resumes \in 0 .. MaxUses
  BY ReaderAssumption DEF Inv, UsesOK
<1> QED
  BY <1>1, <1>2, Zenon DEF Inv, LifeOK, UsesOK, FingersOK, TypeOK

\* An entry of no stray has a row with its number, and the template with the
\* number of a row is his.
LEMMA InvOwner == Inv => FingerNamesOwner
<1> SUFFICES ASSUME Inv, NEW i \in DOMAIN cache, cache[i].finger \in Numbers, cache[i].uuid \notin strays
             PROVE  slots[cache[i].finger] \in {Empty, cache[i].uuid}
  BY DEF FingerNamesOwner
<1>1. PICK r \in DOMAIN table : Alike(table[r], cache[i])
  BY DEF Inv, StoreInv, EntryHasRow
<1>2. cache[i].finger \in Nat \ {0} /\ table[r].finger \in Int
  BY RowTypes, ReaderAssumption DEF Numbers, Inv, StoreInv
<1>3. table[r].finger = cache[i].finger /\ table[r].uuid = cache[i].uuid
  BY <1>1, <1>2 DEF Alike
<1> QED
  BY <1>3 DEF Inv, NumbersPart

\* The table, memory, the templates and the numbers in the forms stay in their
\* ranges: whatever persons are registered and deleted meanwhile, a template is
\* stored in a place of the sensor and a number that is asked for is one.
THEOREM TypeCorrect == Spec => []TypeOK
  BY InvStart, InvStep, InvTypes, PTL DEF Spec

\* Once the table is loaded, memory says of everybody who is no stray what the
\* table says of him, through every registration, change, deletion, list of the
\* server, capture of a finger and restart.
THEOREM Agreement == Spec => []StoreAgrees
<1>1. Inv => StoreAgrees
  BY SaidAlike DEF Inv
<1> QED
  BY <1>1, InvStart, InvStep, PTL DEF Spec

\* A finger at the door names the person it was registered for: no entry in
\* memory of anybody who is no stray has the number of another's template, or of
\* one nobody has registered yet.
THEOREM NamesOwner == Spec => []FingerNamesOwner
  BY InvStart, InvStep, InvOwner, PTL DEF Spec

-----------------------------------------------------------------------------
(* The store implements Roster *)

LEMMA FingerBook ==
  ASSUME Inv, StoreInv', UNCHANGED << loaded, strays >>,
         NEW u \in Uuids, NEW id \in Int, UpdatePersonFingerId(u, id)
  PROVE  Book!Write
<1>1. AlikeChange(u)
  BY FingerIdChange DEF Inv
<1> QED
  BY <1>1, ChangeConcerns, BookWrite

LEMMA BookStep == Inv /\ Inv' /\ [Next]_vars => [Book!Next]_(Book!vars)
<1> SUFFICES ASSUME Inv, StoreInv', [Next]_vars PROVE [Book!Next]_(Book!vars)
  BY DEF Inv
<1>0. StoreInv
  BY DEF Inv
<1>1. ASSUME UNCHANGED << table, cache, strays, loaded >> PROVE UNCHANGED Book!vars
  BY <1>0, <1>1, BookRests
<1>2. ASSUME UNCHANGED storeVars PROVE UNCHANGED Book!vars
  BY <1>1, <1>2 DEF storeVars
<1>3. CASE Store
  <2>1. StoreNext /\ job \subseteq Uuids
    BY <1>3 DEF Store, Inv, StoreValuesOK
  <2>2. CASE Load
    BY <2>2, BookLoad DEF Book!Next
  <2>3. CASE ~Load
    <3>1. loaded' = loaded
      BY <1>0, <2>1, <2>3, WriterConcerns
    <3>2. CASE UNCHANGED << table, cache, strays >>
      BY <1>1, <3>1, <3>2
    <3>3. CASE strays \subseteq strays' /\ \E u \in Uuids : Concerns(u)
      BY <3>1, <3>3, BookWrite DEF Book!Next
    <3> QED
      BY <1>0, <2>1, <2>3, <3>2, <3>3, WriterConcerns
  <2> QED
    BY <2>2, <2>3
<1>4. CASE RegFinger
  <2>1. PICK c \in Cards : \E u \in UuidOf(c) : UpdatePersonFingerId(u, form)
    BY <1>4 DEF RegFinger
  <2>2. PICK u \in UuidOf(c) : UpdatePersonFingerId(u, form)
    BY <2>1
  <2>3. u \in Uuids
    BY PersonFound DEF Inv
  <2>4. form \in Int
    BY ReaderAssumption DEF Inv, FingersOK, Numbers
  <2> QED
    BY <1>4, <2>2, <2>3, <2>4, FingerBook DEF RegFinger, Book!Next
<1>5. CASE DeleteFinger
  <2>1. UNCHANGED << loaded, strays >>
    BY <1>5 DEF DeleteFinger
  <2>2. UNCHANGED << table, cache >> \/ \E a \in asked : UpdatePersonFingerId(a.uuid, ZeroFinger)
    BY <1>5 DEF DeleteFinger
  <2>3. CASE UNCHANGED << table, cache >>
    BY <1>1, <2>1, <2>3
  <2>4. ASSUME NEW a \in asked, UpdatePersonFingerId(a.uuid, ZeroFinger) PROVE Book!Next
    <3>1. a.uuid \in Uuids /\ ZeroFinger \in Int
      BY DEF Inv, FingersOK, ZeroFinger
    <3> QED
      BY <2>1, <2>4, <3>1, FingerBook DEF Book!Next
  <2> QED
    BY <2>2, <2>3, <2>4
<1>6. CASE DeleteAllFingers
  <2>1. UNCHANGED << loaded, strays >> /\ (ClearAllFingerIds \/ UNCHANGED << table, cache >>)
    BY <1>6 DEF DeleteAllFingers
  <2> QED
    BY <1>0, <2>1, BookRests
<1>7. CASE Restart
  BY <1>7, BookRestart DEF Restart, Book!Next
<1> QED
  BY <1>2, <1>3, <1>4, <1>5, <1>6, <1>7, ReaderApart

\* Each step of the store, of the panel and of the reader is one of Roster or none:
\* it changes who one person is, in the table and in memory together, or it loads
\* the table, or it starts anew.
THEOREM Implements == Spec => ActsAsRoster
<1>1. Init => Book!Init
  BY BookStart DEF Init
<1> QED
  BY <1>1, InvStart, InvStep, BookStep, PTL DEF Spec, ActsAsRoster, Book!Spec
=============================================================================
