--------------------------- MODULE FaceTrackProof ---------------------------
(***************************************************************************)
(* FaceTrack, proved for any persons, any tracking numbers and any length  *)
(* of the table: type correctness, that the table has one record for a     *)
(* number, and that the record signalled is that of one face of the same   *)
(* picture, and of the person himself when he is alone in it.              *)
(***************************************************************************)
EXTENDS FaceTrack, FiniteSetTheorems, SequenceTheorems, WellFoundedInduction, TLAPS

\* The record of the largest face so far is that of some accepted face, though
\* not always of the largest; before the library is ready no picture is looked at.
LoopPart ==
  /\ ~ready => at = "wait"
  /\ at # "wait" /\ best.index # 0 =>
       /\ best.index \in DOMAIN picture
       /\ at = "track" => OfThePicture(table[slot].track, table[slot].rect)
  /\ at \in {"range", "extract", "send"} => best.index # 0

\* What was measured and extracted comes from the picture that is signalled.
RecordPart ==
  /\ at \in {"range", "extract", "send"} => match.looks \in {None, picture[best.index].who}
  /\ fresh => at = "send" /\ \E k \in DOMAIN picture : match.feature = picture[k].who

Inv == TypeOK /\ OneRecordPerTrack /\ RecordOfOneFace /\ LoopPart /\ RecordPart

-----------------------------------------------------------------------------
(* The table *)

\* A set of slots has a first one: of the intervals that end at its members,
\* one is smallest.
LEMMA FirstIsMember == ASSUME NEW S \in SUBSET Slots, S # {} PROVE First(S) \in S
<1> USE TrackAssumption DEF Slots
<1> DEFINE Below == {1 .. x : x \in S}
<1>1. Below \subseteq FiniteSubsetsOf(Nat)
  <2>1. ASSUME NEW x \in S PROVE 1 .. x \subseteq Nat /\ IsFiniteSet(1 .. x)
    BY FS_Interval
  <2> QED
    BY <2>1 DEF FiniteSubsetsOf
<1>2. \E A \in Below : \A B \in Below : <<B, A>> \notin StrictSubsetOrdering(Nat)
  <2>1. Below # {}
    OBVIOUS
  <2> HIDE DEF Below
  <2> QED
    BY <1>1, <2>1, FS_StrictSubsetOrderingWellFounded, WFMin
<1>3. PICK m \in S : \A x \in S : <<1 .. x, 1 .. m>> \notin StrictSubsetOrdering(Nat)
  BY <1>2
<1>4. ASSUME NEW x \in S, ~(m <= x) PROVE FALSE
  <2>1. 1 .. x \subseteq 1 .. m /\ 1 .. x # 1 .. m
    BY <1>4
  <2>2. 1 .. x \subseteq Nat /\ 1 .. m \subseteq Nat /\ IsFiniteSet(1 .. x) /\ IsFiniteSet(1 .. m)
    BY FS_Interval
  <2> QED
    BY <1>3, <2>1, <2>2 DEF StrictSubsetOrdering, FiniteSubsetsOf
<1>5. \E s \in S : \A r \in S : s <= r
  BY <1>4
<1> QED
  BY <1>5 DEF First

\* getCoreFace returns a record of the table; if the number is in it, its own.
LEMMA RecordGiven ==
  ASSUME NEW n
  PROVE  /\ getCoreFace(n) \in Slots
         /\ HasTrack(n) # {} => table[getCoreFace(n)].track = n + 1
<1>1. HasTrack(n) \in SUBSET Slots /\ NotExisting \in SUBSET Slots
  BY DEF HasTrack, NotExisting
<1>2. CASE HasTrack(n) # {}
  <2>1. First(HasTrack(n)) \in HasTrack(n)
    BY <1>1, <1>2, FirstIsMember
  <2> QED
    BY <2>1, <1>2 DEF getCoreFace, HasTrack
<1>3. CASE HasTrack(n) = {}
  <2>1. First(NotExisting) \in Slots
    <3>1. CASE NotExisting = {}
      BY <3>1, TrackAssumption DEF First, Slots
    <3>2. CASE NotExisting # {}
      BY <3>2, <1>1, FirstIsMember
    <3> QED
      BY <3>1, <3>2
  <2> QED
    BY <2>1, <1>3 DEF getCoreFace
<1> QED
  BY <1>2, <1>3

-----------------------------------------------------------------------------
(* The persons in front of the camera *)

LEMMA ElementType ==
  ASSUME NEW S, NEW s \in Seq(S), NEW k \in DOMAIN s
  PROVE  s[k] \in S
  BY ElementOfSeq

LEMMA RemoveAtType ==
  ASSUME NEW S, NEW s \in Seq(S), NEW k \in DOMAIN s
  PROVE  RemoveAt(s, k) \in Seq(S)
<1>1. k \in 1 .. Len(s) /\ Len(s) \in Nat
  OBVIOUS
<1>2. SubSeq(s, 1, k - 1) \in Seq(S)
  BY <1>1, SubSeqProperties
<1>3. SubSeq(s, k + 1, Len(s)) \in Seq(S)
  BY <1>1, SubSeqProperties
<1> QED
  BY <1>2, <1>3, ConcatProperties DEF RemoveAt

-----------------------------------------------------------------------------
(* Types *)

LEMMA TypeStart == Init => TypeOK
<1> USE TrackAssumption DEF Init, TypeOK, Slots
<1> SUFFICES ASSUME Init PROVE TypeOK
  OBVIOUS
<1>1. front \in Seq([who : Persons, id : Ids]) /\ picture \in Seq(Face)
  OBVIOUS
<1>2. table \in [Slots -> [track : Nat, rect : Persons \cup {None}]]
  BY DEF Empty, Blank
<1>3. match \in Record /\ best \in [index : 0 .. MAX_FACES, area : 0 .. MaxArea]
  BY DEF Record, NoBest
<1>4. exist \in [Slots -> Ids \cup {0}]
  OBVIOUS
<1>5. i \in Slots /\ slot \in Slots
  OBVIOUS
<1> QED
  BY <1>1, <1>2, <1>3, <1>4, <1>5

\* Leaving a picture resets the local variables to values of their types.
LEMMA LeaveTypes ==
  ASSUME LeavePicture
  PROVE  /\ at' = "wait" /\ picture' \in Seq(Face) /\ i' \in Slots /\ slot' \in Slots
         /\ best' \in [index : 0 .. MAX_FACES, area : 0 .. MaxArea] /\ fresh' = FALSE
  BY TrackAssumption DEF LeavePicture, NoBest, Slots

LEMMA TypeStep == Inv /\ [Next]_vars => TypeOK'
<1> SUFFICES ASSUME Inv, [Next]_vars PROVE TypeOK'
  OBVIOUS
<1> USE TrackAssumption DEF Inv, TypeOK
<1>0. \A k \in DOMAIN picture :
        picture[k].who \in Persons /\ picture[k].id \in Ids /\ picture[k].area \in 0 .. MaxArea
  <2>1. \A k \in DOMAIN picture : picture[k] \in Face
    BY ElementOfSeq
  <2> QED
    BY <2>1 DEF Face
<1>1. ASSUME NEW p \in Persons, Enter(p) PROVE TypeOK'
  <2>1. PICK n \in Ids : front' = Append(front, [who |-> p, id |-> n]) /\ given' = given \cup {n}
    BY <1>1 DEF Enter
  <2>2. front' \in Seq([who : Persons, id : Ids])
    BY <2>1
  <2> QED
    BY <1>1, <2>1, <2>2 DEF Enter, frameVars
<1>2. ASSUME NEW k \in DOMAIN front, Leave(k) PROVE TypeOK'
  <2>1. front' \in Seq([who : Persons, id : Ids])
    BY <1>2, RemoveAtType DEF Leave
  <2> QED
    BY <1>2, <2>1 DEF Leave, frameVars
<1>3. CASE InitFaceEngine
  BY <1>3 DEF InitFaceEngine, sceneVars, frameVars, Empty, Blank
<1>4. ASSUME NEW state \in BOOLEAN, setRegFaceState(state) PROVE TypeOK'
  BY <1>4 DEF setRegFaceState, sceneVars, frameVars
<1>5. CASE TakePicture
  <2>1. PICK areas \in [DOMAIN front -> 0 .. MaxArea] :
          picture' = [k \in DOMAIN front |->
                        [who |-> front[k].who, id |-> front[k].id, area |-> areas[k]]]
    BY <1>5 DEF TakePicture
  <2>2. picture' \in Seq(Face)
    <3>1. DOMAIN front = 1 .. Len(front) /\ Len(front) \in Nat
      OBVIOUS
    <3> DEFINE Person == [who : Persons, id : Ids]
    <3>3. \A k \in DOMAIN front : front[k] \in Person
      <4>1. front \in Seq(Person)
        OBVIOUS
      <4> HIDE DEF Person
      <4> QED
        BY <4>1, ElementType
    <3>2. \A k \in DOMAIN front : [who |-> front[k].who, id |-> front[k].id, area |-> areas[k]] \in Face
      BY <3>3 DEF Face
    <3> QED
      BY <2>1, <3>1, <3>2
  <2>3. best' \in [index : 0 .. MAX_FACES, area : 0 .. MaxArea] /\ i' \in Slots
    BY <1>5 DEF TakePicture, NoBest, Slots
  <2> QED
    BY <1>5, <2>2, <2>3 DEF TakePicture, sceneVars
<1>6. CASE TrackFace
  <2> DEFINE s == getCoreFace(picture[i].id)
  <2>1. i \in DOMAIN picture /\ i + 1 \in Slots
    BY <1>6 DEF TrackFace, MoreFaces, Slots
  <2>2. s \in Slots
    BY RecordGiven
  <2>3. picture[i].id \in Ids /\ picture[i].id \in Nat /\ picture[i].who \in Persons
        /\ picture[i].area \in 0 .. MaxArea
    BY <1>0, <2>1
  <2>4. table' \in [Slots -> [track : Nat, rect : Persons \cup {None}]]
    <3>1. table' = [table EXCEPT ![s] =
                      [track |-> IF HasTrack(picture[i].id) # {} THEN table[s].track
                                 ELSE picture[i].id + 1,
                       rect |-> picture[i].who]]
      BY <1>6 DEF TrackFace
    <3> HIDE DEF s
    <3>2. [track |-> IF HasTrack(picture[i].id) # {} THEN table[s].track ELSE picture[i].id + 1,
           rect |-> picture[i].who] \in [track : Nat, rect : Persons \cup {None}]
      BY <2>2, <2>3
    <3> QED
      BY <3>1, <3>2
  <2>5. exist' \in [Slots -> Ids \cup {0}]
    BY <1>6, <2>3 DEF TrackFace
  <2>6. best' \in [index : 0 .. MAX_FACES, area : 0 .. MaxArea] /\ slot' \in Slots
    <3> HIDE DEF s
    <3>1. CASE picture[i].area > best.area
      <4>1. best' = [index |-> i, area |-> picture[i].area] /\ slot' = s
        BY <1>6, <3>1 DEF TrackFace, s
      <4> QED
        BY <4>1, <2>2, <2>3 DEF Slots
    <3>2. CASE ~(picture[i].area > best.area)
      BY <1>6, <3>2 DEF TrackFace
    <3> QED
      BY <3>1, <3>2
  <2> QED
    BY <1>6, <2>1, <2>4, <2>5, <2>6 DEF TrackFace, sceneVars
<1>7. CASE IgnoreFace
  BY <1>7 DEF IgnoreFace, MoreFaces, sceneVars, Slots
<1>8. CASE NobodyThere
  BY <1>8, LeaveTypes DEF NobodyThere, sceneVars
<1>9. CASE SelectLargest
  <2>1. match' \in Record
    BY <1>9 DEF SelectLargest, Record
  <2> QED
    BY <1>9, <2>1 DEF SelectLargest, sceneVars, frameVars
<1>10. CASE OutOfRange
  BY <1>10, LeaveTypes DEF OutOfRange, sceneVars
<1>11. CASE StopForRegistration
  BY <1>11, LeaveTypes DEF StopForRegistration, sceneVars
<1>12. CASE InspectFace
  <2>1. picture[best.index].who \in Persons
    BY <1>0, <1>12 DEF InspectFace, LoopPart
  <2>2. match' \in Record
    BY <1>12, <2>1 DEF InspectFace, Record
  <2> QED
    BY <1>12, <2>2 DEF InspectFace, sceneVars, frameVars
<1>13. CASE FaceFeatureExtract
  <2>2. match' \in Record /\ fresh' \in BOOLEAN
    BY <1>0, <1>13 DEF FaceFeatureExtract, Record
  <2> QED
    BY <1>13, <2>2 DEF FaceFeatureExtract, sceneVars, frameVars
<1>14. CASE SendFace
  BY <1>14, LeaveTypes DEF SendFace, sceneVars
<1>15. CASE UNCHANGED vars
  BY <1>15 DEF vars, sceneVars, frameVars
<1> QED
  BY <1>1, <1>2, <1>3, <1>4, <1>5, <1>6, <1>7, <1>8, <1>9, <1>10, <1>11, <1>12, <1>13, <1>14, <1>15
     DEF Next, InPicture

-----------------------------------------------------------------------------
(* The loop over the faces of a picture *)

\* What TrackFace does to the table: one record, which keeps its number if the
\* face has one and gets a number that is not in the table otherwise.
LEMMA FaceTracked ==
  ASSUME Inv, TrackFace
  PROVE  /\ i \in DOMAIN picture /\ picture[i].area > 0
         /\ picture[i].id \in Nat /\ picture[i].who \in Persons
         /\ getCoreFace(picture[i].id) \in Slots
         /\ table' = [table EXCEPT ![getCoreFace(picture[i].id)] =
                        [track |-> picture[i].id + 1, rect |-> picture[i].who]]
         /\ \A s \in Slots : table[s].track = picture[i].id + 1 =>
              s = getCoreFace(picture[i].id)
<1> DEFINE n == picture[i].id
           s == getCoreFace(n)
<1>1. i \in DOMAIN picture /\ picture[i].area > 0
  BY TrackAssumption DEF TrackFace, MoreFaces, Inv, TypeOK, Slots
<1>2. picture[i] \in Face
  BY <1>1, ElementType DEF Inv, TypeOK
<1>3. n \in Nat /\ picture[i].who \in Persons
  BY <1>2, TrackAssumption DEF Face
<1>4. s \in Slots /\ (HasTrack(n) # {} => table[s].track = n + 1)
  BY RecordGiven
<1>5. table' = [table EXCEPT ![s] =
                 [track |-> IF HasTrack(n) # {} THEN table[s].track ELSE n + 1,
                  rect |-> picture[i].who]]
  BY DEF TrackFace
<1>6. (IF HasTrack(n) # {} THEN table[s].track ELSE n + 1) = n + 1
  BY <1>4
<1>7. ASSUME NEW r \in Slots, table[r].track = n + 1 PROVE r = s
  <2>1. r \in HasTrack(n)
    BY <1>7 DEF HasTrack
  <2>2. table[s].track = table[r].track /\ table[r].track # 0
    BY <2>1, <1>3, <1>4, <1>7
  <2> QED
    BY <2>2, <1>4 DEF Inv, OneRecordPerTrack
<1> QED
  BY <1>1, <1>3, <1>4, <1>5, <1>6, <1>7

\* Leaving a picture makes the invariants of the loop hold by emptying it.
LEMMA LeaveParts ==
  ASSUME LeavePicture, UNCHANGED ready, UNCHANGED match
  PROVE  RecordOfOneFace' /\ LoopPart' /\ RecordPart'
  BY DEF LeavePicture, RecordOfOneFace, LoopPart, RecordPart

\* Nothing of the loop is disturbed by who comes, goes or uses the menu.
LEMMA OutsidePicture ==
  ASSUME Inv, UNCHANGED << ready, table, match, at, frameVars, fresh >>
  PROVE  OneRecordPerTrack' /\ RecordOfOneFace' /\ LoopPart' /\ RecordPart'
  BY DEF Inv, frameVars, OneRecordPerTrack, RecordOfOneFace, LoopPart, RecordPart, OfThePicture

LEMMA PartsStart == Init => OneRecordPerTrack /\ RecordOfOneFace /\ LoopPart /\ RecordPart
  BY DEF Init, OneRecordPerTrack, RecordOfOneFace, LoopPart, RecordPart, Empty, Blank, NoBest

LEMMA PartsStep == Inv /\ [Next]_vars => OneRecordPerTrack' /\ RecordOfOneFace' /\ LoopPart' /\ RecordPart'
<1> DEFINE Parts == OneRecordPerTrack /\ RecordOfOneFace /\ LoopPart /\ RecordPart
<1> SUFFICES ASSUME Inv, [Next]_vars PROVE Parts'
  OBVIOUS
<1>1. ASSUME NEW p \in Persons, Enter(p) PROVE Parts'
  BY <1>1, OutsidePicture DEF Enter
<1>2. ASSUME NEW k \in DOMAIN front, Leave(k) PROVE Parts'
  BY <1>2, OutsidePicture DEF Leave
<1>3. CASE InitFaceEngine
  <2>1. at = "wait" /\ at' = "wait" /\ fresh' = FALSE
    BY <1>3 DEF InitFaceEngine, Inv, LoopPart, RecordPart
  <2>2. OneRecordPerTrack'
    BY <1>3 DEF InitFaceEngine, OneRecordPerTrack, Empty, Blank
  <2> QED
    BY <2>1, <2>2 DEF RecordOfOneFace, LoopPart, RecordPart
<1>4. ASSUME NEW state \in BOOLEAN, setRegFaceState(state) PROVE Parts'
  BY <1>4, OutsidePicture DEF setRegFaceState
<1>5. CASE TakePicture
  BY <1>5 DEF TakePicture, Inv, NoBest, OneRecordPerTrack, RecordOfOneFace, LoopPart, RecordPart
<1>6. CASE TrackFace
  <2> DEFINE c == getCoreFace(picture[i].id)
             kept == [track |-> picture[i].id + 1, rect |-> picture[i].who]
  <2>1. /\ i \in DOMAIN picture /\ picture[i].area > 0 /\ picture[i].id \in Nat
        /\ c \in Slots /\ table' = [table EXCEPT ![c] = kept]
        /\ \A s \in Slots : table[s].track = picture[i].id + 1 => s = c
    BY <1>6, FaceTracked
  <2>2. \A s \in Slots : table'[s] = IF s = c THEN kept ELSE table[s]
    BY <2>1 DEF Inv, TypeOK
  <2>3. at = "track" /\ at' = "track" /\ UNCHANGED << ready, picture, match, fresh >>
    BY <1>6 DEF TrackFace
  <2>4. OneRecordPerTrack'
    <3> SUFFICES ASSUME NEW s \in Slots, NEW r \in Slots,
                        table'[s].track # 0, table'[s].track = table'[r].track
                 PROVE  s = r
      BY DEF OneRecordPerTrack
    <3> QED
      BY <2>1, <2>2 DEF Inv, OneRecordPerTrack
  <2>5. LoopPart'
    <3>1. OfThePicture(kept.track, kept.rect)
      BY <2>1 DEF OfThePicture
    <3>2. CASE picture[i].area > best.area
      <4>1. best'.index = i /\ slot' = c
        BY <1>6, <3>2 DEF TrackFace
      <4>2. OfThePicture(table'[slot'].track, table'[slot'].rect)
        BY <4>1, <3>1, <2>1, <2>2
      <4> QED
        BY <4>1, <4>2, <2>1, <2>3 DEF LoopPart, OfThePicture, Inv
    <3>3. CASE ~(picture[i].area > best.area)
      <4>1. best' = best /\ slot' = slot /\ slot \in Slots
        BY <1>6, <3>3 DEF TrackFace, Inv, TypeOK
      <4>2. best.index # 0 => OfThePicture(table'[slot].track, table'[slot].rect)
        BY <4>1, <3>1, <2>2, <2>3 DEF Inv, LoopPart
      <4> QED
        BY <4>1, <4>2, <2>3 DEF LoopPart, OfThePicture, Inv
    <3> QED
      BY <3>2, <3>3
  <2> QED
    BY <2>3, <2>4, <2>5 DEF RecordOfOneFace, RecordPart, Inv
<1>7. CASE IgnoreFace
  BY <1>7 DEF IgnoreFace, Inv, OneRecordPerTrack, RecordOfOneFace, LoopPart, RecordPart, OfThePicture
<1>8. CASE NobodyThere
  BY <1>8, LeaveParts DEF NobodyThere, Inv, OneRecordPerTrack
<1>9. CASE SelectLargest
  <2>1. OfThePicture(table[slot].track, table[slot].rect) /\ best.index \in DOMAIN picture
    BY <1>9 DEF SelectLargest, Inv, LoopPart
  <2>2. match'.track = table[slot].track /\ match'.rect = table[slot].rect /\ match'.looks = None
    BY <1>9 DEF SelectLargest, Inv, TypeOK, Record
  <2>3. UNCHANGED << ready, table, picture, best, slot, fresh >> /\ at = "track" /\ at' = "range"
    BY <1>9 DEF SelectLargest, frameVars
  <2>4. ~fresh
    BY <2>3 DEF Inv, RecordPart
  <2>5. ready /\ best.index # 0
    BY <2>3, <1>9 DEF SelectLargest, Inv, LoopPart
  <2> QED
    BY <2>1, <2>2, <2>3, <2>4, <2>5
       DEF Inv, OneRecordPerTrack, RecordOfOneFace, LoopPart, RecordPart, OfThePicture
<1>10. CASE OutOfRange
  BY <1>10, LeaveParts DEF OutOfRange, Inv, OneRecordPerTrack
<1>11. CASE StopForRegistration
  BY <1>11, LeaveParts DEF StopForRegistration, Inv, OneRecordPerTrack
<1>12. CASE InspectFace
  <2>1. UNCHANGED << ready, table, picture, best, slot, fresh >> /\ at = "range" /\ at' = "extract"
    BY <1>12 DEF InspectFace, frameVars
  <2>2. match'.track = match.track /\ match'.rect = match.rect
        /\ match'.looks \in {None, picture[best.index].who}
    BY <1>12 DEF InspectFace, Inv, TypeOK, Record
  <2>3. ~fresh
    BY <2>1 DEF Inv, RecordPart
  <2> QED
    BY <2>1, <2>2, <2>3 DEF Inv, OneRecordPerTrack, RecordOfOneFace, LoopPart, RecordPart, OfThePicture
<1>13. CASE FaceFeatureExtract
  <2>1. UNCHANGED << ready, table, picture, best, slot >> /\ at = "extract" /\ at' = "send"
    BY <1>13 DEF FaceFeatureExtract, frameVars
  <2>2. match'.track = match.track /\ match'.rect = match.rect /\ match'.looks = match.looks
    BY <1>13 DEF FaceFeatureExtract, Inv, TypeOK, Record
  <2>3. fresh' => \E k \in DOMAIN picture : match'.feature = picture[k].who
    <3>1. ~fresh
      BY <2>1 DEF Inv, RecordPart
    <3> QED
      BY <1>13, <3>1 DEF FaceFeatureExtract, Inv, TypeOK, Record
  <2> QED
    BY <2>1, <2>2, <2>3 DEF Inv, OneRecordPerTrack, RecordOfOneFace, LoopPart, RecordPart, OfThePicture
<1>14. CASE SendFace
  BY <1>14, LeaveParts DEF SendFace, Inv, OneRecordPerTrack
<1>15. CASE UNCHANGED vars
  BY <1>15, OutsidePicture DEF vars, frameVars
<1> QED
  BY <1>1, <1>2, <1>3, <1>4, <1>5, <1>6, <1>7, <1>8, <1>9, <1>10, <1>11, <1>12, <1>13, <1>14, <1>15
     DEF Next, InPicture

-----------------------------------------------------------------------------
(* The theorems *)

LEMMA Inductive == Spec => []Inv
<1>1. Init => Inv
  BY TypeStart, PartsStart DEF Inv
<1>2. Inv /\ [Next]_vars => Inv'
  <2> SUFFICES ASSUME Inv, [Next]_vars PROVE Inv'
    OBVIOUS
  <2>1. TypeOK'
    BY TypeStep
  <2>2. OneRecordPerTrack' /\ RecordOfOneFace' /\ LoopPart' /\ RecordPart'
    BY PartsStep
  <2> QED
    BY <2>1, <2>2 DEF Inv
<1> QED
  BY <1>1, <1>2, PTL DEF Spec

\* Every step of the camera's thread, of the panel and of the persons keeps
\* the types of BaiduFaceManager's table, record and local variables.
THEOREM TypeCorrect == Spec => []TypeOK
  BY Inductive, PTL DEF Inv

\* However getCoreFace gives records away, no tracking number is in two records.
THEOREM OneRecord == Spec => []OneRecordPerTrack
  BY Inductive, PTL DEF Inv

\* The number and the rectangle that mMatchCoreFace signals are those of one
\* accepted face of the picture at hand, for any number of faces and records.
THEOREM OneFace == Spec => []RecordOfOneFace
  BY Inductive, PTL DEF Inv

\* A person who is alone in the picture is signalled with his own number,
\* rectangle and looks, whatever the table and the record kept of the persons
\* before him, and with his own feature if it could be extracted.  If it could
\* not, the feature that the buffer kept is sent, and nothing is claimed of it.
THEOREM Himself == Spec => []LoneFaceIsHimself
<1>1. Inv => LoneFaceIsHimself
  <2> SUFFICES ASSUME Inv, at = "send", Len(picture) = 1
               PROVE  /\ match.track = picture[1].id + 1 /\ match.rect = picture[1].who
                      /\ match.looks \in {picture[1].who, None}
                      /\ fresh => match.feature = picture[1].who
    BY DEF LoneFaceIsHimself
  <2>1. DOMAIN picture = {1}
    <3>1. picture \in Seq(Face)
      BY DEF Inv, TypeOK
    <3> QED
      BY <3>1, LenProperties
  <2>2. best.index = 1
    BY <2>1 DEF Inv, LoopPart
  <2>3. match.track = picture[1].id + 1 /\ match.rect = picture[1].who
    BY <2>1 DEF Inv, RecordOfOneFace, OfThePicture
  <2> QED
    BY <2>1, <2>2, <2>3 DEF Inv, RecordPart
<1> QED
  BY <1>1, Inductive, PTL
=============================================================================
