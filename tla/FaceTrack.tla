------------------------------ MODULE FaceTrack ------------------------------
(***************************************************************************)
(* The faces in front of the camera, as BaiduFaceManager follows them.     *)
(*                                                                         *)
(* The camera's thread hands over one picture after the other.  A closed   *)
(* library finds the faces in it and gives each a tracking number; the     *)
(* manager keeps a table of face records by number, chooses the largest    *)
(* face, inspects it (mask, liveness), extracts its feature and signals    *)
(* the record mMatchCoreFace to the identification engine.  The record     *)
(* lives on from picture to picture.  The panel switches the registration  *)
(* state at any moment, without a lock.                                    *)
(***************************************************************************)
EXTENDS Naturals, FiniteSets, Sequences, SequencesExt

CONSTANTS
  Persons,
  Ids,        \* tracking numbers of the library
  MAX_FACES,  \* length of the table, 10 in the code
  InView,     \* a bound on the persons in front of the camera
  MaxArea,    \* a bound on the size of a face
  None

ASSUME TrackAssumption ==
  /\ Ids \subseteq Nat
  /\ MAX_FACES \in Nat \ {0} /\ MaxArea \in Nat
  /\ None \notin Persons

VARIABLES
  front,     \* who is in front of the camera, each with his tracking number
  given,     \* the tracking numbers the library has given
  ready,     \* mInitEngineSuccess: the library has been initialised
  reg,       \* mRegFaceState: the menu or a registration is open
  table,     \* m_stFace->stCoreFaces: number (0: empty) and rectangle
  exist,     \* m_nExistTrackID
  match,     \* mMatchCoreFace
  told,      \* the last signal the engine was sent
  at,        \* where the camera's thread is
  picture,   \* the faces of the picture, in the library's order
  i,         \* the face it looks at
  best,      \* nMatchCoreFaceIndex, with the size nMaxFaceSize
  slot,      \* pstUpdateFaceInfo[nMatchCoreFaceIndex]
  fresh      \* the feature of this picture was extracted

sceneVars == << front, given >>
frameVars == << picture, i, best, slot >>
vars == << sceneVars, ready, reg, table, exist, match, told, at, frameVars, fresh >>

Slots == 1 .. MAX_FACES
Blank == [track |-> 0, rect |-> None]
Empty == [s \in Slots |-> Blank]
Face == [who : Persons, id : Ids, area : 0 .. MaxArea]
Record == [track : Nat, rect : Persons \cup {None}, looks : Persons \cup {None},
           feature : Persons \cup {None}]
NoBest == [index |-> 0, area |-> 0]

Init ==
  /\ front = << >> /\ given = {}
  /\ ready = FALSE /\ reg = FALSE
  /\ table = Empty /\ exist = [s \in Slots |-> 0]
  /\ match = [track |-> 0, rect |-> None, looks |-> None, feature |-> None]
  /\ told = "away"
  /\ at = "wait"
  /\ picture = << >> /\ i = 1 /\ best = NoBest /\ slot = 1
  /\ fresh = FALSE

-----------------------------------------------------------------------------
(* In front of the camera, and what the library makes of it.                 *)

Enter(p) ==
  /\ Len(front) < InView
  /\ \A k \in DOMAIN front : front[k].who # p
  /\ \E n \in Ids \ given :
       /\ front' = Append(front, [who |-> p, id |-> n])
       /\ given' = given \cup {n}
  /\ UNCHANGED << ready, reg, table, exist, match, told, at, frameVars, fresh >>

Leave(k) ==
  /\ front' = RemoveAt(front, k)
  /\ UNCHANGED << given, ready, reg, table, exist, match, told, at, frameVars, fresh >>

(* InitFaceEngine, tried again until it succeeds: a new, empty table.        *)
InitFaceEngine ==
  /\ ~ready
  /\ ready' = TRUE
  /\ table' = Empty
  /\ UNCHANGED << sceneVars, reg, exist, match, told, at, frameVars, fresh >>

(* The panel's thread; it always tells the engine that nobody is there.      *)
setRegFaceState(state) ==
  /\ reg' = state
  /\ told' = "away"
  /\ UNCHANGED << sceneVars, ready, table, exist, match, at, frameVars, fresh >>

-----------------------------------------------------------------------------
(* setCameraPreviewYUVData, one picture.                                     *)

(* An area of 0 stands for a face the tracker has lost or the threshold      *)
(* rejects; with the form of a new person open nothing is done.              *)
TakePicture ==
  /\ at = "wait" /\ ready
  /\ \E areas \in [DOMAIN front -> 0 .. MaxArea] :
       picture' = [k \in DOMAIN front |->
                     [who |-> front[k].who, id |-> front[k].id, area |-> areas[k]]]
  /\ at' = "track" /\ i' = 1 /\ best' = NoBest /\ fresh' = FALSE
  /\ UNCHANGED << sceneVars, ready, reg, table, exist, match, told, slot >>

MoreFaces == i <= Len(picture) /\ i < MAX_FACES

(* getCoreFace looks for the number plus one, and else takes the first       *)
(* record whose number is not among the existing ones, kept without it.      *)
(* Mutant of HasTrack: the record is looked up by the number itself.         *)
HasTrackItself(n) == {s \in Slots : table[s].track = n}
HasTrack(n) == {s \in Slots : table[s].track = n + 1}
NotExisting == {s \in Slots : \A j \in Slots : exist[j] = 0 \/ exist[j] # table[s].track}
First(S) == IF S = {} THEN 1 ELSE CHOOSE s \in S : \A r \in S : s <= r
getCoreFace(n) == IF HasTrack(n) # {} THEN First(HasTrack(n)) ELSE First(NotExisting)

(* Mutant of TrackFace: the largest size is added up.                        *)
TrackFaceAdds ==
  LET face == picture[i]
      s == getCoreFace(face.id)
  IN /\ at = "track" /\ MoreFaces /\ face.area > 0
     /\ table' = [table EXCEPT ![s] = [track |-> IF HasTrack(face.id) # {} THEN table[s].track
                                                 ELSE face.id + 1,
                                       rect |-> face.who]]
     /\ exist' = [exist EXCEPT ![i] = face.id]
     /\ IF face.area > best.area
        THEN best' = [index |-> i, area |-> best.area + face.area] /\ slot' = s
        ELSE UNCHANGED << best, slot >>
     /\ i' = i + 1
     /\ UNCHANGED << sceneVars, ready, reg, match, told, at, picture, fresh >>

TrackFace ==
  LET face == picture[i]
      s == getCoreFace(face.id)
  IN /\ at = "track" /\ MoreFaces /\ face.area > 0
     /\ table' = [table EXCEPT ![s] = [track |-> IF HasTrack(face.id) # {} THEN table[s].track
                                                 ELSE face.id + 1,
                                       rect |-> face.who]]
     /\ exist' = [exist EXCEPT ![i] = face.id]
     /\ IF face.area > best.area
        THEN best' = [index |-> i, area |-> face.area] /\ slot' = s
        ELSE UNCHANGED << best, slot >>
     /\ i' = i + 1
     /\ UNCHANGED << sceneVars, ready, reg, match, told, at, picture, fresh >>

IgnoreFace ==
  /\ at = "track" /\ MoreFaces /\ picture[i].area = 0
  /\ i' = i + 1
  /\ UNCHANGED << sceneVars, ready, reg, table, exist, match, told, at, picture, best, slot, fresh >>

(* The thread leaves the picture; its local variables are gone.              *)
LeavePicture ==
  at' = "wait" /\ picture' = << >> /\ i' = 1 /\ best' = NoBest /\ slot' = 1 /\ fresh' = FALSE

(* Mutant of NobodyThere: an empty picture is not reported.                  *)
NobodyThereSilent ==
  /\ at = "track" /\ ~MoreFaces /\ best.index = 0
  /\ LeavePicture
  /\ UNCHANGED << sceneVars, ready, reg, table, exist, match, told >>

NobodyThere ==
  /\ at = "track" /\ ~MoreFaces /\ best.index = 0
  /\ told' = "away"
  /\ LeavePicture
  /\ UNCHANGED << sceneVars, ready, reg, table, exist, match >>

(* Mutant of SelectLargest: the number is copied only into a new record.     *)
SelectKeepsTrack ==
  /\ at = "track" /\ ~MoreFaces /\ best.index # 0
  /\ told' = "here"
  /\ match' = [match EXCEPT !.track = IF @ = 0 THEN table[slot].track ELSE @,
                            !.rect = table[slot].rect, !.looks = None]
  /\ at' = "range"
  /\ UNCHANGED << sceneVars, ready, reg, table, exist, frameVars, fresh >>

SelectLargest ==
  /\ at = "track" /\ ~MoreFaces /\ best.index # 0
  /\ told' = "here"
  /\ match' = [match EXCEPT !.track = table[slot].track, !.rect = table[slot].rect, !.looks = None]
  /\ at' = "range"
  /\ UNCHANGED << sceneVars, ready, reg, table, exist, frameVars, fresh >>

(* CheckRange judges by the size of the rectangle.                           *)
OutOfRange ==
  /\ at = "range"
  /\ told' = "away"
  /\ LeavePicture
  /\ UNCHANGED << sceneVars, ready, reg, table, exist, match >>

StopForRegistration ==
  /\ at = "range" /\ reg
  /\ LeavePicture
  /\ UNCHANGED << sceneVars, ready, reg, table, exist, match, told >>

(* CheckMaskDetecct and CheckLivenessDetect measure the face where the       *)
(* largest one was found; either may fail.                                   *)
InspectFace ==
  /\ at = "range" /\ ~reg
  /\ \E found \in BOOLEAN :
       match' = [match EXCEPT !.looks = IF found THEN picture[best.index].who ELSE None]
  /\ at' = "extract"
  /\ UNCHANGED << sceneVars, ready, reg, table, exist, told, frameVars, fresh >>

(* Mutant of FaceFeatureExtract: copied only when the buffer had to grow.    *)
ExtractWhenGrown ==
  /\ at = "extract"
  /\ \/ /\ \E k \in DOMAIN picture :
             match' = IF match.feature = None THEN [match EXCEPT !.feature = picture[k].who] ELSE match
        /\ fresh' = TRUE
     \/ UNCHANGED << match, fresh >>
  /\ at' = "send"
  /\ UNCHANGED << sceneVars, ready, reg, table, exist, told, frameVars >>

(* FaceFeatureExtract detects once more and takes the first face; when it    *)
(* fails anywhere, the record keeps the feature it had.                      *)
FaceFeatureExtract ==
  /\ at = "extract"
  /\ \/ /\ \E k \in DOMAIN picture : match' = [match EXCEPT !.feature = picture[k].who]
        /\ fresh' = TRUE
     \/ UNCHANGED << match, fresh >>
  /\ at' = "send"
  /\ UNCHANGED << sceneVars, ready, reg, table, exist, told, frameVars >>

SendFace ==
  /\ at = "send"
  /\ told' = IF reg THEN told ELSE "face"
  /\ LeavePicture
  /\ UNCHANGED << sceneVars, ready, reg, table, exist, match >>

-----------------------------------------------------------------------------
InPicture == \/ TrackFace \/ IgnoreFace \/ NobodyThere \/ SelectLargest \/ OutOfRange
             \/ StopForRegistration \/ InspectFace \/ FaceFeatureExtract \/ SendFace

Next ==
  \/ \E p \in Persons : Enter(p)
  \/ \E k \in DOMAIN front : Leave(k)
  \/ InitFaceEngine
  \/ \E state \in BOOLEAN : setRegFaceState(state)
  \/ TakePicture
  \/ InPicture

(* The camera's thread never stops; while the form of a new person is open   *)
(* it does nothing with its pictures.                                        *)
Spec == Init /\ [][Next]_vars /\ WF_vars(TakePicture /\ ~reg) /\ WF_vars(InPicture)

-----------------------------------------------------------------------------
(* Every variable has its type.                                              *)
TypeOK ==
  /\ front \in Seq([who : Persons, id : Ids])
  /\ given \subseteq Ids
  /\ ready \in BOOLEAN /\ reg \in BOOLEAN /\ fresh \in BOOLEAN
  /\ table \in [Slots -> [track : Nat, rect : Persons \cup {None}]]
  /\ exist \in [Slots -> Ids \cup {0}]
  /\ match \in Record
  /\ told \in {"away", "here", "face"}
  /\ at \in {"wait", "track", "range", "extract", "send"}
  /\ picture \in Seq(Face)
  /\ i \in Slots
  /\ best \in [index : 0 .. MAX_FACES, area : 0 .. MaxArea]
  /\ slot \in Slots

(* No two records of the table carry the same tracking number, so that the   *)
(* first match of getCoreFace is the only one.                               *)
OneRecordPerTrack ==
  \A s, r \in Slots : table[s].track # 0 /\ table[s].track = table[r].track => s = r

(* What is signalled was seen: the number and the rectangle of mMatchCoreFace*)
(* belong to one accepted face of this very picture, though getCoreFace may  *)
(* have given the record of the largest face to another one.                 *)
OfThePicture(track, rect) ==
  \E k \in DOMAIN picture :
    picture[k].area > 0 /\ track = picture[k].id + 1 /\ rect = picture[k].who
RecordOfOneFace ==
  at \in {"range", "extract", "send"} => OfThePicture(match.track, match.rect)

(* Whatever the table and the record kept of those before him, a person who  *)
(* is alone in the picture is signalled with his own number, rectangle and   *)
(* looks, and with his own feature if it could be extracted.                 *)
LoneFaceIsHimself ==
  at = "send" /\ Len(picture) = 1 =>
    LET him == picture[1] IN
    /\ match.track = him.id + 1 /\ match.rect = him.who
    /\ match.looks \in {him.who, None}
    /\ fresh => match.feature = him.who

(* Once nobody is in front of the camera any more and the menu is closed,    *)
(* the last thing the engine is told is that nobody is there.                *)
DismissalFollows == <>[](front = << >> /\ ~reg) => <>[](told = "away")
=============================================================================
