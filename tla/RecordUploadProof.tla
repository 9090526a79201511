-------------------------- MODULE RecordUploadProof --------------------------
(***************************************************************************)
(* RecordUpload, proved for any number of posting objects, any batch and   *)
(* any number of events: type correctness, that only the door button costs *)
(* rows, and that rows marked without being accepted are paid for by live  *)
(* acknowledgements and deletions.                                         *)
(***************************************************************************)
EXTENDS RecordUpload, FiniteSetTheorems, SequenceTheorems, WellFoundedInduction, TLAPS

Stored == passages + doors

RowType == [id : Passages, up : BOOLEAN]
WriterType == [pc : {"idle", "number", "insert"}, id : Passages, rid : Rid, left : 0 .. 2]
PostType == [pc : {"idle", "page", "send", "sent", "mark"}, id : Passages, rid : Rid]
Batch == UNION {[rids -> Passages] : rids \in SUBSET Rid}
PushType == [on : BOOLEAN, dated : BOOLEAN, total : Nat, done : Nat, batch : Batch,
             first : SUBSET Passages, failed : BOOLEAN]

CountPart ==
  /\ passages \in Nat /\ doors \in Nat /\ deletions \in Nat /\ pushes \in Nat
  /\ Within(0)

TablePart ==
  /\ DOMAIN table \subseteq Rid
  /\ \A r \in DOMAIN table : table[r] \in RowType

WriterPart ==
  /\ writer \in [Writers -> WriterType]
  /\ \A w \in Writers : writer[w].pc = "idle" <=> writer[w].left = 0

MainPart ==
  /\ main \in [pc : {"idle", "door", "post", "mark"}, id : Passages, kind : Kind]
  /\ queue \in Seq([id : Passages, kind : Kind])

\* A batch that is being sent is never empty.
PostPart ==
  /\ post \in [Posters -> PostType]
  /\ pictures \in [Posters -> Nat]
  /\ manual \in [Posters -> BOOLEAN]
  /\ push \in [Posters -> PushType]
  /\ \A p \in Posters : post[p].pc = "send" => DOMAIN push[p].batch # {}

ServerPart == accepted \subseteq Passages /\ lost \subseteq Passages /\ acks \in Nat

\* Every passage and every door button brings at most two rows, and a row gets
\* a number below all rows brought so far, those still to be stored included.
Left == writer["records"].left + writer["main"].left
Room ==
  /\ Left <= 2 * Stored
  /\ \A r \in DOMAIN table : r + Left < 2 * Stored
  /\ \A w \in Writers : writer[w].pc = "insert" => writer[w].rid + Left <= 2 * Stored

TypeInv ==
  CountPart /\ TablePart /\ WriterPart /\ MainPart /\ PostPart /\ ServerPart /\ Room

-----------------------------------------------------------------------------
(* Rows and their numbers *)

\* A bounded set of numbers has a largest one: of the intervals from its
\* members up to the bound, one is smallest.
LEMMA LargestExists ==
  ASSUME NEW S \in SUBSET Nat, S # {}, NEW b \in Nat, \A x \in S : x <= b
  PROVE  \E m \in S : \A x \in S : x <= m
<1> DEFINE Above == {x .. b : x \in S}
<1>1. Above \subseteq FiniteSubsetsOf(Nat)
  <2>1. ASSUME NEW x \in S PROVE x .. b \subseteq Nat /\ IsFiniteSet(x .. b)
    BY FS_Interval
  <2> QED
    BY <2>1 DEF FiniteSubsetsOf
<1>2. Above # {}
  OBVIOUS
<1>3. \E A \in Above : \A B \in Above : <<B, A>> \notin StrictSubsetOrdering(Nat)
  <2> HIDE DEF Above
  <2> QED
    BY <1>1, <1>2, FS_StrictSubsetOrderingWellFounded, WFMin
<1>4. PICK m \in S : \A x \in S : <<x .. b, m .. b>> \notin StrictSubsetOrdering(Nat)
  BY <1>3
<1>5. ASSUME NEW x \in S, ~(x <= m) PROVE FALSE
  <2>1. x .. b \subseteq m .. b /\ x .. b # m .. b
    BY <1>5
  <2>2. x .. b \in SUBSET Nat /\ m .. b \in SUBSET Nat
    OBVIOUS
  <2> QED
    BY <2>1, <2>2, <1>4 DEF StrictSubsetOrdering
<1> QED
  BY <1>5

LEMMA NewestOf ==
  ASSUME NEW S \in SUBSET Rid, S # {}
  PROVE  Newest(S) \in S /\ \A x \in S : x <= Newest(S)
<1>1. 2 * MaxEvents \in Nat /\ S \in SUBSET Nat /\ \A x \in S : x <= 2 * MaxEvents
  BY UploadAssumption DEF Rid
<1>2. \E m \in S : \A x \in S : x <= m
  BY <1>1, LargestExists
<1> QED
  BY <1>2 DEF Newest

LEMMA RidsFinite == ASSUME NEW S \in SUBSET Rid PROVE IsFiniteSet(S)
<1>1. IsFiniteSet(Rid)
  BY FS_Interval, UploadAssumption DEF Rid
<1> QED
  BY <1>1, FS_Subset

\* The number read for a new row is above all rows.
LEMMA MaxRidAbove ==
  ASSUME TablePart
  PROVE  /\ MaxRid \in Nat /\ MaxRid \notin DOMAIN table
         /\ \A r \in DOMAIN table : r < MaxRid
         /\ MaxRid = 0 \/ \E r \in DOMAIN table : MaxRid = r + 1
<1>1. CASE DOMAIN table = {}
  BY <1>1 DEF MaxRid
<1>2. CASE DOMAIN table # {}
  <2>1. /\ Newest(DOMAIN table) \in DOMAIN table
        /\ \A r \in DOMAIN table : r <= Newest(DOMAIN table)
    BY <1>2, NewestOf DEF TablePart
  <2>2. DOMAIN table \subseteq Nat
    BY UploadAssumption DEF TablePart, Rid
  <2> QED
    BY <1>2, <2>1, <2>2 DEF MaxRid
<1> QED
  BY <1>1, <1>2

\* Marking changes neither which rows there are nor whose they are.
LEMMA MarkedRows ==
  ASSUME NEW rid, TablePart
  PROVE  /\ DOMAIN Marked(rid) = DOMAIN table
         /\ \A r \in DOMAIN table : /\ Marked(rid)[r] \in RowType
                                    /\ Marked(rid)[r].id = table[r].id
                                    /\ r # rid => Marked(rid)[r] = table[r]
<1>1. DOMAIN Marked(rid) = DOMAIN table
  BY DEF Marked
<1>2. ASSUME NEW r \in DOMAIN table
      PROVE  /\ Marked(rid)[r] \in RowType
             /\ Marked(rid)[r].id = table[r].id
             /\ r # rid => Marked(rid)[r] = table[r]
  <2>1. table[r] \in RowType
    BY DEF TablePart
  <2>2. Marked(rid)[r] = IF r = rid THEN Row(table[r].id, TRUE) ELSE table[r]
    BY DEF Marked
  <2> QED
    BY <2>1, <2>2 DEF RowType, Row
<1> QED
  BY <1>1, <1>2

-----------------------------------------------------------------------------
(* Type correctness *)

LEMMA Bounds == Passages = 0 .. MaxEvents /\ MaxEvents \in Nat /\ Rid = 0 .. 2 * MaxEvents
  BY UploadAssumption DEF Passages, Rid

LEMMA EmptyBatch == NoRows \in Batch /\ DOMAIN NoRows = {}
<1>1. NoRows \in [{} -> Passages] /\ {} \in SUBSET Rid
  BY DEF NoRows
<1> QED
  BY <1>1 DEF Batch, NoRows

LEMMA BatchRows ==
  ASSUME NEW b \in Batch
  PROVE  DOMAIN b \subseteq Rid /\ b \in [DOMAIN b -> Passages]
  BY DEF Batch

LEMMA RestingType == Resting \in WriterType /\ NoPost \in PostType /\ NoPush \in PushType
<1>1. 0 \in Passages /\ 0 \in Rid
  BY Bounds
<1> QED
  BY <1>1, EmptyBatch DEF Resting, NoPost, NoPush, WriterType, PostType, PushType, None

LEMMA TypeStart == Init => TypeInv
<1> SUFFICES ASSUME Init PROVE TypeInv
  OBVIOUS
<1> USE DEF Init
<1>1. CountPart
  BY Bounds DEF CountPart, Within
<1>2. TablePart
  BY DEF TablePart
<1>3. WriterPart
  BY RestingType DEF WriterPart, Resting
<1>4. MainPart
  BY Bounds DEF MainPart, Quiet, None, Kind
<1>5. PostPart
  BY RestingType DEF PostPart, NoPost
<1>6. ServerPart
  BY DEF ServerPart
<1>7. Room
  BY DEF Room, Left, Stored, Writers, Resting
<1> QED
  BY <1>1, <1>2, <1>3, <1>4, <1>5, <1>6, <1>7 DEF TypeInv

\* What depends on nothing an action changes stays as it is.
LEMMA Kept ==
  ASSUME TypeInv
  PROVE  /\ UNCHANGED counts => CountPart'
         /\ UNCHANGED table => TablePart'
         /\ UNCHANGED writer => WriterPart'
         /\ UNCHANGED << main, queue >> => MainPart'
         /\ UNCHANGED << post, pictures, manual, push >> => PostPart'
         /\ UNCHANGED << server, lost >> => ServerPart'
         /\ UNCHANGED << table, writer, passages, doors >> => Room'
<1>1. UNCHANGED counts => CountPart'
  BY DEF TypeInv, CountPart, counts, Within
<1>2. UNCHANGED table => TablePart'
  BY DEF TypeInv, TablePart
<1>3. UNCHANGED writer => WriterPart'
  BY DEF TypeInv, WriterPart
<1>4. UNCHANGED << main, queue >> => MainPart'
  BY DEF TypeInv, MainPart
<1>5. UNCHANGED << post, pictures, manual, push >> => PostPart'
  BY DEF TypeInv, PostPart
<1>6. UNCHANGED << server, lost >> => ServerPart'
  BY DEF TypeInv, ServerPart, server
<1>7. UNCHANGED << table, writer, passages, doors >> => Room'
  BY DEF TypeInv, Room, Left, Stored
<1> QED
  BY <1>1, <1>2, <1>3, <1>4, <1>5, <1>6, <1>7

LEMMA MarkedKeeps ==
  ASSUME TypeInv, NEW rid, table' = Marked(rid), UNCHANGED << writer, passages, doors >>
  PROVE  TablePart' /\ Room'
<1>1. /\ DOMAIN table' = DOMAIN table
      /\ \A r \in DOMAIN table' : table'[r] \in RowType
  BY MarkedRows DEF TypeInv
<1>2. TablePart'
  BY <1>1 DEF TypeInv, TablePart
<1>3. Room'
  BY <1>1 DEF TypeInv, Room, Left, Stored
<1> QED
  BY <1>2, <1>3

LEMMA LeftType ==
  ASSUME WriterPart
  PROVE  /\ writer["records"] \in WriterType /\ writer["main"] \in WriterType
         /\ writer["records"].left \in 0 .. 2 /\ writer["main"].left \in 0 .. 2
         /\ Left \in Nat
  BY DEF WriterPart, WriterType, Writers, Left

\* A writer that is at work has a row to store.
LEMMA Busy ==
  ASSUME WriterPart, NEW w \in Writers, writer[w].pc # "idle"
  PROVE  writer[w] \in WriterType /\ writer[w].left \in 1 .. 2
<1>1. writer[w] \in WriterType
  BY DEF WriterPart
<1>2. writer[w].left # 0
  BY DEF WriterPart
<1>3. writer[w].left \in 0 .. 2
  BY <1>1 DEF WriterType
<1> QED
  BY <1>1, <1>2, <1>3

LEMMA PassageType ==
  ASSUME TypeInv, NEW k \in Kinds, slotappRecordData(k)
  PROVE  TypeInv'
<1> USE DEF slotappRecordData
<1> DEFINE rows == IF k = "stranger" THEN StrangerRows
                   ELSE IF k = "bare" /\ MustFace THEN 0 ELSE 1
<1>1. rows \in 0 .. 2
  BY UploadAssumption
<1>2. CountPart'
  BY DEF TypeInv, CountPart, Within
<1>3. NewId \in Passages
  BY Bounds DEF TypeInv, CountPart, Within, NewId
<1>4. writer' = IF rows = 0 THEN writer
                ELSE [writer EXCEPT !["records"] =
                        [pc |-> "number", id |-> NewId, rid |-> 0, left |-> rows]]
  OBVIOUS
<1> HIDE DEF rows
<1>5. WriterPart'
  <2>1. [pc |-> "number", id |-> NewId, rid |-> 0, left |-> rows] \in WriterType
    BY <1>1, <1>3, Bounds DEF WriterType
  <2> QED
    BY <1>1, <1>4, <2>1 DEF TypeInv, WriterPart, Writers
<1>6. MainPart'
  <2>1. [id |-> NewId, kind |-> k] \in [id : Passages, kind : Kind]
    BY <1>3, UploadAssumption DEF Kind
  <2>2. queue \in Seq([id : Passages, kind : Kind])
    BY DEF TypeInv, MainPart
  <2>3. Append(queue, [id |-> NewId, kind |-> k]) \in Seq([id : Passages, kind : Kind])
    BY <2>1, <2>2
  <2>4. queue' = queue \/ queue' = Append(queue, [id |-> NewId, kind |-> k])
    OBVIOUS
  <2>5. queue' \in Seq([id : Passages, kind : Kind])
    BY <2>2, <2>3, <2>4
  <2> QED
    BY <2>5 DEF TypeInv, MainPart
<1>7. Room'
  <2>1. writer["records"].left = 0 /\ Left = writer["main"].left /\ Left \in Nat
    BY LeftType DEF TypeInv, WriterPart, Writers, Left
  <2>2. Left' \in Nat /\ Left <= Left' /\ Left' <= Left + 2 /\ writer'["main"] = writer["main"]
    BY <1>1, <1>4, <2>1 DEF TypeInv, WriterPart, Writers, Left
  <2>3. Stored' = Stored + 1 /\ Stored \in Nat
    BY DEF TypeInv, CountPart, Stored
  <2>4. \A w \in Writers : writer'[w].pc = "insert" => writer'[w] = writer[w]
    BY <1>4 DEF TypeInv, WriterPart, Writers
  <2>5. \A w \in Writers : writer'[w].pc = "insert" => writer'[w].rid + Left' <= 2 * Stored'
    <3> SUFFICES ASSUME NEW w \in Writers, writer'[w].pc = "insert"
                 PROVE  writer'[w].rid + Left' <= 2 * Stored'
      OBVIOUS
    <3>1. writer[w].rid + Left <= 2 * Stored /\ writer[w].rid \in Nat
      BY <2>4, Bounds DEF TypeInv, Room, WriterPart, WriterType
    <3> QED
      BY <2>2, <2>3, <2>1, <2>4, <3>1
  <2>6. \A r \in DOMAIN table' : r + Left' < 2 * Stored'
    <3> SUFFICES ASSUME NEW r \in DOMAIN table PROVE r + Left' < 2 * Stored'
      OBVIOUS
    <3>1. r \in Nat /\ r + Left < 2 * Stored
      BY Bounds DEF TypeInv, Room, TablePart
    <3> QED
      BY <2>1, <2>2, <2>3, <3>1
  <2>7. Left' <= 2 * Stored'
    BY <2>1, <2>2, <2>3 DEF TypeInv, Room
  <2> QED
    BY <2>5, <2>6, <2>7 DEF Room
<1> QED
  BY <1>2, <1>5, <1>6, <1>7, Kept DEF TypeInv

\* A writer that starts leaves the rooms of the others as they were.
LEMMA DoorType ==
  ASSUME TypeInv, appDoorRecordData
  PROVE  TypeInv'
<1> USE DEF appDoorRecordData
<1> DEFINE one == [pc |-> "number", id |-> NewId, rid |-> 0, left |-> 1]
<1>2. CountPart'
  BY DEF TypeInv, CountPart, Within
<1>3. NewId \in Passages
  BY Bounds DEF TypeInv, CountPart, Within, NewId
<1>4. one \in WriterType
  BY <1>3, Bounds DEF WriterType
<1>5. WriterPart'
  BY <1>4 DEF TypeInv, WriterPart, Writers
<1>6. MainPart'
  BY DEF TypeInv, MainPart
<1>7. Room'
  <2>1. Left \in Nat /\ writer["records"].left \in 0 .. 2 /\ writer["main"].left \in 0 .. 2
    BY LeftType DEF TypeInv
  <2>2. writer'["records"] = writer["records"] /\ writer'["main"] = one
    BY DEF TypeInv, WriterPart, Writers
  <2>3. Left' \in Nat /\ Left' <= Left + 1
    BY <2>1, <2>2 DEF Left
  <2>4. Stored' = Stored + 1 /\ Stored \in Nat
    BY DEF TypeInv, CountPart, Stored
  <2>5. ASSUME NEW w \in Writers, writer'[w].pc = "insert"
        PROVE  writer'[w].rid + Left' <= 2 * Stored'
    <3>1. w = "records"
      BY <2>2, <2>5 DEF Writers
    <3>2. writer[w].rid + Left <= 2 * Stored /\ writer[w].rid \in Nat
      BY <2>2, <2>5, <3>1, Bounds DEF TypeInv, Room, WriterPart, WriterType
    <3> QED
      BY <2>1, <2>2, <2>3, <2>4, <3>1, <3>2
  <2>6. ASSUME NEW r \in DOMAIN table PROVE r + Left' < 2 * Stored'
    <3>1. r \in Nat /\ r + Left < 2 * Stored
      BY Bounds DEF TypeInv, Room, TablePart
    <3> QED
      BY <2>1, <2>3, <2>4, <3>1
  <2>7. Left' <= 2 * Stored'
    BY <2>1, <2>3, <2>4 DEF TypeInv, Room
  <2> QED
    BY <2>5, <2>6, <2>7 DEF Room
<1> QED
  BY <1>2, <1>5, <1>6, <1>7, Kept DEF TypeInv

LEMMA ReadType ==
  ASSUME TypeInv, NEW w \in Writers, ReadNumber(w)
  PROVE  TypeInv'
<1> USE DEF ReadNumber
<1>1. Left \in Nat /\ writer[w] \in WriterType /\ writer[w].left \in 1 .. 2
  BY LeftType, Busy DEF TypeInv
<1>2. writer[w].left <= Left
  BY LeftType DEF TypeInv, Left, Writers
<1>3. MaxRid \in Nat /\ MaxRid + Left <= 2 * Stored
  <2>1. Stored \in Nat /\ Left <= 2 * Stored
    BY DEF TypeInv, CountPart, Stored, Room
  <2>2. MaxRid \in Nat /\ (MaxRid = 0 \/ \E r \in DOMAIN table : MaxRid = r + 1)
    BY MaxRidAbove DEF TypeInv
  <2>3. \A r \in DOMAIN table : r \in Nat /\ r + Left < 2 * Stored
    BY Bounds DEF TypeInv, Room, TablePart
  <2> QED
    BY <1>1, <2>1, <2>2, <2>3
<1>4. MaxRid \in Rid
  <2>1. Stored <= MaxEvents /\ Stored \in Nat
    BY Bounds DEF TypeInv, CountPart, Within, Stored
  <2> QED
    BY <1>1, <1>3, <2>1, Bounds
<1> DEFINE one == [writer[w] EXCEPT !.pc = "insert", !.rid = MaxRid]
<1>9. writer' = [writer EXCEPT ![w] = one]
  BY DEF TypeInv, WriterPart
<1>10. /\ one \in WriterType /\ one.pc = "insert" /\ one.left = writer[w].left
       /\ one.rid = MaxRid
  BY <1>1, <1>4 DEF WriterType
<1> HIDE DEF one
<1>5. WriterPart'
  BY <1>1, <1>9, <1>10 DEF TypeInv, WriterPart
<1>6. /\ writer'[w].left = writer[w].left /\ writer'[w].rid = MaxRid
      /\ \A v \in Writers \ {w} : writer'[v] = writer[v]
  BY <1>9, <1>10 DEF TypeInv, WriterPart
<1>7. Left' = Left
  BY <1>6 DEF Left, Writers
<1>8. Room'
  <2>1. ASSUME NEW v \in Writers, writer'[v].pc = "insert"
        PROVE  writer'[v].rid + Left' <= 2 * Stored'
    <3>1. CASE v = w
      BY <1>3, <1>6, <1>7, <3>1 DEF Stored, counts
    <3>2. CASE v # w
      BY <1>6, <1>7, <2>1, <3>2 DEF TypeInv, Room, Stored, counts
    <3> QED
      BY <3>1, <3>2
  <2>2. Left' <= 2 * Stored' /\ \A r \in DOMAIN table' : r + Left' < 2 * Stored'
    BY <1>7 DEF TypeInv, Room, Stored, counts
  <2> QED
    BY <2>1, <2>2 DEF Room
<1> QED
  BY <1>5, <1>8, Kept DEF TypeInv

LEMMA InsertType ==
  ASSUME TypeInv, NEW w \in Writers, Insert(w)
  PROVE  TypeInv'
<1> USE DEF Insert
<1> DEFINE rid == writer[w].rid
           id == writer[w].id
           next == IF writer[w].left > 1
                   THEN [writer[w] EXCEPT !.pc = "number", !.left = writer[w].left - 1]
                   ELSE Resting
<1>1. /\ Left \in Nat /\ writer[w] \in WriterType /\ writer[w].left \in 1 .. 2
      /\ rid \in Rid /\ id \in Passages
  <2>1. Left \in Nat /\ writer[w] \in WriterType /\ writer[w].left \in 1 .. 2
    BY LeftType, Busy DEF TypeInv
  <2> QED
    BY <2>1 DEF WriterType
<1>2. writer' = [writer EXCEPT ![w] = next]
  BY DEF TypeInv, WriterPart
<1>3. /\ next \in WriterType /\ next.left = writer[w].left - 1
      /\ next.pc # "insert" /\ (next.pc = "idle" <=> next.left = 0)
  <2>1. CASE writer[w].left > 1
    <3>1. next = [writer[w] EXCEPT !.pc = "number", !.left = writer[w].left - 1]
      BY <2>1
    <3>2. writer[w].left - 1 \in 0 .. 2 /\ writer[w].left - 1 # 0
      BY <1>1, <2>1
    <3>3. writer[w] \in WriterType
      BY <1>1
    <3> HIDE DEF next
    <3> QED
      BY <3>1, <3>2, <3>3 DEF WriterType
  <2>2. CASE ~(writer[w].left > 1)
    BY <1>1, <2>2, RestingType DEF Resting
  <2> QED
    BY <2>1, <2>2
<1> HIDE DEF next
<1>4. WriterPart'
  BY <1>2, <1>3 DEF TypeInv, WriterPart
<1>5. writer'[w] = next /\ \A v \in Writers \ {w} : writer'[v] = writer[v]
  BY <1>2 DEF TypeInv, WriterPart
<1>6. Left' = Left - 1
  <2>1. writer["records"].left \in 0 .. 2 /\ writer["main"].left \in 0 .. 2
    BY LeftType DEF TypeInv
  <2>2. writer'[w].left = writer[w].left - 1
    BY <1>3, <1>5
  <2>3. CASE w = "records"
    BY <1>5, <2>1, <2>2, <2>3 DEF Left, Writers
  <2>4. CASE w = "main"
    BY <1>5, <2>1, <2>2, <2>4 DEF Left, Writers
  <2> QED
    BY <2>3, <2>4 DEF Writers
<1>7. /\ DOMAIN table' \subseteq DOMAIN table \cup {rid}
      /\ \A r \in DOMAIN table' : table'[r] \in RowType
  <2>1. CASE rid \in DOMAIN table
    BY <2>1 DEF TypeInv, TablePart
  <2>2. CASE rid \notin DOMAIN table
    <3>1. table' = [r \in DOMAIN table \cup {rid} |-> IF r = rid THEN Row(id, FALSE) ELSE table[r]]
      BY <2>2
    <3>2. Row(id, FALSE) \in RowType
      BY <1>1 DEF Row, RowType
    <3> QED
      BY <3>1, <3>2 DEF TypeInv, TablePart
  <2> QED
    BY <2>1, <2>2
<1>8. TablePart'
  BY <1>1, <1>7 DEF TypeInv, TablePart
<1>9. Room'
  <2>1. rid + Left <= 2 * Stored /\ rid \in Nat /\ Stored \in Nat /\ Stored' = Stored
    BY <1>1, Bounds DEF TypeInv, Room, CountPart, Stored, counts
  <2>2. ASSUME NEW r \in DOMAIN table' PROVE r + Left' < 2 * Stored'
    <3>1. CASE r = rid
      BY <1>1, <1>6, <2>1, <3>1
    <3>2. CASE r \in DOMAIN table
      <4>1. r \in Nat /\ r + Left < 2 * Stored
        BY <3>2, Bounds DEF TypeInv, Room, TablePart
      <4> QED
        BY <1>1, <1>6, <2>1, <4>1
    <3> QED
      BY <1>7, <2>2, <3>1, <3>2
  <2>3. ASSUME NEW v \in Writers, writer'[v].pc = "insert"
        PROVE  writer'[v].rid + Left' <= 2 * Stored'
    <3>1. v # w
      BY <1>3, <1>5, <2>3
    <3>2. writer[v].rid \in Nat /\ writer[v].rid + Left <= 2 * Stored
      BY <1>5, <2>3, <3>1, Bounds DEF TypeInv, Room, WriterPart, WriterType
    <3> QED
      BY <1>1, <1>5, <1>6, <2>1, <3>1, <3>2
  <2>4. Left' <= 2 * Stored'
    BY <1>1, <1>6, <2>1 DEF TypeInv, Room
  <2> QED
    BY <2>2, <2>3, <2>4 DEF Room
<1>10. MainPart'
  <2>1. Quiet \in [pc : {"idle", "door", "post", "mark"}, id : Passages, kind : Kind]
    BY Bounds DEF Quiet, None, Kind
  <2> QED
    BY <2>1 DEF TypeInv, MainPart
<1>11. ServerPart'
  <2>1. lost' = lost \/ lost' = lost \cup {id}
    OBVIOUS
  <2> QED
    BY <1>1, <2>1 DEF TypeInv, ServerPart, server
<1> QED
  BY <1>4, <1>8, <1>9, <1>10, <1>11, Kept DEF TypeInv

LEMMA DeleteType ==
  ASSUME TypeInv, NEW rids \in SUBSET DOMAIN table, Delete(rids)
  PROVE  TypeInv'
<1> USE DEF Delete
<1>1. Cardinality(rids) \in Nat
  <2>1. rids \in SUBSET Rid
    BY DEF TypeInv, TablePart
  <2> QED
    BY <2>1, RidsFinite, FS_CardinalityType
<1>2. CountPart'
  BY <1>1, Bounds DEF TypeInv, CountPart, Within
<1>3. DOMAIN table' = DOMAIN table \ rids /\ \A r \in DOMAIN table' : table'[r] = table[r]
  OBVIOUS
<1>4. TablePart'
  BY <1>3 DEF TypeInv, TablePart
<1>5. Room'
  BY <1>3 DEF TypeInv, Room, Left, Stored
<1> QED
  BY <1>2, <1>4, <1>5, Kept DEF TypeInv

\* The five steps of the main thread besides the door button.
LEMMA MainType ==
  ASSUME TypeInv, Main
  PROVE  TypeInv'
<1> DEFINE M == [pc : {"idle", "door", "post", "mark"}, id : Passages, kind : Kind]
           Q == [id : Passages, kind : Kind]
<1>1. main \in M /\ queue \in Seq(Q) /\ Quiet \in M
  BY Bounds DEF TypeInv, MainPart, Quiet, None, Kind
<1>2. CASE TakeLive
  <2>1. Head(queue) \in Q /\ Tail(queue) \in Seq(Q)
    <3>1. queue # << >>
      BY <1>2 DEF TakeLive
    <3> HIDE DEF Q
    <3> QED
      BY <1>1, <3>1, HeadTailProperties
  <2>2. [pc |-> "post", id |-> Head(queue).id, kind |-> Head(queue).kind] \in M
    BY <2>1
  <2>3. main' \in M /\ queue' \in Seq(Q)
    BY <1>1, <1>2, <2>1, <2>2 DEF TakeLive
  <2>4. MainPart'
    BY <2>3 DEF MainPart
  <2> QED
    BY <1>2, <2>4, Kept DEF TypeInv, TakeLive, counts, server
<1>3. ASSUME NEW ok \in BOOLEAN, NEW heard \in BOOLEAN, LiveAnswer(ok, heard)
      PROVE  TypeInv'
  <2>1. [main EXCEPT !.pc = "mark"] \in M
    BY <1>1
  <2>2. main' \in M /\ queue' = queue /\ acks' \in Nat
    <3>1. acks \in Nat
      BY DEF TypeInv, ServerPart
    <3> QED
      BY <1>1, <1>3, <2>1, <3>1 DEF LiveAnswer
  <2>3. MainPart'
    BY <1>1, <2>2 DEF MainPart
  <2>4. ServerPart'
    <3>1. main.id \in Passages
      BY <1>1
    <3>2. accepted' \subseteq accepted \cup {main.id} /\ lost' = lost
      BY <1>3 DEF LiveAnswer
    <3> QED
      BY <2>2, <3>1, <3>2 DEF TypeInv, ServerPart
  <2> QED
    BY <1>3, <2>3, <2>4, Kept DEF TypeInv, LiveAnswer, counts
<1>4. CASE LiveMark
  <2>1. MainPart'
    BY <1>1, <1>4 DEF MainPart, LiveMark
  <2>2. TablePart' /\ Room'
    BY <1>4, MarkedKeeps DEF LiveMark, counts
  <2>3. PostPart'
    <3>1. pictures \in [Posters -> Nat]
      BY DEF TypeInv, PostPart
    <3>2. pictures[Live] + 1 \in Nat
      BY <3>1, UploadAssumption
    <3>3. pictures' \in [Posters -> Nat]
      BY <1>4, <3>1, <3>2 DEF LiveMark
    <3> QED
      BY <1>4, <3>3 DEF LiveMark, TypeInv, PostPart
  <2> QED
    BY <1>4, <2>1, <2>2, <2>3, Kept DEF TypeInv, LiveMark, counts, server
<1> QED
  BY <1>2, <1>3, <1>4 DEF Main

LEMMA SlotType ==
  ASSUME TypeInv, slotManualPushRecords
  PROVE  TypeInv'
<1> USE DEF slotManualPushRecords
<1>1. CountPart'
  BY Bounds DEF TypeInv, CountPart, Within
<1>2. push' \in [Posters -> PushType] /\ \A p \in Posters : push'[p].batch = push[p].batch
  <2>1. push[Manual] \in PushType
    BY UploadAssumption DEF TypeInv, PostPart
  <2>2. [push[Manual] EXCEPT !.dated = TRUE] \in PushType
    BY <2>1 DEF PushType
  <2> QED
    BY <2>1, <2>2 DEF TypeInv, PostPart, PushType
<1>3. PostPart'
  BY <1>2 DEF TypeInv, PostPart
<1> QED
  BY <1>1, <1>3, Kept DEF TypeInv

\* What the steps of the posting objects share: the other parts of the state
\* are theirs to read only.
LEMMA PosterKeeps ==
  ASSUME TypeInv, PostPart', ServerPart', TablePart', Room',
         UNCHANGED << writer, main, queue, counts >>
  PROVE  TypeInv'
  BY Kept DEF TypeInv

\* One object changes its post or its push, and the rest stays typed.
LEMMA OnePoster ==
  ASSUME TypeInv, NEW p \in Posters,
         NEW a \in PostType, NEW b \in PushType,
         a.pc = "send" => DOMAIN b.batch # {},
         post' = [post EXCEPT ![p] = a], push' = [push EXCEPT ![p] = b],
         pictures' \in [Posters -> Nat], manual' \in [Posters -> BOOLEAN]
  PROVE  PostPart'
  BY DEF TypeInv, PostPart

LEMMA PosterTyped ==
  ASSUME TypeInv, NEW p \in Posters
  PROVE  /\ post[p] \in PostType /\ push[p] \in PushType
         /\ pictures[p] \in Nat /\ manual[p] \in BOOLEAN
         /\ post = [post EXCEPT ![p] = post[p]]
         /\ push = [push EXCEPT ![p] = push[p]]
  BY DEF TypeInv, PostPart

LEMMA AutoPostType ==
  ASSUME TypeInv, NEW p \in Posters, AutoPost(p)
  PROVE  TypeInv'
<1> DEFINE r == Newest(ToUpload)
           as(pc) == [pc |-> pc, id |-> table[r].id, rid |-> r]
<1>1. r \in DOMAIN table
  <2>1. ToUpload \in SUBSET Rid /\ ToUpload # {}
    BY DEF TypeInv, TablePart, ToUpload, AutoPost
  <2> QED
    BY <2>1, NewestOf DEF ToUpload
<1> HIDE DEF r
<1>2. r \in Rid /\ table[r].id \in Passages
  BY <1>1 DEF TypeInv, TablePart, RowType
<1>3. as("mark") \in PostType /\ as("sent") \in PostType
  BY <1>2 DEF PostType
<1>4. /\ post' = [post EXCEPT ![p] = as("mark")] \/ post' = [post EXCEPT ![p] = as("sent")]
      /\ push' = [push EXCEPT ![p] = push[p]] /\ manual' = manual
  BY PosterTyped DEF AutoPost, Posting, r
<1>5. pictures' \in [Posters -> Nat]
  <2>1. CASE pictures[p] > 0
    <3>1. pictures' = [pictures EXCEPT ![p] = pictures[p] - 1]
      BY <2>1 DEF AutoPost
    <3>2. pictures[p] - 1 \in Nat
      BY <2>1, PosterTyped
    <3> QED
      BY <3>1, <3>2 DEF TypeInv, PostPart
  <2>2. CASE ~(pictures[p] > 0)
    BY <2>2 DEF TypeInv, PostPart, AutoPost
  <2> QED
    BY <2>1, <2>2
<1>6. PostPart'
  <2>1. push[p] \in PushType /\ manual' \in [Posters -> BOOLEAN]
    BY <1>4, PosterTyped DEF TypeInv, PostPart
  <2>2. as("mark").pc # "send" /\ as("sent").pc # "send"
    OBVIOUS
  <2> QED
    BY <1>3, <1>4, <1>5, <2>1, <2>2, OnePoster
<1>7. UNCHANGED << table, writer, main, queue, counts, server, lost >>
  BY DEF AutoPost
<1> QED
  BY <1>6, <1>7, Kept, PosterKeeps DEF counts

LEMMA StartPushType ==
  ASSUME TypeInv, NEW p \in Posters, StartPush(p)
  PROVE  TypeInv'
<1> DEFINE total == IF push[p].dated THEN Cardinality(DOMAIN table) ELSE 0
           b == [push[p] EXCEPT !.on = TRUE, !.done = 0, !.batch = NoRows, !.failed = FALSE,
                                !.total = total, !.first = {table[r].id : r \in DOMAIN table}]
           a == [post[p] EXCEPT !.pc = "page"]
<1>1. total \in Nat
  <2>1. Cardinality(DOMAIN table) \in Nat
    BY RidsFinite, FS_CardinalityType DEF TypeInv, TablePart
  <2> QED
    BY <2>1
<1>2. {table[r].id : r \in DOMAIN table} \in SUBSET Passages
  BY DEF TypeInv, TablePart, RowType
<1>3. post' = [post EXCEPT ![p] = a] /\ push' = [push EXCEPT ![p] = b]
  BY DEF StartPush
<1> HIDE DEF total
<1>4. b \in PushType
  BY <1>1, <1>2, PosterTyped, EmptyBatch DEF PushType
<1>5. a \in PostType /\ a.pc # "send"
  BY PosterTyped DEF PostType
<1> HIDE DEF a, b
<1>6. PostPart'
  <2>1. pictures' \in [Posters -> Nat] /\ manual' \in [Posters -> BOOLEAN]
    BY DEF StartPush, TypeInv, PostPart
  <2> QED
    BY <1>3, <1>4, <1>5, <2>1, OnePoster
<1>7. UNCHANGED << table, writer, main, queue, counts, server, lost >>
  BY DEF StartPush
<1> QED
  BY <1>6, <1>7, Kept, PosterKeeps DEF counts

LEMMA FetchPageType ==
  ASSUME TypeInv, NEW p \in Posters, FetchPage(p)
  PROVE  TypeInv'
<1> DEFINE rows == [r \in NextPage(p) |-> table[r].id]
           b == [push[p] EXCEPT !.batch = rows]
           a == [post[p] EXCEPT !.pc = "send"]
<1>1. NextPage(p) \subseteq DOMAIN table /\ NextPage(p) # {}
  BY DEF FetchPage, PushOver, NextPage, Page
<1>2. rows \in Batch
  <2>1. NextPage(p) \in SUBSET Rid /\ \A r \in NextPage(p) : table[r].id \in Passages
    BY <1>1 DEF TypeInv, TablePart, RowType
  <2>2. rows \in [NextPage(p) -> Passages]
    BY <2>1
  <2> QED
    BY <2>1, <2>2 DEF Batch
<1>3. DOMAIN rows # {}
  BY <1>1
<1>4. post' = [post EXCEPT ![p] = a] /\ push' = [push EXCEPT ![p] = b]
  BY DEF FetchPage
<1> HIDE DEF rows
<1>5. b \in PushType /\ b.batch = rows
  BY <1>2, PosterTyped DEF PushType
<1>6. a \in PostType
  BY PosterTyped DEF PostType
<1> HIDE DEF a, b
<1>7. PostPart'
  <2>1. pictures' \in [Posters -> Nat] /\ manual' \in [Posters -> BOOLEAN]
    BY DEF FetchPage, TypeInv, PostPart
  <2> QED
    BY <1>3, <1>4, <1>5, <1>6, <2>1, OnePoster
<1>8. UNCHANGED << table, writer, main, queue, counts, server, lost >>
  BY DEF FetchPage
<1> QED
  BY <1>7, <1>8, Kept, PosterKeeps DEF counts

\* The row posted next is one of the batch, since a batch being sent has one.
LEMMA NextOfBatch ==
  ASSUME TypeInv, NEW p \in Posters, post[p].pc = "send"
  PROVE  /\ Newest(DOMAIN push[p].batch) \in DOMAIN push[p].batch
         /\ push[p].batch \in Batch
         /\ DOMAIN push[p].batch \subseteq Rid
         /\ \A s \in DOMAIN push[p].batch : push[p].batch[s] \in Passages
<1>1. push[p].batch \in Batch
  BY PosterTyped DEF PushType
<1>2. DOMAIN push[p].batch # {}
  BY DEF TypeInv, PostPart
<1> QED
  BY <1>1, <1>2, BatchRows, NewestOf

LEMMA PushNextType ==
  ASSUME TypeInv, NEW p \in Posters, PushNext(p)
  PROVE  TypeInv'
<1> DEFINE old == push[p].batch
           r == Newest(DOMAIN old)
           rows == [s \in DOMAIN old \ {r} |-> old[s]]
           b == [push[p] EXCEPT !.batch = rows]
           a == [pc |-> "sent", id |-> old[r], rid |-> r]
<1>1. /\ r \in DOMAIN old /\ DOMAIN old \subseteq Rid
      /\ \A s \in DOMAIN old : old[s] \in Passages
  BY NextOfBatch DEF PushNext
<1>2. post' = [post EXCEPT ![p] = a] /\ push' = [push EXCEPT ![p] = b]
  BY DEF PushNext
<1> HIDE DEF r, old
<1>3. rows \in Batch
  <2>1. DOMAIN old \ {r} \in SUBSET Rid /\ rows \in [DOMAIN old \ {r} -> Passages]
    BY <1>1
  <2> QED
    BY <2>1 DEF Batch
<1>4. a \in PostType /\ a.pc # "send"
  BY <1>1 DEF PostType
<1> HIDE DEF rows
<1>5. b \in PushType
  BY <1>3, PosterTyped DEF PushType
<1> HIDE DEF a, b
<1>6. PostPart'
  <2>1. pictures' \in [Posters -> Nat] /\ manual' \in [Posters -> BOOLEAN]
    BY DEF PushNext, TypeInv, PostPart
  <2> QED
    BY <1>2, <1>4, <1>5, <2>1, OnePoster
<1>7. UNCHANGED << table, writer, main, queue, counts, server, lost >>
  BY DEF PushNext
<1> QED
  BY <1>6, <1>7, Kept, PosterKeeps DEF counts

LEMMA FinishPushType ==
  ASSUME TypeInv, NEW p \in Posters, FinishPush(p)
  PROVE  TypeInv'
<1> DEFINE b == [NoPush EXCEPT !.dated = push[p].dated]
<1>1. b \in PushType
  BY RestingType, PosterTyped DEF PushType
<1>2. NoPost.pc # "send"
  BY DEF NoPost
<1>3. post' = [post EXCEPT ![p] = NoPost] /\ push' = [push EXCEPT ![p] = b]
  BY DEF FinishPush
<1> HIDE DEF b
<1>4. PostPart'
  <2>1. pictures' \in [Posters -> Nat] /\ manual' \in [Posters -> BOOLEAN]
    BY DEF FinishPush, TypeInv, PostPart
  <2> QED
    BY <1>1, <1>2, <1>3, <2>1, RestingType, OnePoster
<1>5. UNCHANGED << table, writer, main, queue, counts, server, lost >>
  BY DEF FinishPush
<1> QED
  BY <1>4, <1>5, Kept, PosterKeeps DEF counts

\* After an answer an object sends only if its batch has rows left.
LEMMA ContinueType ==
  ASSUME TypeInv, NEW p \in Posters, NEW failed \in BOOLEAN, Continue(p, failed),
         pictures' = pictures, manual' = manual
  PROVE  PostPart'
<1>1. pictures' \in [Posters -> Nat] /\ manual' \in [Posters -> BOOLEAN]
  BY DEF TypeInv, PostPart
<1>2. CASE push[p].on
  <2> DEFINE empty == DOMAIN push[p].batch = {}
             a == [NoPost EXCEPT !.pc = IF empty THEN "page" ELSE "send"]
             b == [push[p] EXCEPT !.done = push[p].done + 1,
                                  !.failed = push[p].failed \/ failed]
  <2>1. push' = [push EXCEPT ![p] = b] /\ post' = [post EXCEPT ![p] = a]
    BY <1>2 DEF Continue, TypeInv, PostPart, PushType
  <2>2. b \in PushType /\ b.batch = push[p].batch
    <3>1. push[p] \in PushType
      BY PosterTyped
    <3>2. (push[p].failed \/ failed) \in BOOLEAN
      OBVIOUS
    <3>3. push[p].done + 1 \in Nat
      BY <3>1 DEF PushType
    <3> QED
      BY <3>1, <3>2, <3>3 DEF PushType
  <2>3. a \in PostType /\ (a.pc = "send" => ~empty)
    <3>1. CASE empty
      BY <3>1, RestingType DEF PostType, NoPost
    <3>2. CASE ~empty
      BY <3>2, RestingType DEF PostType, NoPost
    <3> QED
      BY <3>1, <3>2
  <2>4. a.pc = "send" => DOMAIN b.batch # {}
    BY <2>2, <2>3
  <2> HIDE DEF a, b
  <2> QED
    BY <1>1, <2>1, <2>2, <2>3, <2>4, OnePoster
<1>3. CASE ~push[p].on
  <2>1. post' = [post EXCEPT ![p] = NoPost] /\ push' = [push EXCEPT ![p] = push[p]]
    BY <1>3, PosterTyped DEF Continue
  <2>2. NoPost.pc # "send"
    BY DEF NoPost
  <2> QED
    BY <1>1, <2>1, <2>2, PosterTyped, RestingType, OnePoster
<1> QED
  BY <1>2, <1>3

LEMMA AnswerType ==
  ASSUME TypeInv, NEW p \in Posters, NEW ok \in BOOLEAN, NEW heard \in BOOLEAN,
         Answer(p, ok, heard)
  PROVE  TypeInv'
<1>1. PostPart'
  <2>1. pictures' = pictures /\ manual' = manual
    BY DEF Answer
  <2>2. CASE Done(ok, heard)
    <3> DEFINE a == [post[p] EXCEPT !.pc = "mark"]
    <3>1. post' = [post EXCEPT ![p] = a] /\ push' = [push EXCEPT ![p] = push[p]]
      BY <2>2, PosterTyped DEF Answer
    <3>2. a \in PostType /\ a.pc # "send"
      BY PosterTyped DEF PostType
    <3>3. pictures' \in [Posters -> Nat] /\ manual' \in [Posters -> BOOLEAN]
      BY <2>1 DEF TypeInv, PostPart
    <3> HIDE DEF a
    <3> QED
      BY <3>1, <3>2, <3>3, PosterTyped, OnePoster
  <2>3. CASE ~Done(ok, heard)
    BY <2>1, <2>3, ContinueType DEF Answer
  <2> QED
    BY <2>2, <2>3
<1>2. ServerPart'
  <2>1. post[p].id \in Passages
    BY PosterTyped DEF PostType
  <2>2. accepted' \subseteq accepted \cup {post[p].id} /\ acks' = acks /\ lost' = lost
    BY DEF Answer
  <2> QED
    BY <2>1, <2>2 DEF TypeInv, ServerPart
<1>3. UNCHANGED << table, writer, main, queue, counts >>
  BY DEF Answer
<1> QED
  BY <1>1, <1>2, <1>3, Kept, PosterKeeps DEF counts

LEMMA MarkRowType ==
  ASSUME TypeInv, NEW p \in Posters, MarkRow(p)
  PROVE  TypeInv'
<1>1. PostPart'
  BY ContinueType DEF MarkRow
<1>2. TablePart' /\ Room'
  BY MarkedKeeps DEF MarkRow, counts
<1>3. UNCHANGED << writer, main, queue, counts, server, lost >>
  BY DEF MarkRow
<1> QED
  BY <1>1, <1>2, <1>3, Kept, PosterKeeps

LEMMA TypeStep == TypeInv /\ [Next]_vars => TypeInv'
<1> SUFFICES ASSUME TypeInv, [Next]_vars PROVE TypeInv'
  OBVIOUS
<1>1. ASSUME NEW k \in Kinds, slotappRecordData(k) PROVE TypeInv'
  BY <1>1, PassageType
<1>2. CASE appDoorRecordData
  BY <1>2, DoorType
<1>3. ASSUME NEW w \in Writers, Writer(w) PROVE TypeInv'
  BY <1>3, ReadType, InsertType DEF Writer
<1>4. ASSUME NEW rids \in SUBSET DOMAIN table, Delete(rids) PROVE TypeInv'
  BY <1>4, DeleteType
<1>5. CASE Main
  BY <1>5, MainType
<1>6. CASE slotManualPushRecords
  BY <1>6, SlotType
<1>7. ASSUME NEW p \in Posters, Poster(p) PROVE TypeInv'
  BY <1>7, AutoPostType, StartPushType, FetchPageType, PushNextType, FinishPushType,
     MarkRowType, AnswerType DEF Poster
<1>8. CASE UNCHANGED vars
  BY <1>8, Kept DEF TypeInv, vars, code, counts
<1> QED
  BY <1>1, <1>2, <1>3, <1>4, <1>5, <1>6, <1>7, <1>8 DEF Next

LEMMA TypeHolds == TypeInv => TypeOK
<1> SUFFICES ASSUME TypeInv PROVE TypeOK
  OBVIOUS
<1>1. ASSUME NEW p \in Posters
      PROVE  /\ push[p].on \in BOOLEAN /\ push[p].dated \in BOOLEAN
             /\ push[p].total \in Nat /\ push[p].done \in Nat
             /\ DOMAIN push[p].batch \subseteq Rid
             /\ push[p].first \subseteq Passages
  <2>1. push[p] \in PushType
    BY PosterTyped
  <2>2. DOMAIN push[p].batch \subseteq Rid
    BY <2>1, BatchRows DEF PushType
  <2> QED
    BY <2>1, <2>2 DEF PushType
<1> QED
  BY <1>1 DEF TypeOK, TypeInv, TablePart, WriterPart, MainPart, PostPart, ServerPart,
              RowType, WriterType, PostType

\* Every record, number and batch stays in its range; in particular no row gets
\* a number above twice the number of passages and door buttons, whatever the
\* two storing threads, deletions and pushes do.
THEOREM TypeCorrect == Spec => []TypeOK
<1>1. Spec => []TypeInv
  BY TypeStart, TypeStep, PTL DEF Spec
<1> QED
  BY <1>1, TypeHolds, PTL

-----------------------------------------------------------------------------
(* Rows refused by the table *)

\* The main thread is in the door button exactly as long as it has a row to
\* store, and that is one row only.
DoorPart ==
  /\ main.pc = "door" <=> writer["main"].pc # "idle"
  /\ writer["main"].left <= 1

InDoor == IF main.pc = "door" THEN 1 ELSE 0
Taken(rid) == writer["records"].pc = "insert" /\ rid \in DOMAIN table
Doomed == IF Taken(writer["records"].rid) THEN 1 ELSE 0

\* A row is refused only to a door button, or after a door button took the
\* number the other thread had read: each door button pays once.
LostPart == Cardinality(lost) + InDoor + Doomed <= doors

LostInv == DoorPart /\ LostPart

LEMMA LostStart == Init => LostInv
<1> SUFFICES ASSUME Init PROVE LostInv
  OBVIOUS
<1>1. DoorPart
  BY DEF Init, DoorPart, Quiet, Resting, Writers
<1>2. Cardinality(lost) = 0 /\ InDoor = 0 /\ Doomed = 0
  BY FS_EmptySet DEF Init, InDoor, Doomed, Taken, Quiet, Resting, Writers
<1> QED
  BY <1>1, <1>2 DEF Init, LostInv, LostPart

LEMMA LostType ==
  ASSUME TypeInv
  PROVE  /\ IsFiniteSet(lost) /\ Cardinality(lost) \in Nat
         /\ doors \in Nat /\ InDoor \in 0 .. 1 /\ Doomed \in 0 .. 1
<1>1. IsFiniteSet(Passages)
  BY FS_Interval, Bounds
<1>2. IsFiniteSet(lost)
  BY <1>1, FS_Subset DEF TypeInv, ServerPart
<1>3. InDoor \in 0 .. 1 /\ Doomed \in 0 .. 1
  BY DEF InDoor, Doomed
<1> QED
  BY <1>2, <1>3, FS_CardinalityType DEF TypeInv, CountPart

\* A step that stores nothing and takes no number from a row.
LEMMA LostKept ==
  ASSUME TypeInv, LostInv, UNCHANGED << writer, lost, doors >>,
         DOMAIN table' \subseteq DOMAIN table,
         main'.pc = "door" <=> main.pc = "door"
  PROVE  LostInv'
<1>1. DoorPart'
  BY DEF LostInv, DoorPart
<1>2. InDoor' = InDoor
  BY DEF InDoor
<1>3. Doomed' <= Doomed /\ Doomed' \in 0 .. 1
  BY DEF Doomed, Taken
<1> QED
  BY <1>1, <1>2, <1>3, LostType DEF LostInv, LostPart

LEMMA LostPassage ==
  ASSUME TypeInv, LostInv, NEW k \in Kinds, slotappRecordData(k)
  PROVE  LostInv'
<1>1. /\ writer'["main"] = writer["main"] /\ writer["records"].pc = "idle"
      /\ writer'["records"].pc # "insert"
  <2> DEFINE rows == IF k = "stranger" THEN StrangerRows
                     ELSE IF k = "bare" /\ MustFace THEN 0 ELSE 1
             one == [pc |-> "number", id |-> NewId, rid |-> 0, left |-> rows]
  <2>1. writer' = IF rows = 0 THEN writer ELSE [writer EXCEPT !["records"] = one]
    BY DEF slotappRecordData
  <2>2. writer["records"].pc = "idle" /\ one.pc = "number"
    BY DEF slotappRecordData
  <2> HIDE DEF rows, one
  <2> QED
    BY <2>1, <2>2 DEF TypeInv, WriterPart, Writers
<1>2. /\ UNCHANGED << main, lost, doors, table >>
  BY DEF slotappRecordData
<1>3. DoorPart' /\ InDoor' = InDoor /\ Doomed' = 0
  BY <1>1, <1>2 DEF LostInv, DoorPart, InDoor, Doomed, Taken
<1> QED
  BY <1>2, <1>3, LostType DEF LostInv, LostPart

LEMMA LostDoor ==
  ASSUME TypeInv, LostInv, appDoorRecordData
  PROVE  LostInv'
<1>1. /\ main.pc = "idle" /\ main'.pc = "door" /\ doors' = doors + 1
      /\ UNCHANGED << table, lost >>
  BY DEF appDoorRecordData, TypeInv, MainPart
<1>2. /\ writer'["main"].pc = "number" /\ writer'["main"].left = 1
      /\ writer'["records"] = writer["records"]
  BY DEF appDoorRecordData, TypeInv, WriterPart, Writers
<1>3. DoorPart'
  BY <1>1, <1>2 DEF DoorPart
<1>4. InDoor = 0 /\ InDoor' = 1 /\ Doomed' = Doomed
  BY <1>1, <1>2 DEF InDoor, Doomed, Taken
<1> QED
  BY <1>1, <1>3, <1>4, LostType DEF LostInv, LostPart

LEMMA LostRead ==
  ASSUME TypeInv, LostInv, NEW w \in Writers, ReadNumber(w)
  PROVE  LostInv'
<1> DEFINE one == [writer[w] EXCEPT !.pc = "insert", !.rid = MaxRid]
<1>1. writer[w] \in WriterType /\ writer[w].pc = "number"
  BY DEF ReadNumber, TypeInv, WriterPart
<1>2. one.pc = "insert" /\ one.rid = MaxRid /\ one.left = writer[w].left
  BY <1>1 DEF WriterType
<1>3. writer' = [writer EXCEPT ![w] = one]
  BY DEF ReadNumber, TypeInv, WriterPart
<1> HIDE DEF one
<1>4. writer'[w] = one /\ \A v \in Writers \ {w} : writer'[v] = writer[v]
  BY <1>3 DEF TypeInv, WriterPart
<1>5. UNCHANGED << table, main, lost, doors >>
  BY DEF ReadNumber, counts
<1>6. DoorPart' /\ InDoor' = InDoor
  BY <1>1, <1>2, <1>4, <1>5 DEF LostInv, DoorPart, InDoor, Writers
<1>7. Doomed' <= Doomed /\ Doomed' \in 0 .. 1
  <2>1. CASE w = "records"
    BY <1>2, <1>4, <1>5, <2>1, MaxRidAbove DEF Doomed, Taken, TypeInv
  <2>2. CASE w = "main"
    BY <1>4, <1>5, <2>2 DEF Doomed, Taken, Writers
  <2> QED
    BY <2>1, <2>2 DEF Writers
<1> QED
  BY <1>5, <1>6, <1>7, LostType DEF LostInv, LostPart

LEMMA LostInsert ==
  ASSUME TypeInv, LostInv, NEW w \in Writers, Insert(w)
  PROVE  LostInv'
<1> DEFINE rid == writer[w].rid
           id == writer[w].id
           next == IF writer[w].left > 1
                   THEN [writer[w] EXCEPT !.pc = "number", !.left = writer[w].left - 1]
                   ELSE Resting
<1>1. writer' = [writer EXCEPT ![w] = next]
  BY DEF Insert, TypeInv, WriterPart
<1>2. /\ writer[w].pc = "insert" /\ main' = IF w = "main" THEN Quiet ELSE main
      /\ doors' = doors
  BY DEF Insert, counts
<1>3. writer[w] \in WriterType
  BY DEF TypeInv, WriterPart
<1>4. next.pc # "insert" /\ (writer[w].left <= 1 => next = Resting)
  <2>1. writer[w].left \in 0 .. 2
    BY <1>3 DEF WriterType
  <2>2. CASE writer[w].left > 1
    BY <1>3, <2>1, <2>2 DEF WriterType
  <2>3. CASE ~(writer[w].left > 1)
    BY <2>3 DEF Resting
  <2> QED
    BY <2>1, <2>2, <2>3
<1> HIDE DEF next
<1>5. writer'[w] = next /\ \A v \in Writers \ {w} : writer'[v] = writer[v]
  BY <1>1 DEF TypeInv, WriterPart
<1>6. DoorPart'
  <2>1. CASE w = "main"
    BY <1>2, <1>4, <1>5, <2>1 DEF LostInv, DoorPart, Quiet, Resting
  <2>2. CASE w = "records"
    BY <1>2, <1>5, <2>2 DEF LostInv, DoorPart, Writers
  <2> QED
    BY <2>1, <2>2 DEF Writers
<1>7. CASE rid \in DOMAIN table
  <2>1. table' = table /\ lost' = lost \cup {id}
    BY <1>7 DEF Insert
  <2>2. Cardinality(lost') <= Cardinality(lost) + 1 /\ Cardinality(lost') \in Nat
    <3>1. IsFiniteSet(lost) /\ Cardinality(lost) \in Nat
      BY LostType
    <3>2. Cardinality(lost \cup {id})
            = IF id \in lost THEN Cardinality(lost) ELSE Cardinality(lost) + 1
      BY <3>1, FS_AddElement
    <3>3. lost' = lost \cup {id}
      BY <2>1
    <3> HIDE DEF id
    <3> QED
      BY <3>1, <3>2, <3>3
  <2>3. InDoor' + Doomed' + 1 <= InDoor + Doomed
    <3>1. CASE w = "main"
      <4>1. InDoor = 1 /\ InDoor' = 0
        BY <1>2, <3>1 DEF InDoor, LostInv, DoorPart, Quiet
      <4>2. Doomed' = Doomed
        BY <1>5, <2>1, <3>1 DEF Doomed, Taken, Writers
      <4> QED
        BY <4>1, <4>2, LostType
    <3>2. CASE w = "records"
      <4>1. InDoor' = InDoor
        BY <1>2, <3>2 DEF InDoor
      <4>2. Doomed = 1 /\ Doomed' = 0
        BY <1>2, <1>4, <1>5, <1>7, <3>2 DEF Doomed, Taken
      <4> QED
        BY <4>1, <4>2, LostType
    <3> QED
      BY <3>1, <3>2 DEF Writers
  <2>4. InDoor' \in 0 .. 1 /\ Doomed' \in 0 .. 1
    BY DEF InDoor, Doomed
  <2>5. LostPart'
    BY <1>2, <2>2, <2>3, <2>4, LostType DEF LostInv, LostPart
  <2> QED
    BY <1>6, <2>5 DEF LostInv
<1>8. CASE rid \notin DOMAIN table
  <2>1. lost' = lost
    BY <1>8 DEF Insert
  <2>2. InDoor' + Doomed' <= InDoor + Doomed
    <3>1. CASE w = "main"
      <4>1. InDoor = 1 /\ InDoor' = 0
        BY <1>2, <3>1 DEF InDoor, LostInv, DoorPart, Quiet
      <4>2. Doomed' \in 0 .. 1
        BY DEF Doomed
      <4> QED
        BY <4>1, <4>2, LostType
    <3>2. CASE w = "records"
      <4>1. InDoor' = InDoor
        BY <1>2, <3>2 DEF InDoor
      <4>2. Doomed' = 0
        BY <1>4, <1>5, <3>2 DEF Doomed, Taken
      <4> QED
        BY <4>1, <4>2, LostType
    <3> QED
      BY <3>1, <3>2 DEF Writers
  <2>3. InDoor' \in 0 .. 1 /\ Doomed' \in 0 .. 1
    BY DEF InDoor, Doomed
  <2>4. LostPart'
    BY <1>2, <2>1, <2>2, <2>3, LostType DEF LostInv, LostPart
  <2> QED
    BY <1>6, <2>4 DEF LostInv
<1> QED
  BY <1>7, <1>8

LEMMA LostStep == TypeInv /\ LostInv /\ [Next]_vars => LostInv'
<1> SUFFICES ASSUME TypeInv, LostInv, [Next]_vars PROVE LostInv'
  OBVIOUS
<1>1. ASSUME NEW k \in Kinds, slotappRecordData(k) PROVE LostInv'
  BY <1>1, LostPassage
<1>2. CASE appDoorRecordData
  BY <1>2, LostDoor
<1>3. ASSUME NEW w \in Writers, Writer(w) PROVE LostInv'
  BY <1>3, LostRead, LostInsert DEF Writer
<1>4. ASSUME NEW rids \in SUBSET DOMAIN table, Delete(rids) PROVE LostInv'
  <2>1. DOMAIN table' \subseteq DOMAIN table
    BY <1>4 DEF Delete
  <2> QED
    BY <1>4, <2>1, LostKept DEF Delete
<1>5. CASE Main
  <2>1. CASE TakeLive
    <3>1. main.pc = "idle" /\ main'.pc # "door"
      BY <2>1 DEF TakeLive
    <3> QED
      BY <2>1, <3>1, LostKept DEF TakeLive, counts
  <2>2. ASSUME NEW ok \in BOOLEAN, NEW heard \in BOOLEAN, LiveAnswer(ok, heard)
        PROVE  LostInv'
    <3>1. main.pc = "post" /\ main'.pc # "door"
      BY <2>2 DEF LiveAnswer, Quiet, TypeInv, MainPart
    <3> QED
      BY <2>2, <3>1, LostKept DEF LiveAnswer, counts
  <2>3. CASE LiveMark
    <3>1. main.pc = "mark" /\ main'.pc # "door"
      BY <2>3 DEF LiveMark, Quiet
    <3>2. DOMAIN table' = DOMAIN table
      BY <2>3, MarkedRows DEF LiveMark, TypeInv
    <3> QED
      BY <2>3, <3>1, <3>2, LostKept DEF LiveMark, counts
  <2> QED
    BY <1>5, <2>1, <2>2, <2>3 DEF Main
<1>6. CASE slotManualPushRecords
  BY <1>6, LostKept DEF slotManualPushRecords
<1>7. ASSUME NEW p \in Posters, Poster(p) PROVE LostInv'
  <2>1. UNCHANGED << writer, main, lost, doors >>
    BY <1>7 DEF Poster, AutoPost, StartPush, FetchPage, PushNext, FinishPush, MarkRow,
                Answer, counts
  <2>2. DOMAIN table' = DOMAIN table
    BY <1>7, MarkedRows DEF Poster, AutoPost, StartPush, FetchPage, PushNext, FinishPush,
                            MarkRow, Answer, TypeInv
  <2> QED
    BY <2>1, <2>2, LostKept
<1>8. CASE UNCHANGED vars
  BY <1>8, LostKept DEF vars, code, counts
<1> QED
  BY <1>1, <1>2, <1>3, <1>4, <1>5, <1>6, <1>7, <1>8 DEF Next

\* Of all rows the two threads store without a common lock, the table refuses
\* at most as many as there were door buttons (appDoorRecordData).
THEOREM LostRows == Spec => []LostRowsBounded
<1>1. TypeInv /\ LostInv => LostRowsBounded
  BY LostType DEF LostInv, LostPart, LostRowsBounded
<1>2. Spec => [](TypeInv /\ LostInv)
  BY TypeStart, TypeStep, LostStart, LostStep, PTL DEF Spec
<1> QED
  BY <1>1, <1>2, PTL

-----------------------------------------------------------------------------
(* Rows marked without having been accepted *)

\* Number r is still that of passage i in table t, or it has been deleted once.
Known(t, D, r, i) == r \in D \/ (r \in DOMAIN t /\ t[r].id = i)

\* A post is of the row it was read from, and is marked if the server accepted
\* it, or if its number was deleted (D) or acknowledged for another (A).
PostOK(t, acc, D, A, x) ==
  /\ x.pc \in {"sent", "mark"} => Known(t, D, x.rid, x.id)
  /\ x.pc = "mark" => x.id \in acc \/ x.rid \in D \cup A

BatchOK(t, D, b) == \A r \in DOMAIN b : Known(t, D, r, b[r])

PostsSound(D, A) ==
  \A p \in Posters : /\ PostOK(table, accepted, D, A, post[p])
                      /\ BatchOK(table, D, push[p].batch)

InMark == IF main.pc = "mark" THEN 2 ELSE 0

\* Deleted numbers are paid for by deletions, the others by acknowledgements:
\* one pays for row 0 and for an entry of picList.
Paid(D, A) ==
  /\ Cardinality(D) <= deletions
  /\ Cardinality(A) + pictures[Live] + InMark <= 2 * acks
  /\ \A p \in Posters \ {Live} : pictures[p] = 0

MarkInv(D, A) == Paid(D, A) /\ Wrong \subseteq D \cup A /\ PostsSound(D, A)

WrongInv == \E D, A \in SUBSET Rid : MarkInv(D, A)

LEMMA WrongStart == Init => WrongInv
<1> SUFFICES ASSUME Init PROVE MarkInv({}, {})
  BY DEF WrongInv
<1>1. Cardinality({}) = 0
  BY FS_EmptySet
<1>2. pictures[Live] = 0 /\ InMark = 0
  BY UploadAssumption DEF Init, InMark, Quiet
<1>3. Paid({}, {})
  BY <1>1, <1>2 DEF Init, Paid
<1>4. Wrong = {}
  BY DEF Init, Wrong
<1>5. PostsSound({}, {})
  <2>1. ASSUME NEW p \in Posters
        PROVE  PostOK(table, accepted, {}, {}, post[p]) /\ BatchOK(table, {}, push[p].batch)
    <3>1. post[p] = NoPost /\ push[p] = NoPush
      BY DEF Init
    <3> QED
      BY <3>1, EmptyBatch DEF PostOK, BatchOK, NoPost, NoPush
  <2> QED
    BY <2>1 DEF PostsSound
<1> QED
  BY <1>3, <1>4, <1>5 DEF MarkInv

LEMMA PaidType ==
  ASSUME TypeInv, NEW D \in SUBSET Rid, NEW A \in SUBSET Rid
  PROVE  /\ IsFiniteSet(D) /\ IsFiniteSet(A)
         /\ Cardinality(D) \in Nat /\ Cardinality(A) \in Nat
         /\ pictures[Live] \in Nat /\ acks \in Nat /\ deletions \in Nat
         /\ InMark \in {0, 2}
<1>1. IsFiniteSet(D) /\ IsFiniteSet(A)
  BY RidsFinite
<1>2. pictures[Live] \in Nat /\ acks \in Nat /\ deletions \in Nat
  BY UploadAssumption DEF TypeInv, PostPart, ServerPart, CountPart
<1>3. InMark \in {0, 2}
  BY DEF InMark
<1> QED
  BY <1>1, <1>2, <1>3, FS_CardinalityType

\* From table t to table u every number keeps its passage or is in D.
Grows(t, u, D) == \A r \in DOMAIN t : r \in D \/ (r \in DOMAIN u /\ u[r].id = t[r].id)

LEMMA GrowsSame == ASSUME NEW t, NEW D PROVE Grows(t, t, D)
  BY DEF Grows

LEMMA GrowsMarked ==
  ASSUME TypeInv, NEW rid, NEW D
  PROVE  Grows(table, Marked(rid), D)
  BY MarkedRows DEF TypeInv, Grows

LEMMA PostCarried ==
  ASSUME NEW t, NEW u, NEW acc, NEW bcc, NEW D, NEW E, NEW A, NEW B, NEW x,
         Grows(t, u, E), D \subseteq E, A \subseteq B, acc \subseteq bcc,
         PostOK(t, acc, D, A, x)
  PROVE  PostOK(u, bcc, E, B, x)
  BY DEF Grows, PostOK, Known

LEMMA BatchCarried ==
  ASSUME NEW t, NEW u, NEW D, NEW E, NEW b,
         Grows(t, u, E), D \subseteq E, BatchOK(t, D, b)
  PROVE  BatchOK(u, E, b)
  BY DEF Grows, BatchOK, Known

LEMMA PostsKept ==
  ASSUME NEW D, NEW E, NEW A, NEW B, PostsSound(D, A),
         Grows(table, table', E), D \subseteq E, A \subseteq B, accepted \subseteq accepted',
         post' = post, \A p \in Posters : push'[p].batch = push[p].batch
  PROVE  PostsSound(E, B)'
<1>1. ASSUME NEW p \in Posters
      PROVE  /\ PostOK(table', accepted', E, B, post'[p])
             /\ BatchOK(table', E, push'[p].batch)
  <2>1. PostOK(table, accepted, D, A, post[p]) /\ BatchOK(table, D, push[p].batch)
    BY DEF PostsSound
  <2>2. PostOK(table', accepted', E, B, post[p])
    BY <2>1, PostCarried
  <2>3. BatchOK(table', E, push[p].batch)
    BY <2>1, BatchCarried
  <2> QED
    BY <2>2, <2>3
<1> QED
  BY <1>1 DEF PostsSound

LEMMA PostsOne ==
  ASSUME TypeInv, NEW D, NEW A, NEW B, PostsSound(D, A), NEW p \in Posters, NEW a, NEW b,
         Grows(table, table', D), A \subseteq B, accepted \subseteq accepted',
         post' = [post EXCEPT ![p] = a], push' = [push EXCEPT ![p] = b],
         PostOK(table', accepted', D, B, a), BatchOK(table', D, b.batch)
  PROVE  PostsSound(D, B)'
<1>1. ASSUME NEW q \in Posters
      PROVE  /\ PostOK(table', accepted', D, B, post'[q])
             /\ BatchOK(table', D, push'[q].batch)
  <2>1. CASE q = p
    BY <2>1 DEF TypeInv, PostPart
  <2>2. CASE q # p
    <3>1. post'[q] = post[q] /\ push'[q] = push[q]
      BY <2>2 DEF TypeInv, PostPart
    <3>2. PostOK(table, accepted, D, A, post[q]) /\ BatchOK(table, D, push[q].batch)
      BY DEF PostsSound
    <3>3. PostOK(table', accepted', D, B, post[q])
      BY <3>2, PostCarried
    <3>4. BatchOK(table', D, push[q].batch)
      BY <3>2, BatchCarried
    <3> QED
      BY <3>1, <3>3, <3>4
  <2> QED
    BY <2>1, <2>2
<1> QED
  BY <1>1 DEF PostsSound

\* Of the rows that are marked in a step at most one is new among the wrong.
LEMMA WrongMarked ==
  ASSUME TypeInv, NEW rid, table' = Marked(rid), accepted' = accepted
  PROVE  /\ Wrong' \subseteq Wrong \cup {rid}
         /\ rid \in Wrong' => rid \in DOMAIN table /\ table[rid].id \notin accepted
  BY MarkedRows DEF Wrong, TypeInv

LEMMA WrongKept ==
  ASSUME table' = table, accepted \subseteq accepted'
  PROVE  Wrong' \subseteq Wrong
  BY DEF Wrong

LEMMA PaidSame ==
  ASSUME NEW D, NEW A, Paid(D, A), UNCHANGED << deletions, pictures, acks >>,
         InMark' = InMark
  PROVE  Paid(D, A)'
  BY DEF Paid

\* A step that has nothing to do with marking.
LEMMA WrongQuiet ==
  ASSUME NEW D \in SUBSET Rid, NEW A \in SUBSET Rid, MarkInv(D, A),
         UNCHANGED << table, accepted, acks, deletions, pictures, post >>,
         InMark' = InMark, \A p \in Posters : push'[p].batch = push[p].batch
  PROVE  WrongInv'
<1>1. Paid(D, A)'
  BY PaidSame DEF MarkInv
<1>2. Wrong' \subseteq D \cup A
  BY WrongKept DEF MarkInv
<1>3. PostsSound(D, A)'
  BY GrowsSame, PostsKept DEF MarkInv
<1> QED
  BY <1>1, <1>2, <1>3 DEF MarkInv, WrongInv

LEMMA WrongInsert ==
  ASSUME TypeInv, DoorPart, NEW w \in Writers, Insert(w),
         NEW D \in SUBSET Rid, NEW A \in SUBSET Rid, MarkInv(D, A)
  PROVE  WrongInv'
<1> DEFINE rid == writer[w].rid
           id == writer[w].id
<1>1. \/ table' = table
      \/ /\ rid \notin DOMAIN table
         /\ table' = [r \in DOMAIN table \cup {rid} |->
                        IF r = rid THEN Row(id, FALSE) ELSE table[r]]
  BY DEF Insert
<1>2. UNCHANGED << accepted, acks, deletions, pictures, post, push >>
  BY DEF Insert, server, counts
<1> HIDE DEF rid, id
<1>3. Grows(table, table', D)
  BY <1>1 DEF Grows
<1>4. Wrong' \subseteq Wrong
  BY <1>1, <1>2 DEF Wrong, Row
<1>5. InMark' = InMark
  <2>1. CASE w = "main"
    <3>1. main.pc # "mark"
      BY <2>1 DEF DoorPart, Insert
    <3>2. main' = Quiet
      BY <2>1 DEF Insert
    <3> QED
      BY <3>1, <3>2 DEF InMark, Quiet
  <2>2. CASE w # "main"
    BY <2>2 DEF InMark, Insert
  <2> QED
    BY <2>1, <2>2
<1>6. Paid(D, A)'
  BY <1>2, <1>5, PaidSame DEF MarkInv
<1>7. PostsSound(D, A)'
  BY <1>2, <1>3, PostsKept DEF MarkInv
<1> QED
  BY <1>4, <1>6, <1>7 DEF MarkInv, WrongInv

\* The deleted numbers join D.
LEMMA WrongDelete ==
  ASSUME TypeInv, NEW rids \in SUBSET DOMAIN table, Delete(rids),
         NEW D \in SUBSET Rid, NEW A \in SUBSET Rid, MarkInv(D, A)
  PROVE  WrongInv'
<1> DEFINE E == D \cup rids
<1>1. rids \in SUBSET Rid /\ E \in SUBSET Rid
  BY DEF TypeInv, TablePart
<1>2. /\ UNCHANGED << accepted, acks, main, pictures, post, push >>
      /\ deletions' = deletions + Cardinality(rids)
      /\ table' = [r \in DOMAIN table \ rids |-> table[r]]
  BY DEF Delete, server
<1>3. Grows(table, table', E)
  BY <1>2 DEF Grows
<1>4. Wrong' \subseteq Wrong
  BY <1>2 DEF Wrong
<1>5. Cardinality(E) <= deletions'
  <2>1. /\ IsFiniteSet(D) /\ IsFiniteSet(rids) /\ Cardinality(rids) \in Nat
        /\ Cardinality(D) \in Nat /\ deletions \in Nat
        /\ Cardinality(D \cap rids) \in Nat
    <3>1. D \cap rids \in SUBSET Rid
      OBVIOUS
    <3> QED
      BY <1>1, <3>1, PaidType, RidsFinite, FS_CardinalityType
  <2>2. Cardinality(E) = Cardinality(D) + Cardinality(rids) - Cardinality(D \cap rids)
    BY <2>1, FS_Union
  <2>3. Cardinality(D) <= deletions
    BY DEF MarkInv, Paid
  <2> HIDE DEF E
  <2> QED
    BY <1>2, <2>1, <2>2, <2>3
<1>6. Paid(E, A)'
  BY <1>2, <1>5 DEF MarkInv, Paid, InMark
<1>7. PostsSound(E, A)'
  BY <1>2, <1>3, PostsKept DEF MarkInv
<1> QED
  BY <1>1, <1>4, <1>6, <1>7 DEF MarkInv, WrongInv

LEMMA WrongLiveAnswer ==
  ASSUME TypeInv, NEW ok \in BOOLEAN, NEW heard \in BOOLEAN, LiveAnswer(ok, heard),
         NEW D \in SUBSET Rid, NEW A \in SUBSET Rid, MarkInv(D, A)
  PROVE  WrongInv'
<1>1. UNCHANGED << table, pictures, post, push, deletions >> /\ main.pc = "post"
  BY DEF LiveAnswer, counts
<1>2. accepted \subseteq accepted'
  BY DEF LiveAnswer
<1>3. \/ acks' = acks + 1
      \/ acks' = acks /\ main'.pc # "mark"
  BY DEF LiveAnswer, Quiet
<1>4. Paid(D, A)'
  <2>1. InMark = 0 /\ InMark' \in {0, 2} /\ (main'.pc # "mark" => InMark' = 0)
    BY <1>1 DEF InMark
  <2>2. Cardinality(A) + pictures[Live] + InMark' <= 2 * acks'
    BY <1>3, <2>1, PaidType DEF MarkInv, Paid
  <2> QED
    BY <1>1, <2>2 DEF MarkInv, Paid
<1>5. Wrong' \subseteq Wrong
  BY <1>1, <1>2, WrongKept
<1>6. PostsSound(D, A)'
  BY <1>1, <1>2, GrowsSame, PostsKept DEF MarkInv
<1> QED
  BY <1>4, <1>5, <1>6 DEF MarkInv, WrongInv

\* One more member costs at most one more.
LEMMA OneMore ==
  ASSUME NEW A \in SUBSET Rid, NEW r \in Rid
  PROVE  /\ A \cup {r} \in SUBSET Rid /\ Cardinality(A \cup {r}) \in Nat
         /\ Cardinality(A) \in Nat /\ Cardinality(A \cup {r}) <= Cardinality(A) + 1
<1>1. IsFiniteSet(A) /\ Cardinality(A) \in Nat
  BY RidsFinite, FS_CardinalityType
<1>2. Cardinality(A \cup {r}) = IF r \in A THEN Cardinality(A) ELSE Cardinality(A) + 1
  BY <1>1, FS_AddElement
<1> QED
  BY <1>1, <1>2

\* Number 0 joins A.
LEMMA WrongLiveMark ==
  ASSUME TypeInv, LiveMark,
         NEW D \in SUBSET Rid, NEW A \in SUBSET Rid, MarkInv(D, A)
  PROVE  WrongInv'
<1> DEFINE B == A \cup {0}
<1>1. 0 \in Rid
  BY Bounds
<1>2. /\ table' = Marked(0) /\ UNCHANGED << accepted, acks, deletions, post, push >>
      /\ main.pc = "mark" /\ main' = Quiet
      /\ pictures' = [pictures EXCEPT ![Live] = pictures[Live] + 1]
  BY DEF LiveMark, server, counts
<1>3. /\ pictures'[Live] = pictures[Live] + 1
      /\ \A p \in Posters \ {Live} : pictures'[p] = pictures[p]
  BY <1>2, UploadAssumption DEF TypeInv, PostPart
<1>4. Paid(D, B)'
  <2>1. InMark = 2 /\ InMark' = 0
    BY <1>2 DEF InMark, Quiet
  <2>2. Cardinality(B) <= Cardinality(A) + 1 /\ Cardinality(B) \in Nat
    BY <1>1, OneMore
  <2>3. Cardinality(A) + pictures[Live] + InMark <= 2 * acks
    BY DEF MarkInv, Paid
  <2> HIDE DEF B
  <2>4. Cardinality(B) + pictures'[Live] + InMark' <= 2 * acks'
    BY <1>2, <1>3, <2>1, <2>2, <2>3, PaidType
  <2> QED
    BY <1>2, <1>3, <2>4 DEF MarkInv, Paid
<1>5. Wrong' \subseteq D \cup B
  BY <1>2, WrongMarked DEF MarkInv
<1>6. PostsSound(D, B)'
  BY <1>2, GrowsMarked, PostsKept DEF MarkInv
<1>7. B \in SUBSET Rid
  BY <1>1
<1> QED
  BY <1>4, <1>5, <1>6, <1>7 DEF MarkInv, WrongInv

\* A number that an entry of picList stands for joins A.
LEMMA WrongAutoPost ==
  ASSUME TypeInv, NEW p \in Posters, AutoPost(p),
         NEW D \in SUBSET Rid, NEW A \in SUBSET Rid, MarkInv(D, A)
  PROVE  WrongInv'
<1>1. PICK r \in Rid : r = Newest(ToUpload) /\ r \in DOMAIN table
  <2>1. ToUpload \in SUBSET Rid /\ ToUpload # {}
    BY DEF TypeInv, TablePart, ToUpload, AutoPost
  <2> QED
    BY <2>1, NewestOf DEF ToUpload
<1> DEFINE B == A \cup {r}
           mark == [pc |-> "mark", id |-> table[r].id, rid |-> r]
           sent == [pc |-> "sent", id |-> table[r].id, rid |-> r]
<1>2. /\ UNCHANGED << table, accepted, acks, deletions, main >>
      /\ push' = [push EXCEPT ![p] = push[p]]
  BY PosterTyped DEF AutoPost, server, counts
<1>3. BatchOK(table', D, push[p].batch)
  BY <1>2 DEF MarkInv, PostsSound
<1>4. Grows(table, table', D)
  BY <1>2, GrowsSame
<1>5. CASE pictures[p] > 0
  <2>1. /\ post' = [post EXCEPT ![p] = mark]
        /\ pictures' = [pictures EXCEPT ![p] = pictures[p] - 1]
    BY <1>1, <1>5 DEF AutoPost, Posting
  <2>2. p = Live
    BY <1>5 DEF MarkInv, Paid
  <2>3. PostOK(table', accepted', D, B, mark)
    BY <1>1, <1>2 DEF PostOK, Known
  <2>4. Paid(D, B)'
    <3>1. Cardinality(B) <= Cardinality(A) + 1 /\ Cardinality(B) \in Nat
      BY <1>1, OneMore
    <3>2. /\ pictures'[Live] = pictures[Live] - 1
          /\ \A q \in Posters \ {Live} : pictures'[q] = pictures[q]
      BY <2>1, <2>2 DEF TypeInv, PostPart
    <3>3. Cardinality(A) + pictures[Live] + InMark <= 2 * acks /\ InMark' = InMark
      BY <1>2 DEF MarkInv, Paid, InMark
    <3> HIDE DEF B
    <3>4. Cardinality(B) + pictures'[Live] + InMark' <= 2 * acks'
      BY <1>2, <3>1, <3>2, <3>3, PaidType
    <3> QED
      BY <1>2, <3>2, <3>4 DEF MarkInv, Paid
  <2>5. PostsSound(D, B)'
    <3> HIDE DEF mark, sent
    <3>1. A \subseteq B
      OBVIOUS
    <3> HIDE DEF B
    <3> QED
      BY <1>2, <1>3, <1>4, <2>1, <2>3, <3>1, PostsOne DEF MarkInv
  <2>6. Wrong' \subseteq D \cup B
    BY <1>2, WrongKept DEF MarkInv
  <2>7. B \in SUBSET Rid
    BY <1>1
  <2> QED
    BY <2>4, <2>5, <2>6, <2>7 DEF MarkInv, WrongInv
<1>6. CASE ~(pictures[p] > 0)
  <2>1. post' = [post EXCEPT ![p] = sent] /\ pictures' = pictures
    BY <1>1, <1>6 DEF AutoPost, Posting
  <2>2. PostOK(table', accepted', D, A, sent)
    BY <1>1, <1>2 DEF PostOK, Known
  <2>3. PostsSound(D, A)'
    <3> HIDE DEF mark, sent
    <3> QED
      BY <1>2, <1>3, <1>4, <2>1, <2>2, PostsOne DEF MarkInv
  <2>4. Wrong' \subseteq D \cup A
    BY <1>2, WrongKept DEF MarkInv
  <2>5. Paid(D, A)'
    BY <1>2, <2>1, PaidSame DEF MarkInv, InMark
  <2> QED
    BY <2>3, <2>4, <2>5 DEF MarkInv, WrongInv
<1> QED
  BY <1>5, <1>6

\* A step of one object that marks nothing.
LEMMA WrongOne ==
  ASSUME TypeInv, NEW D \in SUBSET Rid, NEW A \in SUBSET Rid, MarkInv(D, A),
         NEW p \in Posters, NEW a, NEW b,
         UNCHANGED << table, main, acks, deletions, pictures >>, accepted \subseteq accepted',
         post' = [post EXCEPT ![p] = a], push' = [push EXCEPT ![p] = b],
         PostOK(table, accepted', D, A, a), BatchOK(table, D, b.batch)
  PROVE  WrongInv'
<1>1. Grows(table, table', D)
  BY GrowsSame
<1>2. PostsSound(D, A)'
  BY <1>1, PostsOne DEF MarkInv
<1>3. Wrong' \subseteq D \cup A
  BY WrongKept DEF MarkInv
<1>4. Paid(D, A)'
  BY PaidSame DEF MarkInv, InMark
<1> QED
  BY <1>2, <1>3, <1>4 DEF MarkInv, WrongInv

LEMMA WrongPush ==
  ASSUME TypeInv, NEW p \in Posters,
         StartPush(p) \/ FetchPage(p) \/ PushNext(p) \/ FinishPush(p),
         NEW D \in SUBSET Rid, NEW A \in SUBSET Rid, MarkInv(D, A)
  PROVE  WrongInv'
<1> DEFINE old == push[p].batch
<1>1. /\ post[p] \in PostType /\ push[p] \in PushType
      /\ PostOK(table, accepted, D, A, post[p]) /\ BatchOK(table, D, old)
  BY PosterTyped DEF MarkInv, PostsSound
<1>2. UNCHANGED << table, main, acks, deletions, pictures, accepted >>
  BY DEF StartPush, FetchPage, PushNext, FinishPush, counts, server
<1>3. CASE StartPush(p)
  <2> DEFINE a == [post[p] EXCEPT !.pc = "page"]
             b == [push[p] EXCEPT !.on = TRUE, !.done = 0, !.batch = NoRows, !.failed = FALSE,
                     !.total = IF push[p].dated THEN Cardinality(DOMAIN table) ELSE 0,
                     !.first = {table[r].id : r \in DOMAIN table}]
  <2>1. post' = [post EXCEPT ![p] = a] /\ push' = [push EXCEPT ![p] = b]
    BY <1>3 DEF StartPush
  <2>2. a.pc = "page" /\ b.batch = NoRows
    BY <1>1 DEF PostType, PushType
  <2> HIDE DEF a, b
  <2>3. PostOK(table, accepted', D, A, a) /\ BatchOK(table, D, b.batch)
    BY <2>2, EmptyBatch DEF PostOK, BatchOK
  <2> QED
    BY <1>2, <2>1, <2>3, WrongOne
<1>4. CASE FetchPage(p)
  <2> DEFINE a == [post[p] EXCEPT !.pc = "send"]
             rows == [r \in NextPage(p) |-> table[r].id]
             b == [push[p] EXCEPT !.batch = rows]
  <2>1. post' = [post EXCEPT ![p] = a] /\ push' = [push EXCEPT ![p] = b]
    BY <1>4 DEF FetchPage
  <2>2. NextPage(p) \subseteq DOMAIN table
    BY DEF NextPage, Page
  <2>3. BatchOK(table, D, rows)
    BY <2>2 DEF BatchOK, Known
  <2> HIDE DEF rows
  <2>4. a.pc = "send" /\ b.batch = rows
    BY <1>1 DEF PostType, PushType
  <2> HIDE DEF a, b
  <2>5. PostOK(table, accepted', D, A, a)
    BY <2>4 DEF PostOK
  <2> QED
    BY <1>2, <2>1, <2>3, <2>4, <2>5, WrongOne
<1>5. CASE PushNext(p)
  <2> DEFINE r == Newest(DOMAIN old)
             rows == [s \in DOMAIN old \ {r} |-> old[s]]
             a == [pc |-> "sent", id |-> old[r], rid |-> r]
             b == [push[p] EXCEPT !.batch = rows]
  <2>1. post' = [post EXCEPT ![p] = a] /\ push' = [push EXCEPT ![p] = b]
    BY <1>5 DEF PushNext
  <2>2. r \in DOMAIN old
    BY <1>5, NextOfBatch DEF PushNext
  <2> HIDE DEF r, old
  <2>3. PostOK(table, accepted', D, A, a)
    BY <1>1, <2>2 DEF PostOK, BatchOK
  <2>4. BatchOK(table, D, rows)
    BY <1>1 DEF BatchOK
  <2> HIDE DEF rows
  <2>5. b.batch = rows
    BY <1>1 DEF PushType
  <2> HIDE DEF a, b
  <2> QED
    BY <1>2, <2>1, <2>3, <2>4, <2>5, WrongOne
<1>6. CASE FinishPush(p)
  <2> DEFINE b == [NoPush EXCEPT !.dated = push[p].dated]
  <2>1. post' = [post EXCEPT ![p] = NoPost] /\ push' = [push EXCEPT ![p] = b]
    BY <1>6 DEF FinishPush
  <2>2. b.batch = NoRows
    BY DEF NoPush
  <2> HIDE DEF b
  <2>3. PostOK(table, accepted', D, A, NoPost) /\ BatchOK(table, D, b.batch)
    BY <2>2, EmptyBatch DEF PostOK, BatchOK, NoPost
  <2> QED
    BY <1>2, <2>1, <2>3, WrongOne
<1> QED
  BY <1>3, <1>4, <1>5, <1>6

\* What an object does after an answer keeps the rows it has still to post.
LEMMA Continued ==
  ASSUME TypeInv, NEW p \in Posters, NEW failed \in BOOLEAN, Continue(p, failed)
  PROVE  \E a, b : /\ post' = [post EXCEPT ![p] = a] /\ push' = [push EXCEPT ![p] = b]
                   /\ a.pc \notin {"sent", "mark"} /\ b.batch = push[p].batch
<1>1. push[p] \in PushType
  BY PosterTyped
<1>2. CASE push[p].on
  <2> DEFINE empty == DOMAIN push[p].batch = {}
             a == [NoPost EXCEPT !.pc = IF empty THEN "page" ELSE "send"]
             b == [push[p] EXCEPT !.done = push[p].done + 1,
                                  !.failed = push[p].failed \/ failed]
  <2>1. push' = [push EXCEPT ![p] = b] /\ post' = [post EXCEPT ![p] = a]
    BY <1>2 DEF Continue, TypeInv, PostPart, PushType
  <2>2. b.batch = push[p].batch
    BY <1>1 DEF PushType
  <2>3. a.pc \notin {"sent", "mark"}
    <3>1. CASE empty
      BY <3>1 DEF NoPost
    <3>2. CASE ~empty
      BY <3>2 DEF NoPost
    <3> QED
      BY <3>1, <3>2
  <2> HIDE DEF a, b
  <2> QED
    BY <2>1, <2>2, <2>3
<1>3. CASE ~push[p].on
  <2>1. /\ post' = [post EXCEPT ![p] = NoPost] /\ push' = [push EXCEPT ![p] = push[p]]
        /\ NoPost.pc \notin {"sent", "mark"}
    BY <1>3, PosterTyped DEF Continue, NoPost
  <2> QED
    BY <2>1
<1> QED
  BY <1>2, <1>3

LEMMA WrongAnswer ==
  ASSUME TypeInv, NEW p \in Posters, NEW ok \in BOOLEAN, NEW heard \in BOOLEAN,
         Answer(p, ok, heard),
         NEW D \in SUBSET Rid, NEW A \in SUBSET Rid, MarkInv(D, A)
  PROVE  WrongInv'
<1>1. /\ post[p] \in PostType /\ push[p] \in PushType
      /\ PostOK(table, accepted, D, A, post[p]) /\ BatchOK(table, D, push[p].batch)
  BY PosterTyped DEF MarkInv, PostsSound
<1>2. /\ UNCHANGED << table, main, acks, deletions, pictures >>
      /\ post[p].pc = "sent" /\ accepted \subseteq accepted'
  BY DEF Answer, counts
<1>3. CASE Done(ok, heard)
  <2> DEFINE a == [post[p] EXCEPT !.pc = "mark"]
  <2>1. post' = [post EXCEPT ![p] = a] /\ push' = [push EXCEPT ![p] = push[p]]
    BY <1>3, PosterTyped DEF Answer
  <2>2. post[p].id \in accepted'
    BY <1>3 DEF Answer, Done
  <2>3. a.id = post[p].id /\ a.rid = post[p].rid
    BY <1>1 DEF PostType
  <2> HIDE DEF a
  <2>4. PostOK(table, accepted', D, A, a)
    BY <1>1, <1>2, <2>2, <2>3 DEF PostOK
  <2> QED
    BY <1>1, <1>2, <2>1, <2>4, WrongOne
<1>4. CASE ~Done(ok, heard)
  <2>1. Continue(p, TRUE)
    BY <1>4 DEF Answer
  <2>2. PICK a, b : /\ post' = [post EXCEPT ![p] = a] /\ push' = [push EXCEPT ![p] = b]
                    /\ a.pc \notin {"sent", "mark"} /\ b.batch = push[p].batch
    BY <2>1, Continued
  <2>3. PostOK(table, accepted', D, A, a) /\ BatchOK(table, D, b.batch)
    BY <1>1, <2>2 DEF PostOK
  <2> QED
    BY <1>2, <2>2, <2>3, WrongOne
<1> QED
  BY <1>3, <1>4

\* The row that gets the mark is the posted one, or its number is in D.
LEMMA WrongMarkRow ==
  ASSUME TypeInv, NEW p \in Posters, MarkRow(p),
         NEW D \in SUBSET Rid, NEW A \in SUBSET Rid, MarkInv(D, A)
  PROVE  WrongInv'
<1> DEFINE rid == post[p].rid
<1>1. PostOK(table, accepted, D, A, post[p]) /\ BatchOK(table, D, push[p].batch)
  BY DEF MarkInv, PostsSound
<1>2. /\ table' = Marked(rid) /\ post[p].pc = "mark"
      /\ UNCHANGED << main, accepted, acks, deletions, pictures >>
  BY DEF MarkRow, counts, server
<1>3. Wrong' \subseteq D \cup A
  <2>1. rid \in Wrong' => rid \in D \cup A
    BY <1>1, <1>2, WrongMarked DEF PostOK, Known
  <2>2. Wrong' \subseteq Wrong \cup {rid}
    BY <1>2, WrongMarked
  <2> QED
    BY <2>1, <2>2 DEF MarkInv
<1>4. Paid(D, A)'
  BY <1>2, PaidSame DEF MarkInv, InMark
<1>5. Grows(table, table', D)
  BY <1>2, GrowsMarked
<1>6. PICK a, b : /\ post' = [post EXCEPT ![p] = a] /\ push' = [push EXCEPT ![p] = b]
                  /\ a.pc \notin {"sent", "mark"} /\ b.batch = push[p].batch
  BY Continued DEF MarkRow
<1>7. PostOK(table', accepted', D, A, a)
  BY <1>6 DEF PostOK
<1>8. BatchOK(table', D, b.batch)
  BY <1>1, <1>5, <1>6, BatchCarried
<1>9. PostsSound(D, A)'
  BY <1>2, <1>5, <1>6, <1>7, <1>8, PostsOne DEF MarkInv
<1> QED
  BY <1>3, <1>4, <1>9 DEF MarkInv, WrongInv

LEMMA WrongStep == TypeInv /\ LostInv /\ WrongInv /\ [Next]_vars => WrongInv'
<1> SUFFICES ASSUME TypeInv, LostInv, [Next]_vars,
                    NEW D \in SUBSET Rid, NEW A \in SUBSET Rid, MarkInv(D, A)
             PROVE  WrongInv'
  BY DEF WrongInv
<1>1. ASSUME NEW k \in Kinds, slotappRecordData(k) PROVE WrongInv'
  BY <1>1, WrongQuiet DEF slotappRecordData, server, InMark
<1>2. CASE appDoorRecordData
  <2>1. main.pc = "idle" /\ main'.pc = "door"
    BY <1>2 DEF appDoorRecordData, TypeInv, MainPart
  <2> QED
    BY <1>2, <2>1, WrongQuiet DEF appDoorRecordData, server, InMark
<1>3. ASSUME NEW w \in Writers, Writer(w) PROVE WrongInv'
  <2>1. CASE ReadNumber(w)
    BY <2>1, WrongQuiet DEF ReadNumber, server, counts, InMark
  <2>2. CASE Insert(w)
    BY <2>2, WrongInsert DEF LostInv
  <2> QED
    BY <1>3, <2>1, <2>2 DEF Writer
<1>4. ASSUME NEW rids \in SUBSET DOMAIN table, Delete(rids) PROVE WrongInv'
  BY <1>4, WrongDelete
<1>5. CASE Main
  <2>1. CASE TakeLive
    <3>1. InMark' = InMark
      BY <2>1 DEF TakeLive, InMark
    <3> QED
      BY <2>1, <3>1, WrongQuiet DEF TakeLive, server, counts
  <2>2. ASSUME NEW ok \in BOOLEAN, NEW heard \in BOOLEAN, LiveAnswer(ok, heard)
        PROVE  WrongInv'
    BY <2>2, WrongLiveAnswer
  <2>3. CASE LiveMark
    BY <2>3, WrongLiveMark
  <2> QED
    BY <1>5, <2>1, <2>2, <2>3 DEF Main
<1>6. CASE slotManualPushRecords
  <2>1. \A p \in Posters : push'[p].batch = push[p].batch
    BY <1>6, PosterTyped DEF slotManualPushRecords, TypeInv, PostPart, PushType
  <2> QED
    BY <1>6, <2>1, WrongQuiet DEF slotManualPushRecords, server, InMark
<1>7. ASSUME NEW p \in Posters, Poster(p) PROVE WrongInv'
  BY <1>7, WrongAutoPost, WrongPush, WrongAnswer, WrongMarkRow DEF Poster
<1>8. CASE UNCHANGED vars
  BY <1>8, WrongQuiet DEF vars, code, counts, server, InMark
<1> QED
  BY <1>1, <1>2, <1>3, <1>4, <1>5, <1>6, <1>7, <1>8 DEF Next

\* uploadflag is wrong for no more rows than the live acknowledgements and the
\* deletions pay for: neither the two objects of PostPersonRecordThread, nor a
\* manual push that works on copies, nor a lost answer marks another.
THEOREM WrongMarks == Spec => []WrongMarksBounded
<1>1. TypeInv /\ WrongInv => WrongMarksBounded
  <2> SUFFICES ASSUME TypeInv, NEW D \in SUBSET Rid, NEW A \in SUBSET Rid, MarkInv(D, A)
               PROVE  Cardinality(Wrong) <= 2 * acks + deletions
    BY DEF WrongInv, WrongMarksBounded
  <2>1. IsFiniteSet(D \cup A) /\ D \cup A \in SUBSET Rid /\ D \cap A \in SUBSET Rid
    <3>1. D \cup A \in SUBSET Rid /\ D \cap A \in SUBSET Rid
      OBVIOUS
    <3> QED
      BY <3>1, RidsFinite
  <2>2. Cardinality(D \cup A) = Cardinality(D) + Cardinality(A) - Cardinality(D \cap A)
    BY PaidType, FS_Union
  <2>3. Cardinality(D \cap A) \in Nat
    BY <2>1, RidsFinite, FS_CardinalityType
  <2>4. Wrong \subseteq D \cup A
    BY DEF MarkInv
  <2>5. IsFiniteSet(Wrong) /\ Cardinality(Wrong) <= Cardinality(D \cup A)
    BY <2>1, <2>4, FS_Subset
  <2>6. Cardinality(Wrong) \in Nat /\ Cardinality(D \cup A) \in Nat
    BY <2>1, <2>5, FS_CardinalityType
  <2> QED
    BY <2>2, <2>3, <2>5, <2>6, PaidType DEF MarkInv, Paid
<1>2. Spec => [](TypeInv /\ LostInv /\ WrongInv)
  BY TypeStart, TypeStep, LostStart, LostStep, WrongStart, WrongStep, PTL DEF Spec
<1> QED
  BY <1>1, <1>2, PTL
=============================================================================
