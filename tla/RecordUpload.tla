---------------------------- MODULE RecordUpload ----------------------------
(***************************************************************************)
(* The table of passage records and its way to the server.                 *)
(*                                                                         *)
(* PersonRecordToDB stores records on a thread of its own; the panel's     *)
(* door button stores one on the main thread.  A record of a known person  *)
(* is also posted at once, by a slot of the main thread.  Two objects of   *)
(* PostPersonRecordThread exist, the one of GetInstance() and the one      *)
(* FaceApp creates: each posts, again and again, the newest row that is    *)
(* not marked as uploaded.  The first gets the live records, the second    *)
(* the manual pushes.  Only the single statements on the table are locked. *)
(***************************************************************************)
EXTENDS Integers, Sequences, FiniteSets

CONSTANTS
  Posters,      \* the PostPersonRecordThread objects
  Live, Manual, \* the one of GetInstance() and the one of FaceApp
  BATCH,        \* BATCH_SIZE of a manual push, 5 in the code
  StrangerRows, \* rows for a stranger: one for each kind of picture kept
  MustFace,     \* MustOpenMode contains 2: no row without a picture
  Kinds,        \* the passages that occur
  MaxEvents     \* a bound on passages, door buttons, deleted rows and pushes

ASSUME UploadAssumption ==
  /\ Live \in Posters /\ Manual \in Posters
  /\ BATCH \in Nat \ {0}
  /\ StrangerRows \in 0 .. 2
  /\ MustFace \in BOOLEAN
  /\ Kinds \subseteq {"stranger", "face", "card", "bare"}
  /\ MaxEvents \in Nat

VARIABLES
  table,    \* identifyrecord: rid -> [id: the passage, up: uploadflag]
  writer,   \* writer[w]: where thread w is in appRecordData
  main,     \* the main thread: idle, in the door button, or posting live
  queue,    \* the records sent to slotAppRecordData
  post,     \* post[p]: what object p is posting
  pictures, \* pictures[p]: the length of its picList
  manual,   \* manual[p]: isManualPushInProgress
  push,     \* push[p]: its manual push
  passages, doors, deletions, pushes, \* history: how many of each
  accepted, \* history: the passages the server has accepted
  acks,     \* history: the live posts the server has acknowledged
  lost      \* history: the rows that were refused by the table

code == << table, writer, main, queue, post, pictures, manual, push >>
counts == << passages, doors, deletions, pushes >>
server == << accepted, acks >>
vars == << code, counts, server, lost >>

Writers == {"records", "main"}
Passages == 0 .. MaxEvents
None == 0
Row(id, up) == [id |-> id, up |-> up]
Rid == 0 .. 2 * MaxEvents
Kind == {"stranger", "face", "card", "bare"}

Resting == [pc |-> "idle", id |-> None, rid |-> 0, left |-> 0]
Quiet == [pc |-> "idle", id |-> None, kind |-> "bare"]
NoPost == [pc |-> "idle", id |-> None, rid |-> 0]

\* n more events stay within the bound.
Within(n) == passages + doors + deletions + pushes + n <= MaxEvents

NoRows == [r \in {} |-> None]
NoPush == [on |-> FALSE, dated |-> FALSE, total |-> 0, done |-> 0, batch |-> NoRows,
           first |-> {}, failed |-> FALSE]

Init ==
  /\ table = [r \in {} |-> Row(None, FALSE)]
  /\ writer = [w \in Writers |-> Resting]
  /\ main = Quiet
  /\ queue = << >>
  /\ post = [p \in Posters |-> NoPost]
  /\ pictures = [p \in Posters |-> 0]
  /\ manual \in [Posters -> BOOLEAN]  \* read before it is initialised
  /\ push = [p \in Posters |-> NoPush]
  /\ passages = 0 /\ doors = 0 /\ deletions = 0 /\ pushes = 0
  /\ accepted = {} /\ acks = 0 /\ lost = {}

-----------------------------------------------------------------------------
(* The table *)

Newest(rids) == CHOOSE r \in rids : \A s \in rids : s <= r

\* Mutant of MaxRid: the largest number itself.
MaxRidItself == IF DOMAIN table = {} THEN 0 ELSE Newest(DOMAIN table)

\* getidentifyrecordMaxRid
MaxRid == IF DOMAIN table = {} THEN 0 ELSE Newest(DOMAIN table) + 1

\* UpdatePersonRecordUploadFlag(rid, true): no row, no change.
Marked(rid) ==
  [r \in DOMAIN table |-> IF r = rid THEN Row(table[r].id, TRUE) ELSE table[r]]

ToUpload == {r \in DOMAIN table : ~table[r].up}

\* The rows on a page that starts after n rows, newest first.
Page(n) ==
  {r \in DOMAIN table :
     Cardinality({s \in DOMAIN table : s > r}) \in n .. n + BATCH - 1}

-----------------------------------------------------------------------------
(* Storing *)

NewId == passages + doors + 1

\* slotappRecordData: a known person is posted first, then stored; a stranger
\* is only stored.
slotappRecordData(k) ==
  /\ Within(1)
  /\ writer["records"].pc = "idle"
  /\ passages' = passages + 1
  /\ LET rows == IF k = "stranger" THEN StrangerRows
                 ELSE IF k = "bare" /\ MustFace THEN 0 ELSE 1
     IN  writer' = IF rows = 0 THEN writer
                   ELSE [writer EXCEPT !["records"] =
                           [pc |-> "number", id |-> NewId, rid |-> 0, left |-> rows]]
  /\ queue' = IF k = "stranger" THEN queue ELSE Append(queue, [id |-> NewId, kind |-> k])
  /\ UNCHANGED << table, main, post, pictures, manual, push, doors, deletions, pushes,
                  server, lost >>

\* The door button of the panel stores a row of its own.
appDoorRecordData ==
  /\ Within(1)
  /\ main.pc = "idle"
  /\ doors' = doors + 1
  /\ main' = [main EXCEPT !.pc = "door"]
  /\ writer' = [writer EXCEPT !["main"] =
                  [pc |-> "number", id |-> NewId, rid |-> 0, left |-> 1]]
  /\ UNCHANGED << table, queue, post, pictures, manual, push, passages, deletions, pushes,
                  server, lost >>

\* The number of the new row is read,
ReadNumber(w) ==
  /\ writer[w].pc = "number"
  /\ writer' = [writer EXCEPT ![w].pc = "insert", ![w].rid = MaxRid]
  /\ UNCHANGED << table, main, queue, post, pictures, manual, push, counts, server, lost >>

\* and then inserted, unless another row has it by now.
Insert(w) ==
  /\ writer[w].pc = "insert"
  /\ LET rid == writer[w].rid
         id == writer[w].id
     IN  IF rid \in DOMAIN table
         THEN table' = table /\ lost' = lost \cup {id}
         ELSE /\ table' = [r \in DOMAIN table \cup {rid} |->
                             IF r = rid THEN Row(id, FALSE) ELSE table[r]]
              /\ lost' = lost
  /\ writer' = [writer EXCEPT ![w] =
       IF @.left > 1 THEN [@ EXCEPT !.pc = "number", !.left = writer[w].left - 1]
                    ELSE Resting]
  /\ main' = IF w = "main" THEN Quiet ELSE main
  /\ UNCHANGED << queue, post, pictures, manual, push, counts, server >>

\* Rows are deleted by the server, by the panel, or by ShrinkFaceImageThread.
Delete(rids) ==
  /\ rids # {}
  /\ Within(Cardinality(rids))
  /\ deletions' = deletions + Cardinality(rids)
  /\ table' = [r \in DOMAIN table \ rids |-> table[r]]
  /\ UNCHANGED << writer, main, queue, post, pictures, manual, push, passages, doors,
                  pushes, server, lost >>

-----------------------------------------------------------------------------
(* The live post: slotAppRecordData *)

\* A record whose picture does not exist is dropped.
TakeLive ==
  /\ main.pc = "idle"
  /\ queue # << >>
  /\ queue' = Tail(queue)
  /\ main' = IF Head(queue).kind = "bare" THEN main
             ELSE [pc |-> "post", id |-> Head(queue).id, kind |-> Head(queue).kind]
  /\ UNCHANGED << table, writer, post, pictures, manual, push, counts, server, lost >>

\* The server accepts the record or not; its answer is heard or not.  The
\* answer to a card's record is ignored.
LiveAnswer(ok, heard) ==
  /\ main.pc = "post"
  /\ accepted' = IF ok THEN accepted \cup {main.id} ELSE accepted
  /\ IF ok /\ heard /\ main.kind = "face"
     THEN main' = [main EXCEPT !.pc = "mark"] /\ acks' = acks + 1
     ELSE main' = Quiet /\ acks' = acks
  /\ UNCHANGED << table, writer, queue, post, pictures, manual, push, counts, lost >>

\* The rid of a live record is 0: it was never read from the table.
LiveMark ==
  /\ main.pc = "mark"
  /\ table' = Marked(0)
  /\ pictures' = [pictures EXCEPT ![Live] = @ + 1]
  /\ main' = Quiet
  /\ UNCHANGED << writer, queue, post, manual, push, counts, server, lost >>

-----------------------------------------------------------------------------
(* PostPersonRecordThread::run *)

Posting(p, pc, r) == post' = [post EXCEPT ![p] = [pc |-> pc, id |-> table[r].id, rid |-> r]]

\* Mutant of AutoPost: picList is not tested.
AutoPostUnchecked(p) ==
  /\ post[p].pc = "idle"
  /\ ~manual[p]
  /\ ToUpload # {}
  /\ Posting(p, "mark", Newest(ToUpload))
  /\ pictures' = [pictures EXCEPT ![p] = @ - 1]
  /\ UNCHANGED << table, writer, main, queue, manual, push, counts, server, lost >>

\* doPostPersonRecord: the newest row that is not uploaded.  While picList is
\* not empty, one entry of it stands for this row, whoever it belongs to.
AutoPost(p) ==
  /\ post[p].pc = "idle"
  /\ ~manual[p]
  /\ ToUpload # {}
  /\ LET r == Newest(ToUpload)
     IN  IF pictures[p] > 0
         THEN /\ Posting(p, "mark", r)
              /\ pictures' = [pictures EXCEPT ![p] = @ - 1]
         ELSE Posting(p, "sent", r) /\ UNCHANGED pictures
  /\ UNCHANGED << table, writer, main, queue, manual, push, counts, server, lost >>

\* slotManualPushRecords
slotManualPushRecords ==
  /\ Within(1)
  /\ main.pc = "idle"
  /\ pushes' = pushes + 1
  /\ manual' = [manual EXCEPT ![Manual] = TRUE]
  /\ push' = IF manual[Manual] THEN push ELSE [push EXCEPT ![Manual].dated = TRUE]
  /\ UNCHANGED << table, writer, main, queue, post, pictures, passages, doors, deletions,
                  server, lost >>

\* doManualPushRecords begins: all rows of the range are counted, uploaded or
\* not.  Without dates there are none.
StartPush(p) ==
  /\ post[p].pc = "idle"
  /\ manual[p]
  /\ post' = [post EXCEPT ![p].pc = "page"]
  /\ push' = [push EXCEPT ![p] =
       [@ EXCEPT !.on = TRUE, !.done = 0, !.batch = NoRows, !.failed = FALSE,
                 !.total = IF push[p].dated THEN Cardinality(DOMAIN table) ELSE 0,
                 !.first = {table[r].id : r \in DOMAIN table}]]
  /\ UNCHANGED << table, writer, main, queue, pictures, manual, counts, server, lost >>

NextPage(p) == Page((push[p].done \div BATCH) * BATCH)

PushOver(p) == push[p].done >= push[p].total \/ NextPage(p) = {}

\* The test for a cancelled push before each page is left out: only run clears
\* the flag, and only afterwards.
FetchPage(p) ==
  /\ post[p].pc = "page"
  /\ ~PushOver(p)
  /\ push' = [push EXCEPT ![p].batch = [r \in NextPage(p) |-> table[r].id]]
  /\ post' = [post EXCEPT ![p].pc = "send"]
  /\ UNCHANGED << table, writer, main, queue, pictures, manual, counts, server, lost >>

\* The rows of the batch are posted as they were read, newest first.
PushNext(p) ==
  /\ post[p].pc = "send"
  /\ LET b == push[p].batch
         r == Newest(DOMAIN b)
     IN  /\ post' = [post EXCEPT ![p] = [pc |-> "sent", id |-> b[r], rid |-> r]]
         /\ push' = [push EXCEPT ![p].batch = [s \in DOMAIN b \ {r} |-> b[s]]]
  /\ UNCHANGED << table, writer, main, queue, pictures, manual, counts, server, lost >>

\* Mutant of FinishPush: the flag stays.
FinishKeepsFlag(p) ==
  /\ post[p].pc = "page"
  /\ PushOver(p)
  /\ post' = [post EXCEPT ![p] = NoPost]
  /\ push' = [push EXCEPT ![p] = [NoPush EXCEPT !.dated = push[p].dated]]
  /\ UNCHANGED << table, writer, main, queue, pictures, manual, counts, server, lost >>

\* The push is over: isManualPushInProgress = false.
FinishPush(p) ==
  /\ post[p].pc = "page"
  /\ PushOver(p)
  /\ post' = [post EXCEPT ![p] = NoPost]
  /\ push' = [push EXCEPT ![p] = [NoPush EXCEPT !.dated = push[p].dated]]
  /\ manual' = [manual EXCEPT ![p] = FALSE]
  /\ UNCHANGED << table, writer, main, queue, pictures, counts, server, lost >>

\* After an answer: the next row of the batch, the next page, or the wait.
Continue(p, failed) ==
  IF push[p].on
  THEN /\ push' = [push EXCEPT ![p].done = @ + 1, ![p].failed = @ \/ failed]
       /\ post' = [post EXCEPT ![p] =
            [NoPost EXCEPT !.pc = IF DOMAIN push[p].batch = {} THEN "page" ELSE "send"]]
  ELSE post' = [post EXCEPT ![p] = NoPost] /\ UNCHANGED push

\* Mutant of Done: any answer will do.
AnyAnswer(ok, heard) == heard

\* The answer is "post_offine_record_done".
Done(ok, heard) == ok /\ heard

\* The server accepts the posted row or not; its answer is heard or not.
Answer(p, ok, heard) ==
  /\ post[p].pc = "sent"
  /\ accepted' = IF ok THEN accepted \cup {post[p].id} ELSE accepted
  /\ IF Done(ok, heard)
     THEN post' = [post EXCEPT ![p].pc = "mark"] /\ UNCHANGED push
     ELSE Continue(p, TRUE)
  /\ UNCHANGED << table, writer, main, queue, pictures, manual, counts, acks, lost >>

\* Mutant of MarkRow: the row's number is lost on the way.
MarkFirst(p) ==
  /\ post[p].pc = "mark"
  /\ table' = Marked(0)
  /\ Continue(p, FALSE)
  /\ UNCHANGED << writer, main, queue, pictures, manual, counts, server, lost >>

\* The row with the number that was posted, if there still is one.
MarkRow(p) ==
  /\ post[p].pc = "mark"
  /\ table' = Marked(post[p].rid)
  /\ Continue(p, FALSE)
  /\ UNCHANGED << writer, main, queue, pictures, manual, counts, server, lost >>

Poster(p) ==
  \/ AutoPost(p) \/ StartPush(p) \/ FetchPage(p) \/ PushNext(p) \/ FinishPush(p)
  \/ MarkRow(p) \/ \E ok, heard \in BOOLEAN : Answer(p, ok, heard)

Writer(w) == ReadNumber(w) \/ Insert(w)

Main == TakeLive \/ LiveMark \/ \E ok, heard \in BOOLEAN : LiveAnswer(ok, heard)

Next ==
  \/ \E k \in Kinds : slotappRecordData(k)
  \/ appDoorRecordData
  \/ \E w \in Writers : Writer(w)
  \/ \E rids \in SUBSET DOMAIN table : Delete(rids)
  \/ Main
  \/ slotManualPushRecords
  \/ \E p \in Posters : Poster(p)

\* The threads run, and when the object of GetInstance() asks the server again
\* and again, a post is accepted some day and its answer heard.
Fairness ==
  /\ WF_vars(Writer("records"))
  /\ WF_vars(Main \/ Writer("main"))
  /\ \A p \in Posters : WF_vars(Poster(p))
  /\ SF_vars(Answer(Live, TRUE, TRUE))

Spec == Init /\ [][Next]_vars /\ Fairness

-----------------------------------------------------------------------------
(* Properties *)

TypeOK ==
  /\ DOMAIN table \subseteq Rid
  /\ \A r \in DOMAIN table : table[r] \in [id : Passages, up : BOOLEAN]
  /\ writer \in [Writers -> [pc : {"idle", "number", "insert"}, id : Passages,
                             rid : Rid, left : 0 .. 2]]
  /\ main \in [pc : {"idle", "door", "post", "mark"}, id : Passages, kind : Kind]
  /\ queue \in Seq([id : Passages, kind : Kind])
  /\ post \in [Posters -> [pc : {"idle", "page", "send", "sent", "mark"},
                           id : Passages, rid : Rid]]
  /\ pictures \in [Posters -> Nat]
  /\ manual \in [Posters -> BOOLEAN]
  /\ \A p \in Posters : /\ push[p].on \in BOOLEAN /\ push[p].dated \in BOOLEAN
                        /\ push[p].total \in Nat /\ push[p].done \in Nat
                        /\ DOMAIN push[p].batch \subseteq Rid
                        /\ push[p].first \subseteq Passages
  /\ accepted \subseteq Passages /\ lost \subseteq Passages /\ acks \in Nat

Wrong == {r \in DOMAIN table : table[r].up /\ table[r].id \notin accepted}

\* uploadflag says that the server has the record.
UploadedWasAccepted == Wrong = {}

\* The rows marked without having been accepted are paid for: each live
\* acknowledgement accounts for two at most (row 0 and an entry of picList),
\* each deleted row for one (a late answer finds its number given to another
\* row).  Neither the two posting threads, nor a manual push that works on
\* copies of the rows, nor an answer that is lost, marks any other.
WrongMarksBounded == Cardinality(Wrong) <= 2 * acks + deletions

\* Two writers may read the same number, and one of them loses its row; that
\* needs the door button each time, since all passages are stored by one
\* thread.
LostRowsBounded == Cardinality(lost) <= doors

\* Every row is marked in the end, although each thread always takes the
\* newest first, and although the manual push competes with it.
RowsUploaded == <>[](ToUpload = {})

\* A manual push ends, whatever is stored or deleted meanwhile, and also the
\* one that nobody asked for.
PushEnds == \A p \in Posters : manual[p] ~> ~manual[p]

\* A push whose posts have all been acknowledged leaves no record behind that
\* was there when it began.
PushSendsAll ==
  \A p \in Posters :
    post[p].pc = "page" /\ push[p].dated /\ PushOver(p) /\ ~push[p].failed =>
      \A r \in DOMAIN table : table[r].id \in push[p].first => table[r].up
=============================================================================
