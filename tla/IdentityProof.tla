---------------------------- MODULE IdentityProof ----------------------------
(***************************************************************************)
(* Identity, proved for every set of persons, every opening mode and every *)
(* set of devices: type correctness, that no wake-up of the identity       *)
(* thread is lost, that a face opens the door at most once, that the door  *)
(* opens only on the voucher of a person who was granted passage, and that *)
(* only what was accepted is credited.                                     *)
(***************************************************************************)
EXTENDS Identity, TLAPS

\* What a slot carries from one of its steps to the next.
ArgOK(s) ==
  /\ s.dev = "code" => s.arg \in {"green", "other"}
  /\ s.dev \in {"card", "idcard"} => s.arg \in Faces
  /\ s.pc = "name" => s.arg \in Person

RecordPart == rec \in Record

ReadPart ==
  /\ micCard \in Faces /\ idCard \in Faces
  /\ health \in {"none", "green", "other"} /\ temp \in {"none", "normal", "high"}

MainPart ==
  /\ main \in MainState /\ suspended \in MainState
  /\ ArgOK(main) /\ ArgOK(suspended)

ThreadPart ==
  /\ timers \in Nat
  /\ worker \in {"run", "parked", "submit", "open"}
  /\ resolver \in ResolverState

HistoryPart ==
  /\ db \subseteq Person
  /\ inputs \in 0 .. MaxInputs
  /\ tickets \in Int /\ voucher \in Faces /\ earned \subseteq Items

TypeInv == RecordPart /\ ReadPart /\ MainPart /\ ThreadPart /\ HistoryPart

-----------------------------------------------------------------------------
(* Records *)

LEMMA ItemNumbers ==
  /\ ICCARD \in Items /\ SWIPING_FACE \in Items /\ THERMOMETRY \in Items
  /\ MASK \in Items /\ QRCODE \in Items /\ IDCARD \in Items
  /\ PERSON_IDCARD \in Items /\ QRCODE_LOCAL \in Items /\ FINGER \in Items
  BY DEF Items, ICCARD, SWIPING_FACE, THERMOMETRY, MASK, QRCODE, IDCARD,
         PERSON_IDCARD, QRCODE_LOCAL, FINGER

LEMMA ClearedRecord ==
  ASSUME NEW finish \in BOOLEAN
  PROVE  /\ Cleared \in Record
         /\ [Cleared EXCEPT !.Finish = finish] \in Record
  BY DEF Cleared, Record, RecType, RecKind, Faces

\* A credit changes nothing but the items.
LEMMA CreditRecord ==
  ASSUME NEW r \in Record, NEW items \in SUBSET Items
  PROVE  /\ Credit(r, items) \in Record
         /\ Credit(r, items).process = r.process \cup items
         /\ Credit(r, items).type = r.type
         /\ Credit(r, items).kind = r.kind
  BY DEF Credit, Record

LEMMA RegisteredRecord ==
  ASSUME NEW r \in Record, NEW i \in Items
  PROVE  Registered(r, i) \in Record /\ Registered(r, i).type = r.type
  BY CreditRecord DEF Registered, Record, RecKind

LEMMA TakenRecord ==
  ASSUME rec \in Record, NEW f \in Faces, NEW m \in BOOLEAN, NEW ok \in BOOLEAN
  PROVE  TakeFace(f, m, ok) \in Record
<1> DEFINE taken == IF ok /\ (~rec.started \/ f # rec.face)
                    THEN [rec EXCEPT !.type = "MOVING", !.face = f, !.started = TRUE,
                                     !.img = TRUE]
                    ELSE rec
<1>1. taken \in Record
  BY DEF Record, RecType
<1>2. [taken EXCEPT !.mask = m] \in Record
  BY <1>1 DEF Record
<1>3. (IF m THEN {MASK} ELSE {}) \in SUBSET Items
  BY ItemNumbers
<1>4. QED
  BY <1>2, <1>3, CreditRecord DEF TakeFace

\* CheckDoorOpenMode maps records to records.
LEMMA ModesRecord ==
  ASSUME rec \in Record, NEW valid
  PROVE  /\ AfterRequired(valid) \in Record
         /\ \A r \in Record : /\ ByCard(r, Optional, valid) \in Record
                              /\ AfterOptional(r, valid) \in Record
<1>1. \A r \in Record : \A modes : ByCard(r, modes, valid) \in Record
  BY RegisteredRecord, ItemNumbers DEF ByCard
<1>2. \A r \in Record : \A modes : ByFace(r, modes) \in Record
  BY CreditRecord, ItemNumbers DEF ByFace
<1>3. \A r \in Record : \A modes : ByCode(r, modes, valid) \in Record
  BY CreditRecord, ItemNumbers DEF ByCode
<1>4. \A r \in Record : \A modes : ByIdCard(r, modes, valid) \in Record
  BY RegisteredRecord, ItemNumbers DEF ByIdCard
<1>5. \A r \in Record : \A modes : ByPersonIdCard(r, modes) \in Record
  BY RegisteredRecord, ItemNumbers DEF ByPersonIdCard
<1>6. \A r \in Record : \A modes : ByMask(r, modes) \in Record
  BY CreditRecord, ItemNumbers DEF ByMask
<1>7. QED
  BY <1>1, <1>2, <1>3, <1>4, <1>5, <1>6 DEF AfterRequired, AfterOptional

-----------------------------------------------------------------------------
(* The main thread *)

LEMMA EnterMain ==
  ASSUME MainPart, NEW dev, NEW pc, NEW arg, Enter(dev, pc, arg),
         [pc |-> pc, dev |-> dev, arg |-> arg] \in MainState,
         ArgOK([pc |-> pc, dev |-> dev, arg |-> arg])
  PROVE  MainPart'
  BY DEF MainPart, Enter, ArgOK

LEMMA GotoMain ==
  ASSUME MainPart, NEW pc \in MainPC \ {"name"}, Goto(pc)
  PROVE  MainPart'
  BY DEF MainPart, Goto, MainState, ArgOK

LEMMA IdleMain == Idle \in MainState /\ ArgOK(Idle)
  BY DEF Idle, MainState, MainPC, AllDevices, ArgOK, Faces

LEMMA ReturnMain ==
  ASSUME MainPart, Return
  PROVE  MainPart'
  BY IdleMain DEF MainPart, Return, ArgOK

LEMMA AfterCheckMain ==
  ASSUME MainPart, AfterCheck
  PROVE  MainPart'
<1>1. "stamp" \in MainPC \ {"name"}
  BY DEF MainPC
<1>2. QED
  BY <1>1, GotoMain, ReturnMain DEF AfterCheck

LEMMA ClearParts ==
  ASSUME NEW finish \in BOOLEAN, Clear(finish)
  PROVE  RecordPart' /\ ReadPart' /\ (earned \subseteq Items)'
  BY ClearedRecord DEF Clear, RecordPart, ReadPart, Faces

\* A signal is counted up to the bound.
LEMMA DeliverHistory ==
  ASSUME HistoryPart, NEW dev \in AllDevices, Deliver(dev)
  PROVE  inputs' \in 0 .. MaxInputs
  BY IdentityAssumption DEF Deliver, HistoryPart

LEMMA SubmitThread ==
  ASSUME resolver \in ResolverState, NEW f \in Faces, SafeResolverData(f)
  PROVE  resolver' \in ResolverState
  BY DEF SafeResolverData, ResolverState, ResolverPC

-----------------------------------------------------------------------------
(* Type correctness *)

LEMMA InitType == Init => TypeInv
<1> SUFFICES ASSUME Init PROVE TypeInv
  OBVIOUS
<1>1. RecordPart /\ MainPart
  BY ClearedRecord, IdleMain DEF Init, RecordPart, MainPart
<1>2. resolver \in ResolverState
  BY DEF Init, ResolverInit, ResolverState, ResolverPC, Faces
<1>3. QED
  BY <1>1, <1>2, IdentityAssumption
     DEF Init, TypeInv, ReadPart, ThreadPart, HistoryPart, Faces

\* The signals.
LEMMA SignalType ==
  ASSUME TypeInv, Signal
  PROVE  TypeInv'
<1> USE DEF TypeInv
<1>1. ASSUME NEW f \in Person \cup {Unregistered}, NEW m \in BOOLEAN, NEW ok \in BOOLEAN,
             slotMatchCoreFace(f, m, ok)
      PROVE  TypeInv'
  <2>1. f \in Faces
    BY DEF Faces
  <2>2. MainPart'
    BY <1>1, <2>1, EnterMain DEF slotMatchCoreFace, MainState, MainPC, AllDevices, ArgOK
  <2>3. inputs' \in 0 .. MaxInputs
    BY <1>1, DeliverHistory DEF slotMatchCoreFace, AllDevices
  <2>4. CASE Direct /\ rec.started
    BY <1>1, <2>2, <2>3, <2>4
       DEF slotMatchCoreFace, RecordPart, ReadPart, ThreadPart, HistoryPart
  <2>5. CASE Direct /\ ~rec.started
    <3>1. RecordPart'
      BY <1>1, <2>1, <2>5 DEF slotMatchCoreFace, RecordPart, Record, RecType
    <3>2. resolver' \in ResolverState
      BY <1>1, <2>1, <2>5, SubmitThread DEF slotMatchCoreFace, ThreadPart
    <3>3. tickets' \in Int
      BY <1>1, <2>5 DEF slotMatchCoreFace, HistoryPart
    <3>4. QED
      BY <1>1, <2>2, <2>3, <2>5, <3>1, <3>2, <3>3
         DEF slotMatchCoreFace, ReadPart, ThreadPart, HistoryPart
  <2>6. CASE ~Direct
    <3>1. RecordPart'
      BY <1>1, <2>1, <2>6, TakenRecord DEF slotMatchCoreFace, RecordPart
    <3>2. earned' \subseteq Items
      BY <1>1, <2>6, <3>1 DEF slotMatchCoreFace, RecordPart, Record, HistoryPart
    <3>3. QED
      BY <1>1, <2>2, <2>3, <2>6, <3>1, <3>2
         DEF slotMatchCoreFace, ReadPart, ThreadPart, HistoryPart
  <2>7. QED
    BY <2>4, <2>5, <2>6
<1>2. CASE slotDisMissMessage
  <2>1. RecordPart' /\ ReadPart' /\ (earned \subseteq Items)'
    BY <1>2, ClearParts DEF slotDisMissMessage
  <2>2. inputs' \in 0 .. MaxInputs
    BY <1>2, DeliverHistory DEF slotDisMissMessage, AllDevices
  <2>3. QED
    BY <1>2, <2>1, <2>2
       DEF slotDisMissMessage, Skip, MainPart, ArgOK, ThreadPart, HistoryPart
<1>3. ASSUME NEW p \in Person \cup {Unregistered}, slotReadIccardNum(p) PROVE TypeInv'
  <2>1. p \in Faces
    BY DEF Faces
  <2>2. inputs' \in 0 .. MaxInputs
    BY <1>3, DeliverHistory DEF slotReadIccardNum, AllDevices
  <2>3. CASE p \in db /\ Granted(p)
    <3>1. MainPart'
      BY <1>3, <2>1, <2>3, EnterMain
         DEF slotReadIccardNum, MainState, MainPC, AllDevices, ArgOK, HistoryPart
    <3>2. {ICCARD} \in SUBSET Items
      BY ItemNumbers
    <3>3. Credit(rec, {ICCARD}) \in Record
      BY <3>2, CreditRecord DEF RecordPart
    <3>4. RecordPart'
      BY <1>3, <2>3, <3>3 DEF slotReadIccardNum, RecordPart, Record, RecKind
    <3>5. QED
      BY <1>3, <2>1, <2>2, <2>3, <3>1, <3>2, <3>4
         DEF slotReadIccardNum, ReadPart, ThreadPart, HistoryPart
  <2>4. CASE ~(p \in db /\ Granted(p))
    <3>1. MainPart'
      BY <1>3, <2>1, <2>4, EnterMain
         DEF slotReadIccardNum, MainState, MainPC, AllDevices, ArgOK
    <3>2. RecordPart'
      BY <1>3, <2>4 DEF slotReadIccardNum, RecordPart, Record, RecKind
    <3>3. QED
      BY <1>3, <2>1, <2>2, <2>4, <3>1, <3>2
         DEF slotReadIccardNum, ReadPart, ThreadPart, HistoryPart
  <2>5. QED
    BY <2>3, <2>4
<1>4. ASSUME NEW p \in Person \cup {Unregistered}, slotIdentityCardInfo(p) PROVE TypeInv'
  <2>1. p \in Faces
    BY DEF Faces
  <2>2. inputs' \in 0 .. MaxInputs
    BY <1>4, DeliverHistory DEF slotIdentityCardInfo, AllDevices
  <2>3. MainPart'
    BY <1>4, <2>1, EnterMain
       DEF slotIdentityCardInfo, MainState, MainPC, AllDevices, ArgOK
  <2>4. {IDCARD} \in SUBSET Items
    BY ItemNumbers
  <2>5. Credit(rec, {IDCARD}) \in Record
    BY <2>4, CreditRecord DEF RecordPart
  <2>6. RecordPart'
    BY <1>4, <2>5 DEF slotIdentityCardInfo, RecordPart, Record, HistoryPart
  <2>7. QED
    BY <1>4, <2>1, <2>2, <2>3, <2>4, <2>6
       DEF slotIdentityCardInfo, ReadPart, ThreadPart, HistoryPart
<1>5. ASSUME NEW p \in Person \cup {Unregistered}, NEW late \in BOOLEAN,
             slotIdentityCardFullInfo(p, late)
      PROVE  TypeInv'
  <2>1. inputs' \in 0 .. MaxInputs
    BY <1>5, DeliverHistory DEF slotIdentityCardFullInfo, AllDevices
  <2>2. {IDCARD} \in SUBSET Items
    BY ItemNumbers
  <2>3. Credit(rec, {IDCARD}) \in Record
    BY <2>2, CreditRecord DEF RecordPart
  <2>4. RecordPart'
    BY <1>5, <2>3 DEF slotIdentityCardFullInfo, RecordPart, Record
  <2>5. QED
    BY <1>5, <2>1, <2>4
       DEF slotIdentityCardFullInfo, Skip, MainPart, ArgOK, ReadPart, ThreadPart,
           HistoryPart, Faces
<1>6. ASSUME NEW code \in {"green", "other"}, slotHealthCodeInfo(code) PROVE TypeInv'
  <2>1. inputs' \in 0 .. MaxInputs
    BY <1>6, DeliverHistory DEF slotHealthCodeInfo, AllDevices
  <2>2. MainPart'
    BY <1>6, EnterMain DEF slotHealthCodeInfo, MainState, MainPC, AllDevices, ArgOK
  <2>3. {QRCODE} \in SUBSET Items
    BY ItemNumbers
  <2>4. Credit(rec, {QRCODE}) \in Record
    BY <2>3, CreditRecord DEF RecordPart
  <2>5. RecordPart'
    BY <1>6, <2>4 DEF slotHealthCodeInfo, RecordPart, Record
  <2>6. QED
    BY <1>6, <2>1, <2>2, <2>3, <2>5
       DEF slotHealthCodeInfo, ReadPart, ThreadPart, HistoryPart
<1>7. ASSUME NEW t \in {"normal", "high"}, slotTemperatureValue(t) PROVE TypeInv'
  <2>1. inputs' \in 0 .. MaxInputs
    BY <1>7, DeliverHistory DEF slotTemperatureValue, AllDevices
  <2>2. MainPart'
    <3>1. CASE Skip
      BY <3>1 DEF Skip, MainPart, ArgOK
    <3>2. CASE Enter("temp", "check", Nobody)
      BY <3>2, EnterMain DEF MainState, MainPC, AllDevices, ArgOK, Faces
    <3>3. QED
      BY <1>7, <3>1, <3>2 DEF slotTemperatureValue
  <2>3. {THERMOMETRY} \in SUBSET Items
    BY ItemNumbers
  <2>4. Credit(rec, {THERMOMETRY}) \in Record
    BY <2>3, CreditRecord DEF RecordPart
  <2>5. RecordPart'
    BY <1>7, <2>4 DEF slotTemperatureValue, RecordPart, Record
  <2>6. QED
    BY <1>7, <2>1, <2>2, <2>3, <2>5
       DEF slotTemperatureValue, ReadPart, ThreadPart, HistoryPart
<1>8. ASSUME NEW green \in BOOLEAN, NEW ok \in BOOLEAN, slotLRHealthCodeInfo2(green, ok)
      PROVE  TypeInv'
  <2>1. inputs' \in 0 .. MaxInputs
    BY <1>8, DeliverHistory DEF slotLRHealthCodeInfo2, AllDevices
  <2>2. MainPart'
    <3>1. CASE Skip
      BY <3>1 DEF Skip, MainPart, ArgOK
    <3>2. CASE Enter("local", "check", Nobody)
      BY <3>2, EnterMain DEF MainState, MainPC, AllDevices, ArgOK, Faces
    <3>3. QED
      BY <1>8, <3>1, <3>2 DEF slotLRHealthCodeInfo2
  <2>3. \A items \in SUBSET Items : Credit(rec, items) \in Record
    BY CreditRecord DEF RecordPart
  <2>4. PICK items \in SUBSET Items : rec' = [Credit(rec, items) EXCEPT !.started = TRUE]
    BY <1>8, ItemNumbers DEF slotLRHealthCodeInfo2
  <2>5. RecordPart'
    BY <2>3, <2>4 DEF RecordPart, Record
  <2>6. earned' \subseteq Items
    BY <1>8, <2>5 DEF slotLRHealthCodeInfo2, RecordPart, Record, HistoryPart
  <2>7. QED
    BY <1>8, <2>1, <2>2, <2>5, <2>6
       DEF slotLRHealthCodeInfo2, ReadPart, ThreadPart, HistoryPart
<1>9. ASSUME NEW p \in Person, slotFingerprintMatched(p) PROVE TypeInv'
  <2>1. inputs' \in 0 .. MaxInputs
    BY <1>9, DeliverHistory DEF slotFingerprintMatched, AllDevices
  <2>2. MainPart'
    <3>1. CASE Skip
      BY <3>1 DEF Skip, MainPart, ArgOK
    <3>2. CASE Enter("finger", "events", p)
      BY <3>2, EnterMain DEF MainState, MainPC, AllDevices, ArgOK, Faces
    <3>3. QED
      BY <1>9, <3>1, <3>2 DEF slotFingerprintMatched
  <2>3. {FINGER} \in SUBSET Items
    BY ItemNumbers
  <2>4. Credit(rec, {FINGER}) \in Record
    BY <2>3, CreditRecord DEF RecordPart
  <2>5. RecordPart'
    <3>1. CASE Granted(p)
      <4>1. rec' = [Credit(rec, {FINGER}) EXCEPT !.kind = "known", !.who = p,
                                                 !.started = TRUE]
        BY <1>9, <3>1 DEF slotFingerprintMatched
      <4>2. QED
        BY <2>4, <4>1 DEF RecordPart, Record, RecKind
    <3>2. CASE ~Granted(p)
      BY <1>9, <3>2 DEF slotFingerprintMatched, RecordPart, Record, RecKind
    <3>3. QED
      BY <3>1, <3>2
  <2>6. QED
    BY <1>9, <2>1, <2>2, <2>3, <2>5
       DEF slotFingerprintMatched, ReadPart, ThreadPart, HistoryPart, Faces
<1>10. QED
  BY <1>1, <1>2, <1>3, <1>4, <1>5, <1>6, <1>7, <1>8, <1>9 DEF Signal

\* The other steps of the main thread.
LEMMA SlotType ==
  ASSUME TypeInv, Slot \/ FingerTimer
  PROVE  TypeInv'
<1> USE DEF TypeInv
<1>1. CASE WakeWorker
  BY <1>1, ReturnMain
     DEF WakeWorker, shared, history, RecordPart, ReadPart, ThreadPart, HistoryPart
<1>2. CASE NameCard
  <2>1. MainPart'
    BY <1>2, GotoMain DEF NameCard, MainPC
  <2>2. RecordPart'
    BY <1>2 DEF NameCard, MainPart, ArgOK, RecordPart, Record
  <2>3. QED
    BY <1>2, <2>1, <2>2 DEF NameCard, history, ReadPart, ThreadPart, HistoryPart
<1>3. CASE FingerGoesOn
  <2>1. MainPart'
    BY <1>3, GotoMain, ReturnMain DEF FingerGoesOn, MainPC
  <2>2. QED
    BY <1>3, <2>1
       DEF FingerGoesOn, shared, history, RecordPart, ReadPart, ThreadPart, HistoryPart
<1>4. CASE OpenDoor
  <2>1. MainPart'
    BY <1>4, GotoMain, ReturnMain DEF OpenDoor, MainPC
  <2>2. timers' \in Nat
    BY <1>4 DEF OpenDoor, ThreadPart
  <2>3. QED
    BY <1>4, <2>1, <2>2
       DEF OpenDoor, shared, RecordPart, ReadPart, ThreadPart, HistoryPart
<1>5. CASE ClearAfter
  <2>1. RecordPart' /\ ReadPart' /\ (earned \subseteq Items)'
    <3>1. (main.dev \in {"card", "code"}) \in BOOLEAN
      OBVIOUS
    <3>2. QED
      BY <1>5, <3>1, ClearParts, Zenon DEF ClearAfter
  <2>2. MainPart'
    BY <1>5, AfterCheckMain DEF ClearAfter
  <2>3. QED
    BY <1>5, <2>1, <2>2 DEF ClearAfter, ThreadPart, HistoryPart
<1>6. CASE Stamp
  <2>1. MainPart'
    BY <1>6, ReturnMain DEF Stamp
  <2>2. ReadPart'
    BY <1>6 DEF Stamp, MainPart, ArgOK, ReadPart
  <2>3. QED
    BY <1>6, <2>1, <2>2 DEF Stamp, history, RecordPart, ThreadPart, HistoryPart
<1>7. ASSUME NEW passage \in BOOLEAN, NEW late \in BOOLEAN, CheckDoor(passage, late)
      PROVE  TypeInv'
  <2>1. MainPart'
    BY <1>7, GotoMain, AfterCheckMain DEF CheckDoor, MainPC
  <2>2. RecordPart' /\ ReadPart' /\ (earned \subseteq Items)'
    BY <1>7, ClearParts DEF CheckDoor, shared, RecordPart, ReadPart, HistoryPart
  <2>3. QED
    BY <1>7, <2>1, <2>2 DEF CheckDoor, ThreadPart, HistoryPart
<1>8. CASE FingerTimer
  <2>1. RecordPart' /\ ReadPart' /\ (earned \subseteq Items)'
    BY <1>8, ClearParts DEF FingerTimer
  <2>2. timers' \in Nat
    BY <1>8 DEF FingerTimer, ThreadPart
  <2>3. QED
    BY <1>8, <2>1, <2>2 DEF FingerTimer, MainPart, ArgOK, ThreadPart, HistoryPart
<1>9. QED
  BY <1>1, <1>2, <1>3, <1>4, <1>5, <1>6, <1>7, <1>8 DEF Slot

\* The identity thread.
LEMMA WorkerType ==
  ASSUME TypeInv, Worker
  PROVE  TypeInv'
<1> USE DEF TypeInv, WorkerKeeps
<1>1. CASE Park
  BY <1>1 DEF Park, shared, history, RecordPart, ReadPart, MainPart, ArgOK, ThreadPart,
              HistoryPart
<1>2. CASE StartSearch
  BY <1>2 DEF StartSearch, history, RecordPart, Record, RecType, ReadPart, MainPart,
              ArgOK, ThreadPart, HistoryPart
<1>3. CASE Submit
  <2>1. resolver' \in ResolverState
    BY <1>3, SubmitThread DEF Submit, RecordPart, Record, ThreadPart
  <2>2. QED
    BY <1>3, <2>1 DEF Submit, shared, RecordPart, ReadPart, MainPart, ArgOK,
                      ThreadPart, HistoryPart
<1>4. CASE MatchDirect
  BY <1>4 DEF MatchDirect, history, RecordPart, Record, RecType, ReadPart, MainPart,
              ArgOK, ThreadPart, HistoryPart
<1>5. CASE OpenForFace
  BY <1>5 DEF OpenForFace, RecordPart, Record, RecType, ReadPart, MainPart, ArgOK,
              ThreadPart, HistoryPart, AllDevices
<1>6. CASE MatchRefused
  BY <1>6 DEF MatchRefused, shared, history, RecordPart, ReadPart, MainPart, ArgOK,
              ThreadPart, HistoryPart
<1>7. CASE Forget
  BY <1>7, ClearedRecord DEF Forget, RecordPart, ReadPart, MainPart, ArgOK, ThreadPart,
                             HistoryPart, Faces
<1>8. ASSUME NEW valid \in SUBSET {ICCARD, QRCODE, IDCARD}, NEW late \in BOOLEAN,
             MatchModes(valid, late)
      PROVE  TypeInv'
  <2>1. RecordPart' /\ ReadPart' /\ (earned \subseteq Items)' /\ voucher' \in Faces
    <3> DEFINE r2 == ByCard(AfterRequired(valid), Optional, valid)
    <3>1. r2 \in Record /\ AfterOptional(r2, valid) \in Record
      BY ModesRecord DEF RecordPart
    <3>2. CASE Clear(FALSE) /\ UNCHANGED voucher
      BY <3>2, ClearParts DEF HistoryPart
    <3>3. CASE ~(Clear(FALSE) /\ UNCHANGED voucher)
      <4>1. rec' \in {r2, AfterOptional(r2, valid)}
        BY <1>8, <3>3 DEF MatchModes
      <4>2. rec'.process \subseteq Items
        BY <3>1, <4>1 DEF Record
      <4>3. /\ earned' = earned \cup {i \in rec'.process \ rec.process : Accepted(i)}
            /\ voucher' \in {voucher, micCard, idCard}
            /\ UNCHANGED << micCard, idCard, health, temp >>
        BY <1>8, <3>3 DEF MatchModes
      <4>4. QED
        BY <3>1, <4>1, <4>2, <4>3 DEF RecordPart, ReadPart, HistoryPart
    <3>4. QED
      BY <3>2, <3>3
  <2>2. QED
    BY <1>8, <2>1 DEF MatchModes, MainPart, ArgOK, ThreadPart, HistoryPart
<1>9. QED
  BY <1>1, <1>2, <1>3, <1>4, <1>5, <1>6, <1>7, <1>8 DEF Worker

\* The resolver thread and the server.
LEMMA ResolverType ==
  ASSUME TypeInv, Resolver \/ \E p \in Person : DeletePerson(p)
  PROVE  TypeInv'
<1> USE DEF TypeInv, ResolverKeeps
<1>1. CASE ResolverWork
  <2>1. resolver' \in ResolverState
    BY <1>1 DEF ResolverWork, ResolverTop, Compare, ResolverState, ResolverPC, Faces,
                ThreadPart
  <2>2. QED
    BY <1>1, <2>1 DEF ResolverWork, shared, history, RecordPart, ReadPart, MainPart,
                      ArgOK, ThreadPart, HistoryPart
<1>2. CASE EchoAccess
  <2>1. resolver' \in ResolverState
    BY <1>2 DEF EchoAccess, ResolverState, ResolverPC, Faces, ThreadPart
  <2>2. QED
    BY <1>2, <2>1 DEF EchoAccess, shared, history, RecordPart, ReadPart, MainPart,
                      ArgOK, ThreadPart, HistoryPart
<1>3. CASE EchoApply
  <2>1. resolver' \in ResolverState
    BY <1>3 DEF EchoApply, ResolverState, ResolverPC, ThreadPart
  <2>2. resolver.result \in Faces
    BY DEF ThreadPart, ResolverState
  <2>3. FaceCredits(resolver.result) \subseteq Items
    BY ItemNumbers DEF FaceCredits, RecordPart, Record
  <2>4. Echoed(resolver.result, FaceCredits(resolver.result)) \in Record
    BY <2>3 DEF Echoed, RecordPart, Record, RecType, RecKind
  <2>5. RecordPart'
    BY <1>3, <2>4 DEF EchoApply, RecordPart
  <2>6. earned' \subseteq Items /\ voucher' \in Faces
    BY <1>3, <2>2, ItemNumbers DEF EchoApply, HistoryPart
  <2>7. QED
    BY <1>3, <2>1, <2>5, <2>6 DEF EchoApply, ReadPart, MainPart, ArgOK, ThreadPart,
                                  HistoryPart
<1>4. ASSUME NEW p \in Person, DeletePerson(p) PROVE TypeInv'
  BY <1>4 DEF DeletePerson, shared, history, RecordPart, ReadPart, MainPart, ArgOK,
              ThreadPart, HistoryPart
<1>5. QED
  BY <1>1, <1>2, <1>3, <1>4 DEF Resolver

LEMMA NextType == TypeInv /\ [Next]_vars => TypeInv'
<1>1. TypeInv /\ UNCHANGED vars => TypeInv'
  BY DEF vars, shared, history, TypeInv, RecordPart, ReadPart, MainPart, ArgOK,
         ThreadPart, HistoryPart
<1>2. QED
  BY <1>1, SignalType, SlotType, WorkerType, ResolverType DEF Next

LEMMA TypeAlways == Spec => []TypeInv
  BY InitType, NextType, PTL DEF Spec

\* Every state of the engine has its type, whatever the persons, the opening
\* modes and the devices are: in particular no slot stores what another read.
THEOREM TypeCorrect == Spec => []TypeOK
<1>1. TypeInv => TypeOK
  BY DEF TypeInv, RecordPart, ReadPart, MainPart, ThreadPart, HistoryPart, TypeOK
<1>2. QED
  BY <1>1, TypeAlways, PTL

-----------------------------------------------------------------------------
(* No wake-up is lost *)

\* A signal is delivered only to an idle thread or one in processEvents, and
\* the slot of a face is the only one that changes the type of the record.
LEMMA SignalWake ==
  ASSUME TypeInv, NoLostWakeup, Signal
  PROVE  NoLostWakeup'
<1> USE DEF NoLostWakeup
<1>0. rec \in Record /\ worker' = worker /\ Listening
  BY DEF Signal, TypeInv, RecordPart, Deliver, slotMatchCoreFace, slotDisMissMessage,
         slotReadIccardNum, slotIdentityCardInfo, slotIdentityCardFullInfo,
         slotHealthCodeInfo, slotTemperatureValue, slotLRHealthCodeInfo2,
         slotFingerprintMatched
<1>1. CASE worker # "parked"
  BY <1>0, <1>1
<1>2. CASE worker = "parked"
  <2>1. rec.type = "UNKNOWN" \/ (~Direct /\ rec.type = "MATCH")
    BY <1>0, <1>2 DEF Listening
  <2>2. main'.pc = "wake" \/ rec'.type = rec.type \/ rec'.type = "UNKNOWN"
    <3>1. ASSUME NEW f \in Person \cup {Unregistered}, NEW m \in BOOLEAN,
                 NEW ok \in BOOLEAN, slotMatchCoreFace(f, m, ok)
          PROVE  main'.pc = "wake"
      BY <3>1 DEF slotMatchCoreFace, Enter
    <3>2. CASE slotDisMissMessage
      BY <3>2 DEF slotDisMissMessage, Clear, Cleared
    <3>3. ASSUME NEW p \in Person \cup {Unregistered},
                 slotReadIccardNum(p) \/ slotIdentityCardInfo(p)
          PROVE  rec'.type = rec.type
      BY <1>0, <3>3 DEF slotReadIccardNum, slotIdentityCardInfo, Credit, Record
    <3>4. ASSUME NEW p \in Person \cup {Unregistered}, NEW late \in BOOLEAN,
                 slotIdentityCardFullInfo(p, late)
          PROVE  rec'.type = rec.type
      BY <1>0, <3>4 DEF slotIdentityCardFullInfo, Credit, Record
    <3>5. ASSUME NEW code \in {"green", "other"}, slotHealthCodeInfo(code)
          PROVE  rec'.type = rec.type
      BY <1>0, <3>5 DEF slotHealthCodeInfo, Credit, Record
    <3>6. ASSUME NEW t \in {"normal", "high"}, slotTemperatureValue(t)
          PROVE  rec'.type = rec.type
      BY <1>0, <3>6 DEF slotTemperatureValue, Credit, Record
    <3>7. ASSUME NEW green \in BOOLEAN, NEW ok \in BOOLEAN,
                 slotLRHealthCodeInfo2(green, ok)
          PROVE  rec'.type = rec.type
      BY <1>0, <3>7 DEF slotLRHealthCodeInfo2, Credit, Record
    <3>8. ASSUME NEW p \in Person, slotFingerprintMatched(p)
          PROVE  rec'.type = rec.type
      BY <1>0, <3>8 DEF slotFingerprintMatched, Credit, Record
    <3>9. QED
      BY <3>1, <3>2, <3>3, <3>4, <3>5, <3>6, <3>7, <3>8 DEF Signal
  <2>3. QED
    BY <2>1, <2>2
<1>3. QED
  BY <1>1, <1>2

LEMMA SlotWake ==
  ASSUME TypeInv, NoLostWakeup, Slot \/ FingerTimer
  PROVE  NoLostWakeup'
<1> USE DEF NoLostWakeup, TypeInv, RecordPart
<1>1. CASE WakeWorker
  BY <1>1 DEF WakeWorker, shared
<1>2. CASE NameCard
  BY <1>2 DEF NameCard, Record
<1>3. CASE FingerGoesOn
  BY <1>3 DEF FingerGoesOn, shared
<1>4. CASE OpenDoor
  BY <1>4 DEF OpenDoor, shared
<1>5. CASE ClearAfter
  BY <1>5 DEF ClearAfter, Clear, Cleared
<1>6. CASE Stamp
  BY <1>6 DEF Stamp
<1>7. ASSUME NEW passage \in BOOLEAN, NEW late \in BOOLEAN, CheckDoor(passage, late)
      PROVE  NoLostWakeup'
  BY <1>7 DEF CheckDoor, Clear, Cleared, shared
<1>8. CASE FingerTimer
  BY <1>8 DEF FingerTimer, Clear, Cleared
<1>9. QED
  BY <1>1, <1>2, <1>3, <1>4, <1>5, <1>6, <1>7, <1>8 DEF Slot

LEMMA NextWake == TypeInv /\ NoLostWakeup /\ [Next]_vars => NoLostWakeup'
<1> SUFFICES ASSUME TypeInv, NoLostWakeup, [Next]_vars PROVE NoLostWakeup'
  OBVIOUS
<1>1. CASE Worker
  BY <1>1 DEF NoLostWakeup, Worker, WorkerKeeps, shared, Park, StartSearch, Submit,
              MatchDirect, OpenForFace, MatchRefused, Forget, MatchModes
<1>2. CASE Resolver
  <2>1. CASE EchoApply
    <3>1. CASE rec.type = "UNKNOWN"
      BY <2>1, <3>1 DEF EchoApply, ResolverKeeps, NoLostWakeup
    <3>2. CASE rec.type # "UNKNOWN"
      <4>1. rec'.type = "MATCH" /\ UNCHANGED << main, worker >>
        BY <2>1, <3>2 DEF EchoApply, ResolverKeeps, Echoed, TypeInv, RecordPart, Record
      <4>2. QED
        BY <3>2, <4>1 DEF NoLostWakeup
    <3>3. QED
      BY <3>1, <3>2
  <2>2. CASE ResolverWork \/ EchoAccess
    BY <2>2 DEF ResolverWork, EchoAccess, ResolverKeeps, shared, NoLostWakeup
  <2>3. QED
    BY <1>2, <2>1, <2>2 DEF Resolver
<1>3. ASSUME NEW p \in Person, DeletePerson(p) PROVE NoLostWakeup'
  BY <1>3 DEF DeletePerson, shared, NoLostWakeup
<1>4. CASE UNCHANGED vars
  BY <1>4 DEF vars, shared, NoLostWakeup
<1>5. QED
  BY <1>1, <1>2, <1>3, <1>4, SignalWake, SlotWake DEF Next

\* Although slotMatchCoreFace wakes the identity thread after its unlock, the
\* thread never sleeps on a face that nobody is about to wake it for.
THEOREM WakeUps == Spec => []NoLostWakeup
<1>1. Init => NoLostWakeup
  BY DEF Init, NoLostWakeup
<1>2. QED
  BY <1>1, NextWake, TypeAlways, PTL DEF Spec

-----------------------------------------------------------------------------
(* A face opens the door at most once *)

One(b) == IF b THEN 1 ELSE 0

\* The openings a submitted face may still lead to: by the task that waits, by
\* the result on its way, and by the record that is matched.
Pending ==
  One(~resolver.pause) + One(resolver.pc \in {"echo", "apply"})
    + One(rec.type = "MATCH" \/ worker = "open")

\* In the direct modes each of them has its ticket.
TicketInv ==
  Direct => /\ tickets >= Pending
            /\ rec.type # "MOVING" /\ worker # "submit"
            /\ resolver.pc = "compare" => ~resolver.pause

LEMMA SignalTicket ==
  ASSUME TypeInv, TicketInv, Direct, Signal
  PROVE  TicketInv'
<1> USE DEF TicketInv, Pending, One
<1>0. rec \in Record /\ tickets \in Int /\ resolver \in ResolverState
  BY DEF TypeInv, RecordPart, HistoryPart, ThreadPart
<1>1. ASSUME NEW f \in Person \cup {Unregistered}, NEW m \in BOOLEAN,
             NEW ok \in BOOLEAN, slotMatchCoreFace(f, m, ok)
      PROVE  TicketInv'
  <2>1. CASE rec.started
    BY <1>1, <2>1 DEF slotMatchCoreFace, Direct
  <2>2. CASE ~rec.started
    <3>1. /\ rec'.type = "SEARCH" /\ tickets' = tickets + 1 /\ worker' = worker
          /\ worker # "open"
      BY <1>0, <1>1, <2>2 DEF slotMatchCoreFace, Record, SyncFree
    <3>2. /\ ~resolver'.pause /\ resolver'.pc # "compare"
          /\ resolver'.pc \in {"echo", "apply"} <=> resolver.pc \in {"echo", "apply"}
      BY <1>0, <1>1, <2>2
         DEF slotMatchCoreFace, SafeResolverData, ResolverFree, ResolverState
    <3>3. QED
      BY <1>0, <3>1, <3>2 DEF Direct
  <2>3. QED
    BY <2>1, <2>2
<1>2. CASE slotDisMissMessage
  BY <1>0, <1>2 DEF slotDisMissMessage, Clear, Cleared, Direct
<1>3. CASE ~slotDisMissMessage /\ rec'.type = rec.type
           /\ UNCHANGED << worker, resolver, tickets >>
  BY <1>3 DEF Direct
<1>4. ASSUME NEW p \in Person \cup {Unregistered},
             slotReadIccardNum(p) \/ slotIdentityCardInfo(p)
      PROVE  rec'.type = rec.type /\ UNCHANGED << worker, resolver, tickets >>
  BY <1>0, <1>4 DEF slotReadIccardNum, slotIdentityCardInfo, Credit, Record
<1>5. ASSUME NEW p \in Person \cup {Unregistered}, NEW late \in BOOLEAN,
             slotIdentityCardFullInfo(p, late)
      PROVE  rec'.type = rec.type /\ UNCHANGED << worker, resolver, tickets >>
  BY <1>0, <1>5 DEF slotIdentityCardFullInfo, Credit, Record
<1>6. ASSUME NEW code \in {"green", "other"}, slotHealthCodeInfo(code)
      PROVE  rec'.type = rec.type /\ UNCHANGED << worker, resolver, tickets >>
  BY <1>0, <1>6 DEF slotHealthCodeInfo, Credit, Record
<1>7. ASSUME NEW t \in {"normal", "high"}, slotTemperatureValue(t)
      PROVE  rec'.type = rec.type /\ UNCHANGED << worker, resolver, tickets >>
  BY <1>0, <1>7 DEF slotTemperatureValue, Credit, Record
<1>8. ASSUME NEW green \in BOOLEAN, NEW ok \in BOOLEAN, slotLRHealthCodeInfo2(green, ok)
      PROVE  rec'.type = rec.type /\ UNCHANGED << worker, resolver, tickets >>
  BY <1>0, <1>8 DEF slotLRHealthCodeInfo2, Credit, Record
<1>9. ASSUME NEW p \in Person, slotFingerprintMatched(p)
      PROVE  rec'.type = rec.type /\ UNCHANGED << worker, resolver, tickets >>
  BY <1>0, <1>9 DEF slotFingerprintMatched, Credit, Record
<1>10. QED
  BY <1>1, <1>2, <1>3, <1>4, <1>5, <1>6, <1>7, <1>8, <1>9 DEF Signal

LEMMA SlotTicket ==
  ASSUME TypeInv, TicketInv, Direct, Slot \/ FingerTimer
  PROVE  TicketInv'
<1>0. rec \in Record /\ tickets \in Int /\ worker \in {"run", "parked", "submit", "open"}
  BY DEF TypeInv, RecordPart, HistoryPart, ThreadPart
<1>1. rec'.type = rec.type \/ rec'.type = "UNKNOWN"
  BY <1>0 DEF Slot, FingerTimer, WakeWorker, NameCard, FingerGoesOn, OpenDoor,
              ClearAfter, Stamp, CheckDoor, Clear, Cleared, shared, Record
<1>2. /\ UNCHANGED << tickets, resolver >>
      /\ worker' = worker \/ (worker = "parked" /\ worker' = "run")
  BY DEF Slot, FingerTimer, WakeWorker, NameCard, FingerGoesOn, OpenDoor, ClearAfter,
         Stamp, CheckDoor, history
<1>3. QED
  BY <1>0, <1>1, <1>2 DEF TicketInv, Pending, One, Direct

LEMMA WorkerTicket ==
  ASSUME TypeInv, TicketInv, Direct, Worker
  PROVE  TicketInv'
<1> USE DEF TicketInv, Pending, One, Direct
<1>0. rec \in Record /\ tickets \in Int
  BY DEF TypeInv, RecordPart, HistoryPart
<1>1. CASE Park
  BY <1>0, <1>1 DEF Park, shared, history
<1>2. CASE MatchDirect
  <2>1. CASE rec.kind = "known"
    BY <1>0, <1>2, <2>1 DEF MatchDirect, history
  <2>2. CASE rec.kind # "known"
    <3>1. rec.type = "MATCH" /\ rec'.type = "DELETE" /\ worker' = "run"
      BY <1>0, <1>2, <2>2 DEF MatchDirect, Record
    <3>2. UNCHANGED << tickets, resolver >>
      BY <1>2 DEF MatchDirect, history
    <3>3. QED
      BY <1>0, <3>1, <3>2
  <2>3. QED
    BY <2>1, <2>2
<1>3. CASE OpenForFace
  BY <1>0, <1>3 DEF OpenForFace, Record
<1>4. CASE Forget
  BY <1>0, <1>4 DEF Forget, Cleared
<1>5. QED
  BY <1>1, <1>2, <1>3, <1>4
     DEF Worker, StartSearch, Submit, MatchModes, MatchRefused

LEMMA ResolverTicket ==
  ASSUME TypeInv, TicketInv, Direct, Resolver
  PROVE  TicketInv'
<1> USE DEF TicketInv, Pending, One, Direct, ResolverKeeps
<1>0. rec \in Record /\ tickets \in Int /\ resolver \in ResolverState
  BY DEF TypeInv, RecordPart, HistoryPart, ThreadPart
<1>1. CASE ResolverWork
  <2>0. UNCHANGED << rec, worker, tickets >>
    BY <1>1 DEF ResolverWork, shared, history
  <2>1. CASE ResolverTop
    <3>1. /\ resolver'.pause = resolver.pause
          /\ resolver.pc = "top" /\ resolver'.pc \in {"wait", "compare"}
          /\ resolver'.pc = "compare" => ~resolver.pause
      BY <1>0, <2>1 DEF ResolverTop, ResolverState
    <3>2. QED
      BY <1>0, <2>0, <3>1
  <2>2. CASE Compare(db)
    <3>1. /\ resolver.pc = "compare" /\ resolver'.pc = "echo"
          /\ resolver'.pause = TRUE
      BY <1>0, <2>2 DEF Compare, ResolverState
    <3>2. QED
      BY <1>0, <2>0, <3>1
  <2>3. QED
    BY <1>1, <2>1, <2>2 DEF ResolverWork
<1>2. CASE EchoAccess
  BY <1>0, <1>2 DEF EchoAccess, ResolverState, shared, history
<1>3. CASE EchoApply
  <2>1. rec'.type \in {"MATCH", "UNKNOWN"} /\ UNCHANGED << worker, tickets >>
    BY <1>0, <1>3 DEF EchoApply, Echoed, Record
  <2>2. resolver'.pause = resolver.pause /\ resolver'.pc = "top" /\ resolver.pc = "apply"
    BY <1>0, <1>3 DEF EchoApply, ResolverState
  <2>3. worker # "open"
    BY <1>3 DEF EchoApply, SyncFree
  <2>4. QED
    BY <1>0, <2>1, <2>2, <2>3
<1>4. QED
  BY <1>1, <1>2, <1>3 DEF Resolver

LEMMA NextTicket == TypeInv /\ TicketInv /\ [Next]_vars => TicketInv'
<1> SUFFICES ASSUME TypeInv, TicketInv, Direct, [Next]_vars PROVE TicketInv'
  BY DEF TicketInv, Direct
<1>1. ASSUME NEW p \in Person, DeletePerson(p) PROVE TicketInv'
  BY <1>1 DEF DeletePerson, shared, history, TicketInv, Pending
<1>2. CASE UNCHANGED vars
  BY <1>2 DEF vars, shared, history, TicketInv, Pending
<1>3. QED
  BY <1>1, <1>2, SignalTicket, SlotTicket, WorkerTicket, ResolverTicket DEF Next

\* In the direct modes the openings by face never outnumber the faces that
\* were submitted, whatever is dismissed, replaced or late in between.
THEOREM OneOpening == Spec => []FaceOpensOnce
<1>1. Init => TicketInv
  BY DEF Init, ResolverInit, Cleared, TicketInv, Pending, One
<1>2. TypeInv /\ TicketInv => FaceOpensOnce
  BY DEF TypeInv, HistoryPart, TicketInv, Pending, One, FaceOpensOnce
<1>3. QED
  BY <1>1, <1>2, NextTicket, TypeAlways, PTL DEF Spec

-----------------------------------------------------------------------------
(* Only the voucher of a person who was granted passage opens the door *)

\* A result that is about to reach the record was tested, or its person is gone.
ResultInv ==
  resolver.pc = "apply" /\ resolver.result \in Person =>
    Granted(resolver.result) \/ resolver.result \notin db

\* What the direct modes ask for, or what leads to an opening, is vouched for.
Claim ==
  \/ rec.kind = "known"
  \/ ICCARD \in rec.process \/ SWIPING_FACE \in rec.process
  \/ worker = "open"
  \/ main.pc \in {"open", "events"}
  \/ suspended.pc # "idle"

VouchInv ==
  Direct => /\ ResultInv
            /\ Claim => Vouched
            /\ suspended.pc \in {"idle", "events"}

\* Once somebody vouches he does so for good: levels do not change, and whoever
\* is deleted stays so.
LEMMA VouchedStays ==
  ASSUME Vouched, voucher' = voucher, db' \subseteq db
  PROVE  Vouched'
  BY DEF Vouched, Granted

LEMMA ResultStays ==
  ASSUME ResultInv, db' \subseteq db, resolver' = resolver
  PROVE  ResultInv'
  BY DEF ResultInv, Granted

\* Entering a slot keeps the claim, unless it is entered at such a place.
LEMMA EnterClaim ==
  ASSUME VouchInv, Direct, Listening, NEW dev, NEW pc, NEW arg, Enter(dev, pc, arg),
         pc \notin {"open", "events"}
  PROVE  /\ suspended'.pc \in {"idle", "events"}
         /\ (main'.pc \in {"open", "events"} \/ suspended'.pc # "idle") => Claim
  BY DEF VouchInv, Listening, Enter, Claim

LEMMA SignalVouch ==
  ASSUME TypeInv, VouchInv, Direct, Signal
  PROVE  VouchInv'
<1>0. rec \in Record /\ resolver \in ResolverState /\ db \subseteq Person
  BY DEF TypeInv, RecordPart, HistoryPart, ThreadPart
<1>1. ResultInv /\ (Claim => Vouched) /\ suspended.pc \in {"idle", "events"}
  BY DEF VouchInv
<1>2. ASSUME /\ rec'.kind = "known" => rec.kind = "known"
             /\ ICCARD \in rec'.process => ICCARD \in rec.process
             /\ SWIPING_FACE \in rec'.process => SWIPING_FACE \in rec.process
             /\ resolver' = resolver \/ resolver'.pc # "apply" \/ ResultInv'
             /\ UNCHANGED << worker, voucher, db >>
             /\ Skip \/ \E dev, pc, arg : /\ Enter(dev, pc, arg)
                                          /\ pc \notin {"open", "events"}
             /\ Listening
      PROVE  VouchInv'
  <2>1. ResultInv'
    BY <1>1, <1>2, ResultStays DEF ResultInv
  <2>2. /\ suspended'.pc \in {"idle", "events"}
        /\ (main'.pc \in {"open", "events"} \/ suspended'.pc # "idle") => Claim
    BY <1>1, <1>2, EnterClaim DEF Skip, Claim
  <2>3. Claim' => Claim
    BY <1>2, <2>2 DEF Claim
  <2>4. QED
    BY <1>1, <1>2, <2>1, <2>2, <2>3, VouchedStays DEF VouchInv
<1>3. ASSUME NEW f \in Person \cup {Unregistered}, NEW m \in BOOLEAN,
             NEW ok \in BOOLEAN, slotMatchCoreFace(f, m, ok)
      PROVE  VouchInv'
  <2>1. rec'.kind = rec.kind /\ rec'.process = rec.process
    BY <1>0, <1>3 DEF slotMatchCoreFace, Record
  <2>2. resolver' = resolver \/ ResultInv'
    BY <1>0, <1>1, <1>3
       DEF slotMatchCoreFace, SafeResolverData, ResolverState, ResultInv, Granted
  <2>3. UNCHANGED << worker, voucher, db >> /\ Enter("face", "wake", f) /\ Listening
    BY <1>3 DEF slotMatchCoreFace, Deliver
  <2>4. QED
    BY <1>2, <2>1, <2>2, <2>3
<1>4. CASE slotDisMissMessage
  <2>1. rec'.kind = "unset" /\ rec'.process = {}
    BY <1>4 DEF slotDisMissMessage, Clear, Cleared
  <2>2. UNCHANGED << worker, voucher, db, resolver >> /\ Skip /\ Listening
    BY <1>4 DEF slotDisMissMessage, Deliver
  <2>3. QED
    BY <1>2, <2>1, <2>2
<1>5. ASSUME NEW p \in Person \cup {Unregistered}, slotReadIccardNum(p) PROVE VouchInv'
  <2>0. UNCHANGED << worker, db, resolver >> /\ Listening
    BY <1>5 DEF slotReadIccardNum, Deliver
  <2>1. CASE p \in db /\ Granted(p)
    <3>1. Vouched'
      BY <1>0, <1>5, <2>1 DEF slotReadIccardNum, Vouched, Granted
    <3>2. suspended'.pc \in {"idle", "events"}
      BY <1>1, <1>5, <2>0, <2>1 DEF slotReadIccardNum, Listening, Enter
    <3>3. QED
      BY <1>1, <2>0, <3>1, <3>2, ResultStays DEF VouchInv
  <2>2. CASE ~(p \in db /\ Granted(p))
    <3>1. rec'.process = rec.process /\ (rec'.kind = "known" => rec.kind = "known")
      BY <1>0, <1>5, <2>2 DEF slotReadIccardNum, Record
    <3>2. voucher' = voucher /\ Enter("card", "stamp", p)
      BY <1>5, <2>2 DEF slotReadIccardNum
    <3>3. QED
      BY <1>2, <2>0, <3>1, <3>2
  <2>3. QED
    BY <2>1, <2>2
<1>6. ASSUME NEW p \in Person \cup {Unregistered}, slotIdentityCardInfo(p) PROVE VouchInv'
  <2>1. /\ rec'.kind = rec.kind
        /\ rec'.process \in {rec.process, rec.process \cup {IDCARD}}
    BY <1>0, <1>6 DEF slotIdentityCardInfo, Credit, Record
  <2>2. UNCHANGED << worker, voucher, db, resolver >> /\ Listening
    BY <1>6 DEF slotIdentityCardInfo, Deliver
  <2>3. \E pc \in {"stamp", "check", "checkOther"} : Enter("idcard", pc, p)
    BY <1>6 DEF slotIdentityCardInfo
  <2>4. QED
    BY <1>2, <2>1, <2>2, <2>3 DEF ICCARD, SWIPING_FACE, IDCARD
<1>7. ASSUME NEW p \in Person \cup {Unregistered}, NEW late \in BOOLEAN,
             slotIdentityCardFullInfo(p, late)
      PROVE  VouchInv'
  <2>1. rec'.kind = rec.kind /\ rec'.process = rec.process \cup {IDCARD}
    BY <1>0, <1>7 DEF slotIdentityCardFullInfo, Credit, Record
  <2>2. UNCHANGED << worker, voucher, db, resolver >> /\ Skip /\ Listening
    BY <1>7 DEF slotIdentityCardFullInfo, Deliver
  <2>3. QED
    BY <1>2, <2>1, <2>2 DEF ICCARD, SWIPING_FACE, IDCARD
<1>8. ASSUME NEW code \in {"green", "other"}, slotHealthCodeInfo(code) PROVE VouchInv'
  <2>1. /\ rec'.kind = rec.kind
        /\ rec'.process \in {rec.process, rec.process \cup {QRCODE}}
    BY <1>0, <1>8 DEF slotHealthCodeInfo, Credit, Record
  <2>2. UNCHANGED << worker, voucher, db, resolver >> /\ Listening
    BY <1>8 DEF slotHealthCodeInfo, Deliver
  <2>3. \E pc \in {"stamp", "check"} : Enter("code", pc, code)
    BY <1>8 DEF slotHealthCodeInfo
  <2>4. QED
    BY <1>2, <2>1, <2>2, <2>3 DEF ICCARD, SWIPING_FACE, QRCODE
<1>9. ASSUME NEW t \in {"normal", "high"}, slotTemperatureValue(t) PROVE VouchInv'
  <2>1. /\ rec'.kind = rec.kind
        /\ rec'.process \in {rec.process, rec.process \cup {THERMOMETRY}}
    BY <1>0, <1>9 DEF slotTemperatureValue, Credit, Record
  <2>2. UNCHANGED << worker, voucher, db, resolver >> /\ Listening
    BY <1>9 DEF slotTemperatureValue, Deliver
  <2>3. Skip \/ Enter("temp", "check", Nobody)
    BY <1>9 DEF slotTemperatureValue
  <2>4. QED
    BY <1>2, <2>1, <2>2, <2>3 DEF ICCARD, SWIPING_FACE, THERMOMETRY
<1>10. ASSUME NEW green \in BOOLEAN, NEW ok \in BOOLEAN,
              slotLRHealthCodeInfo2(green, ok)
       PROVE  VouchInv'
  <2>1. /\ rec'.kind = rec.kind
        /\ rec'.process \subseteq rec.process \cup {QRCODE_LOCAL}
    BY <1>0, <1>10 DEF slotLRHealthCodeInfo2, Credit, Record
  <2>2. UNCHANGED << worker, voucher, db, resolver >> /\ Listening
    BY <1>10 DEF slotLRHealthCodeInfo2, Deliver
  <2>3. Skip \/ Enter("local", "check", Nobody)
    BY <1>10 DEF slotLRHealthCodeInfo2
  <2>4. QED
    BY <1>2, <2>1, <2>2, <2>3 DEF ICCARD, SWIPING_FACE, QRCODE_LOCAL
<1>11. ASSUME NEW p \in Person, slotFingerprintMatched(p) PROVE VouchInv'
  <2>0. UNCHANGED << worker, db, resolver >> /\ Listening /\ p \in db
    BY <1>11 DEF slotFingerprintMatched, Deliver
  <2>1. CASE Granted(p)
    <3>1. Vouched'
      BY <1>11, <2>0, <2>1 DEF slotFingerprintMatched, Vouched, Granted
    <3>2. suspended'.pc \in {"idle", "events"}
      BY <1>1, <1>11, <2>0, <2>1 DEF slotFingerprintMatched, Listening, Enter
    <3>3. QED
      BY <1>1, <2>0, <3>1, <3>2, ResultStays DEF VouchInv
  <2>2. CASE ~Granted(p)
    <3>1. rec'.process = rec.process /\ rec'.kind = "stranger"
      BY <1>0, <1>11, <2>2 DEF slotFingerprintMatched, Record
    <3>2. voucher' = voucher /\ Skip
      BY <1>11, <2>2 DEF slotFingerprintMatched
    <3>3. QED
      BY <1>2, <2>0, <3>1, <3>2
  <2>3. QED
    BY <2>1, <2>2
<1>12. QED
  BY <1>3, <1>4, <1>5, <1>6, <1>7, <1>8, <1>9, <1>10, <1>11 DEF Signal

LEMMA SlotVouch ==
  ASSUME TypeInv, VouchInv, Direct, Slot \/ FingerTimer
  PROVE  VouchInv'
<1>0. rec \in Record
  BY DEF TypeInv, RecordPart
<1>1. ResultInv /\ (Claim => Vouched) /\ suspended.pc \in {"idle", "events"}
  BY DEF VouchInv
<1>2. UNCHANGED << voucher, db, resolver >>
  BY DEF Slot, FingerTimer, WakeWorker, NameCard, FingerGoesOn, OpenDoor, ClearAfter,
         Stamp, CheckDoor, history
<1>3. worker' = "open" => worker = "open"
  BY DEF Slot, FingerTimer, WakeWorker, NameCard, FingerGoesOn, OpenDoor, ClearAfter,
         Stamp, CheckDoor
<1>4. rec' = rec \/ (rec'.kind = "unset" /\ rec'.process = {})
      \/ (rec'.kind = rec.kind /\ rec'.process = rec.process)
  BY <1>0 DEF Slot, FingerTimer, WakeWorker, NameCard, FingerGoesOn, OpenDoor,
              ClearAfter, Stamp, CheckDoor, Clear, Cleared, shared, Record
<1>5. /\ suspended'.pc \in {"idle", "events"}
      /\ (main'.pc \in {"open", "events"} \/ suspended'.pc # "idle") => Claim
  <2>1. CASE Return
    BY <1>1, <2>1 DEF Return, Idle, Claim
  <2>2. CASE UNCHANGED << main, suspended >>
    BY <1>1, <2>2 DEF Claim
  <2>3. ASSUME NEW pc \in {"check", "clear", "stamp"}, Goto(pc)
        PROVE  <1>5!1 /\ <1>5!2
    BY <1>1, <2>3, IdleMain DEF Goto, Claim, TypeInv, MainPart, MainState
  <2>4. CASE main.pc = "events" /\ Goto("open")
    BY <1>1, <2>4 DEF Goto, Claim
  <2>5. ASSUME NEW passage \in BOOLEAN, NEW late \in BOOLEAN,
               MayOpen(passage, late), Goto("open")
        PROVE  <1>5!1 /\ <1>5!2
    <3>1. ICCARD \in rec.process \/ SWIPING_FACE \in rec.process
      BY <2>5 DEF MayOpen, CanOpen, Direct, ICCARD, SWIPING_FACE
    <3>2. QED
      BY <1>1, <2>5, <3>1 DEF Goto, Claim
  <2>6. QED
    BY <2>1, <2>2, <2>3, <2>4, <2>5
       DEF Slot, FingerTimer, WakeWorker, NameCard, FingerGoesOn, OpenDoor, ClearAfter,
           Stamp, CheckDoor, AfterCheck
<1>6. Claim' => Claim
  BY <1>3, <1>4, <1>5 DEF Claim
<1>7. ResultInv'
  BY <1>1, <1>2, ResultStays
<1>8. QED
  BY <1>1, <1>2, <1>5, <1>6, <1>7, VouchedStays DEF VouchInv

LEMMA WorkerVouch ==
  ASSUME TypeInv, VouchInv, TicketInv, Direct, Worker
  PROVE  VouchInv'
<1>0. rec \in Record /\ resolver \in ResolverState
  BY DEF TypeInv, RecordPart, ThreadPart
<1>1. ResultInv /\ (Claim => Vouched) /\ suspended.pc \in {"idle", "events"}
  BY DEF VouchInv
<1>2. Park \/ MatchDirect \/ OpenForFace \/ Forget
  BY DEF Worker, StartSearch, Submit, MatchModes, MatchRefused, TicketInv
<1>3. UNCHANGED << voucher, db, resolver, main, suspended >>
  BY <1>2 DEF Park, MatchDirect, OpenForFace, Forget, WorkerKeeps, history
<1>4. worker' = "open" => rec.kind = "known"
  BY <1>2 DEF Park, MatchDirect, OpenForFace, Forget
<1>5. (rec'.kind = rec.kind /\ rec'.process = rec.process)
      \/ (rec'.kind = "unset" /\ rec'.process = {})
  BY <1>0, <1>2 DEF Park, MatchDirect, OpenForFace, Forget, Cleared, shared, Record
<1>6. Claim' => Claim
  BY <1>3, <1>4, <1>5 DEF Claim
<1>7. ResultInv'
  BY <1>1, <1>3, ResultStays
<1>8. QED
  BY <1>1, <1>3, <1>6, <1>7, VouchedStays DEF VouchInv

LEMMA ResolverVouch ==
  ASSUME TypeInv, VouchInv, Direct, Resolver
  PROVE  VouchInv'
<1> USE DEF ResolverKeeps
<1>0. rec \in Record /\ resolver \in ResolverState
  BY DEF TypeInv, RecordPart, ThreadPart
<1>1. ResultInv /\ (Claim => Vouched) /\ suspended.pc \in {"idle", "events"}
  BY DEF VouchInv
<1>2. UNCHANGED << db, main, suspended, worker >>
  BY DEF Resolver, ResolverWork, EchoAccess, EchoApply
<1>3. CASE ResolverWork \/ EchoAccess
  <2>1. UNCHANGED << rec, voucher >>
    BY <1>3 DEF ResolverWork, EchoAccess, shared, history
  <2>2. ResultInv'
    <3>1. CASE EchoAccess
      <4>1. resolver'.result = IF resolver.result \in db /\ ~Granted(resolver.result)
                               THEN Unregistered ELSE resolver.result
        BY <1>0, <3>1 DEF EchoAccess, ResolverState
      <4>2. QED
        BY <1>2, <4>1, PersonAssumption DEF ResultInv, Granted
    <3>2. CASE ResolverWork
      <4>1. resolver'.pc # "apply"
        BY <1>0, <3>2 DEF ResolverWork, ResolverTop, Compare, ResolverState
      <4>2. QED
        BY <4>1 DEF ResultInv
    <3>3. QED
      BY <1>3, <3>1, <3>2
  <2>3. Claim' => Claim
    BY <1>2, <2>1 DEF Claim
  <2>4. QED
    BY <1>1, <1>2, <2>1, <2>2, <2>3, VouchedStays DEF VouchInv
<1>4. CASE EchoApply
  <2>1. ResultInv'
    BY <1>0, <1>4 DEF EchoApply, ResolverState, ResultInv
  <2>2. CASE rec.type = "UNKNOWN"
    <3>1. UNCHANGED << rec, voucher >>
      BY <1>4, <2>2 DEF EchoApply
    <3>2. Claim' => Claim
      BY <1>2, <3>1 DEF Claim
    <3>3. QED
      BY <1>1, <1>2, <2>1, <3>1, <3>2, VouchedStays DEF VouchInv
  <2>3. CASE rec.type # "UNKNOWN" /\ resolver.result \in Person
    <3>1. voucher' = resolver.result
      BY <1>4, <2>3 DEF EchoApply
    <3>2. Vouched'
      BY <1>1, <1>2, <1>4, <2>3, <3>1 DEF EchoApply, ResultInv, Vouched, Granted
    <3>3. QED
      BY <1>1, <1>2, <2>1, <3>2 DEF VouchInv
  <2>4. CASE rec.type # "UNKNOWN" /\ resolver.result \notin Person
    <3>1. voucher' = voucher /\ rec' = Echoed(resolver.result, rec.process)
      BY <1>4, <2>4 DEF EchoApply, FaceCredits
    <3>2. rec'.kind = "stranger" /\ rec'.process = rec.process
      BY <1>0, <2>4, <3>1 DEF Echoed, Record
    <3>3. Claim' => Claim
      BY <1>2, <3>2 DEF Claim
    <3>4. QED
      BY <1>1, <1>2, <2>1, <3>1, <3>3, VouchedStays DEF VouchInv
  <2>5. QED
    BY <2>2, <2>3, <2>4
<1>5. QED
  BY <1>3, <1>4 DEF Resolver

LEMMA NextVouch == TypeInv /\ TicketInv /\ VouchInv /\ [Next]_vars => VouchInv'
<1> SUFFICES ASSUME TypeInv, TicketInv, VouchInv, Direct, [Next]_vars PROVE VouchInv'
  BY DEF VouchInv, Direct
<1>1. ASSUME db' \subseteq db,
             UNCHANGED << rec, worker, main, suspended, voucher, resolver >>
      PROVE  VouchInv'
  <2>1. (Claim' => Claim) /\ (ResultInv => ResultInv')
    BY <1>1, ResultStays DEF Claim
  <2>2. QED
    BY <1>1, <2>1, VouchedStays DEF VouchInv
<1>2. ASSUME NEW p \in Person, DeletePerson(p) PROVE VouchInv'
  BY <1>1, <1>2 DEF DeletePerson, shared, history
<1>3. CASE UNCHANGED vars
  BY <1>1, <1>3 DEF vars, shared, history
<1>4. QED
  BY <1>2, <1>3, SignalVouch, SlotVouch, WorkerVouch, ResolverVouch DEF Next

\* In the direct modes a face, card or finger whose level was refused neither
\* opens the door nor makes the record that of a registered person: no
\* interleaving of the slots, the two threads and a deletion carries it past
\* the tests of CheckAccessLevelFromDB, a deleted person's excepted.
THEOREM OnlyVouched == Spec => []VouchedByGranted
<1>1. Init => VouchInv /\ TicketInv
  BY DEF Init, ResolverInit, Cleared, Idle, VouchInv, ResultInv, Claim, TicketInv,
         Pending, One
<1>2. VouchInv => VouchedByGranted
  BY DEF VouchInv, Claim, VouchedByGranted
<1>3. QED
  BY <1>1, <1>2, NextTicket, NextVouch, TypeAlways, PTL DEF Spec

-----------------------------------------------------------------------------
(* A slot opens with the items it counted, or with a record that was forgotten *)

\* The record of an opening slot was forgotten, and the identity thread, which
\* did it, is not about to open the door for that record itself.
Forgotten == IntervalOn /\ rec = Cleared /\ worker # "open"

\* Only the fingerprint slot stops in processEvents.
PlaceInv ==
  /\ Opening => Satisfied(Must, Optional, rec.process) \/ Forgotten
  /\ main.pc = "events" => main.dev = "finger"
  /\ suspended.pc \in {"idle", "events"}
  /\ suspended.pc = "events" => suspended.dev = "finger"

\* CheckDoorOpenMode takes no item away.
LEMMA ModesKeep ==
  ASSUME rec \in Record, NEW valid
  PROVE  LET r2 == ByCard(AfterRequired(valid), Optional, valid)
         IN  /\ rec.process \subseteq r2.process
             /\ rec.process \subseteq AfterOptional(r2, valid).process
<1> DEFINE Grows(r, s) == s \in Record /\ r.process \subseteq s.process
<1>1. \A r \in Record, i \in Items : Grows(r, Credit(r, {i})) /\ Grows(r, Registered(r, i))
  <2>1. ASSUME NEW r \in Record, NEW i \in Items
        PROVE  Grows(r, Credit(r, {i})) /\ Grows(r, Registered(r, i))
    <3>1. {i} \in SUBSET Items
      OBVIOUS
    <3>2. Credit(r, {i}) \in Record /\ Credit(r, {i}).process = r.process \cup {i}
      BY <3>1, CreditRecord
    <3>3. Registered(r, i) \in Record /\ Registered(r, i).process = r.process \cup {i}
      BY <3>2 DEF Registered, Record, RecKind
    <3>4. QED
      BY <3>2, <3>3
  <2>2. QED
    BY <2>1
<1>2. \A r \in Record : Grows(r, r)
  OBVIOUS
<1> HIDE DEF Grows
<1>3. \A r \in Record : \A modes : Grows(r, ByCard(r, modes, valid))
  BY <1>1, <1>2, ItemNumbers DEF ByCard
<1>4. \A r \in Record : \A modes : Grows(r, ByFace(r, modes))
  BY <1>1, <1>2, ItemNumbers DEF ByFace
<1>5. \A r \in Record : \A modes : Grows(r, ByCode(r, modes, valid))
  BY <1>1, <1>2, ItemNumbers DEF ByCode
<1>6. \A r \in Record : \A modes : Grows(r, ByIdCard(r, modes, valid))
  BY <1>1, <1>2, ItemNumbers DEF ByIdCard
<1>7. \A r \in Record : \A modes : Grows(r, ByPersonIdCard(r, modes))
  BY <1>1, <1>2, ItemNumbers DEF ByPersonIdCard
<1>8. \A r \in Record : \A modes : Grows(r, ByMask(r, modes))
  BY <1>1, <1>2, ItemNumbers DEF ByMask
<1>9. \A r, s, t : Grows(r, s) /\ Grows(s, t) => Grows(r, t)
  BY DEF Grows
<1>10. \A r, s : Grows(r, s) => s \in Record /\ r.process \subseteq s.process
  BY DEF Grows
<1>11. Grows(rec, AfterRequired(valid))
  BY <1>3, <1>4, <1>5, <1>6, <1>7, <1>9, <1>10 DEF AfterRequired
<1>12. Grows(rec, ByCard(AfterRequired(valid), Optional, valid))
  BY <1>3, <1>9, <1>10, <1>11
<1>13. \A r \in Record : Grows(r, AfterOptional(r, valid))
  BY <1>5, <1>6, <1>8, <1>9, <1>10 DEF AfterOptional
<1>14. QED
  BY <1>9, <1>10, <1>12, <1>13

\* The other threads add items to a record or, with an interval, forget all of it.
LEMMA ThreadsAdd ==
  ASSUME TypeInv, Worker \/ Resolver
  PROVE  /\ rec.process \subseteq rec'.process \/ Forgotten'
         /\ UNCHANGED << main, suspended >>
<1>0. rec \in Record
  BY DEF TypeInv, RecordPart
<1>1. CASE Worker
  <2>1. ASSUME NEW valid \in SUBSET {ICCARD, QRCODE, IDCARD}, NEW late \in BOOLEAN,
               MatchModes(valid, late)
        PROVE  /\ rec.process \subseteq rec'.process \/ Forgotten'
               /\ UNCHANGED << main, suspended >>
    <3>1. CASE Expired(late) /\ Clear(FALSE)
      <4>1. rec' = Cleared
        BY <3>1 DEF Clear, Cleared
      <4>2. IntervalOn
        BY <3>1 DEF Expired
      <4>3. worker' # "open" /\ UNCHANGED << main, suspended >>
        BY <2>1 DEF MatchModes, WorkerKeeps
      <4>4. QED
        BY <4>1, <4>2, <4>3 DEF Forgotten
    <3>2. CASE ~(Expired(late) /\ Clear(FALSE))
      BY <1>0, <2>1, <3>2, ModesKeep DEF MatchModes, WorkerKeeps
    <3>3. QED
      BY <3>1, <3>2
  <2>2. CASE Park \/ StartSearch \/ Submit \/ MatchDirect \/ OpenForFace \/ MatchRefused
    BY <1>0, <2>2 DEF Park, StartSearch, Submit, MatchDirect, OpenForFace, MatchRefused,
                      WorkerKeeps, shared, Record
  <2>3. CASE Forget
    BY <2>3 DEF Forget, WorkerKeeps, Forgotten
  <2>4. QED
    BY <1>1, <2>1, <2>2, <2>3 DEF Worker
<1>2. CASE Resolver
  <2>1. CASE EchoApply
    <3>1. rec' = rec \/ rec' = Echoed(resolver.result, FaceCredits(resolver.result))
      BY <2>1 DEF EchoApply
    <3>2. Echoed(resolver.result, FaceCredits(resolver.result)).process
            = FaceCredits(resolver.result)
      BY <1>0 DEF Echoed, Record
    <3>3. rec.process \subseteq FaceCredits(resolver.result)
      BY DEF FaceCredits
    <3>4. QED
      BY <2>1, <3>1, <3>2, <3>3 DEF EchoApply, ResolverKeeps
  <2>2. QED
    BY <1>2, <2>1 DEF Resolver, ResolverWork, EchoAccess, ResolverKeeps, shared
<1>3. QED
  BY <1>1, <1>2

\* A record that was forgotten is in UNKNOWN: it stays so until the slot opens,
\* since neither thread does anything with such a record.
LEMMA ForgottenStays ==
  ASSUME TypeInv, Forgotten, Worker \/ Resolver
  PROVE  Forgotten'
<1>1. rec.type = "UNKNOWN" /\ worker # "open"
  BY DEF Forgotten, Cleared
<1>2. CASE Worker
  <2>1. /\ ~(\E valid, late : MatchModes(valid, late))
        /\ ~Forget /\ ~StartSearch /\ ~MatchDirect /\ ~OpenForFace
    BY <1>1 DEF MatchModes, Forget, StartSearch, MatchDirect, OpenForFace
  <2>2. CASE Park \/ Submit \/ MatchRefused
    BY <2>2 DEF Park, Submit, MatchRefused, shared, Forgotten
  <2>3. QED
    BY <1>2, <2>1, <2>2 DEF Worker
<1>3. CASE Resolver
  <2>1. CASE EchoApply
    <3>1. rec.type = "UNKNOWN" => rec' = rec
      BY <2>1 DEF EchoApply
    <3>2. QED
      BY <1>1, <2>1, <3>1 DEF EchoApply, ResolverKeeps, Forgotten
  <2>2. QED
    BY <1>3, <2>1 DEF Resolver, ResolverWork, EchoAccess, ResolverKeeps, shared, Forgotten
<1>4. QED
  BY <1>2, <1>3

LEMMA NextPlace ==
  ASSUME Must \subseteq 1 .. 7, TypeInv, PlaceInv, [Next]_vars
  PROVE  PlaceInv'
<1>1. CASE Worker \/ Resolver
  <2>1. UNCHANGED << main, suspended >>
    BY <1>1, ThreadsAdd
  <2>2. CASE ~Opening
    BY <2>1, <2>2 DEF PlaceInv, Opening, Forgotten
  <2>3. CASE Forgotten
    BY <1>1, <2>1, <2>3, ForgottenStays DEF PlaceInv
  <2>4. CASE Satisfied(Must, Optional, rec.process)
    BY <1>1, <2>1, <2>4, ThreadsAdd DEF PlaceInv, Opening, Satisfied
  <2>5. QED
    BY <2>2, <2>3, <2>4 DEF PlaceInv
<1>2. CASE Signal
  <2>1. Listening
    BY <1>2 DEF Signal, Deliver, slotMatchCoreFace, slotDisMissMessage,
         slotReadIccardNum, slotIdentityCardInfo, slotIdentityCardFullInfo,
         slotHealthCodeInfo, slotTemperatureValue, slotLRHealthCodeInfo2,
         slotFingerprintMatched
  <2>2. ASSUME NEW dev, NEW pc, NEW arg, Enter(dev, pc, arg), pc # "open",
               pc = "events" => dev = "finger"
        PROVE  PlaceInv'
    BY <2>1, <2>2 DEF PlaceInv, Opening, Forgotten, Listening, Enter
  <2>3. CASE Skip
    BY <2>1, <2>3 DEF PlaceInv, Opening, Forgotten, Listening, Skip
  <2>4. ASSUME NEW p, slotReadIccardNum(p) \/ slotIdentityCardInfo(p) PROVE PlaceInv'
    BY <2>2, <2>4 DEF slotReadIccardNum, slotIdentityCardInfo
  <2>5. ASSUME NEW t, slotTemperatureValue(t) \/ slotHealthCodeInfo(t) PROVE PlaceInv'
    BY <2>2, <2>3, <2>5 DEF slotTemperatureValue, slotHealthCodeInfo
  <2>6. ASSUME NEW green, NEW ok, slotLRHealthCodeInfo2(green, ok) PROVE PlaceInv'
    BY <2>2, <2>3, <2>6 DEF slotLRHealthCodeInfo2
  <2>7. ASSUME NEW f, NEW m, NEW ok, slotMatchCoreFace(f, m, ok) PROVE PlaceInv'
    BY <2>2, <2>7 DEF slotMatchCoreFace
  <2>8. ASSUME NEW p, slotFingerprintMatched(p) PROVE PlaceInv'
    BY <2>2, <2>3, <2>8 DEF slotFingerprintMatched
  <2>9. QED
    BY <1>2, <2>3, <2>4, <2>5, <2>6, <2>7, <2>8
       DEF Signal, slotDisMissMessage, slotIdentityCardFullInfo
<1>3. CASE Slot \/ FingerTimer
  <2>1. CASE Return
    BY <2>1 DEF PlaceInv, Opening, Forgotten, Return, Idle
  <2>2. CASE FingerTimer
    BY <2>2 DEF FingerTimer, PlaceInv, Opening, Forgotten, Listening
  <2>3. ASSUME NEW pc \in {"check", "clear", "stamp"}, Goto(pc) PROVE PlaceInv'
    BY <2>3 DEF PlaceInv, Opening, Forgotten, Goto, TypeInv, MainPart, MainState
  <2>4. CASE main.pc = "events" /\ Goto("open")
    BY <2>4 DEF PlaceInv, Opening, Forgotten, Goto, TypeInv, MainPart, MainState
  <2>5. ASSUME NEW passage \in BOOLEAN, NEW late \in BOOLEAN,
               CheckDoor(passage, late), MayOpen(passage, late), Goto("open")
        PROVE  PlaceInv'
    <3>1. Satisfied(Must, Optional, rec.process)
      BY <2>5 DEF MayOpen, CanOpen, Satisfied
    <3>2. rec' = rec
      BY <2>5 DEF CheckDoor, MayOpen, shared
    <3>3. QED
      BY <2>5, <3>1, <3>2
         DEF PlaceInv, Opening, Forgotten, Goto, TypeInv, MainPart, MainState
  <2>6. QED
    BY <1>3, <2>1, <2>2, <2>3, <2>4, <2>5
       DEF Slot, WakeWorker, NameCard, FingerGoesOn, OpenDoor, ClearAfter, Stamp,
           CheckDoor, AfterCheck
<1>4. ASSUME NEW p \in Person, DeletePerson(p) PROVE PlaceInv'
  BY <1>4 DEF DeletePerson, shared, PlaceInv, Opening, Forgotten
<1>5. CASE UNCHANGED vars
  BY <1>5 DEF vars, shared, PlaceInv, Opening, Forgotten
<1>6. QED
  BY <1>1, <1>2, <1>3, <1>4, <1>5 DEF Next

\* A slot that opens the door does so for a record that still satisfies the
\* rule above CanOpenDoor, or that the identity thread has forgotten in between
\* because its interval was over, and then for an empty one: a late result and
\* the tests of CheckDoorOpenMode take nothing away.  The loop of the code
\* stops before the item 8, hence the assumption on Must.
THEOREM OpenedRightly ==
  ASSUME Must \subseteq 1 .. 7
  PROVE  Spec => []OpensOnWholeRecord
<1>1. Init => PlaceInv
  BY DEF Init, Idle, PlaceInv, Opening, Forgotten
<1>2. TypeInv /\ PlaceInv /\ [Next]_vars => PlaceInv'
  BY NextPlace
<1>3. PlaceInv => OpensOnWholeRecord
  BY DEF PlaceInv, Forgotten, OpensOnWholeRecord
<1>4. QED
  BY <1>1, <1>2, <1>3, TypeAlways, PTL DEF Spec

-----------------------------------------------------------------------------
(* Only what was accepted is credited *)

\* The two slots of the identity card credit it whoever it belongs to, and
\* outside of the direct modes CheckDoorOpenMode credits a card of any level.
NoIdCards == Devices \cap {"idcard", "idfull"} = {}

LEMMA SignalEarned ==
  ASSUME TypeInv, CreditsEarned, Direct, NoIdCards, Signal
  PROVE  CreditsEarned'
<1> USE DEF CreditsEarned, TypeInv, RecordPart
<1>1. ASSUME NEW f \in Person \cup {Unregistered}, NEW m \in BOOLEAN, NEW ok \in BOOLEAN,
             slotMatchCoreFace(f, m, ok)
      PROVE  CreditsEarned'
  BY <1>1 DEF slotMatchCoreFace, Record
<1>2. CASE slotDisMissMessage
  BY <1>2 DEF slotDisMissMessage, Clear, Cleared
<1>3. ASSUME NEW p \in Person \cup {Unregistered}, slotReadIccardNum(p) PROVE CreditsEarned'
  BY <1>3 DEF slotReadIccardNum, Credit, Record
<1>4. ASSUME NEW code \in {"green", "other"}, slotHealthCodeInfo(code) PROVE CreditsEarned'
  BY <1>4 DEF slotHealthCodeInfo, Credit, Record
<1>5. ASSUME NEW t \in {"normal", "high"}, slotTemperatureValue(t) PROVE CreditsEarned'
  BY <1>5 DEF slotTemperatureValue, Credit, Record
<1>6. ASSUME NEW green \in BOOLEAN, NEW ok \in BOOLEAN, slotLRHealthCodeInfo2(green, ok)
      PROVE  CreditsEarned'
  BY <1>6 DEF slotLRHealthCodeInfo2
<1>7. ASSUME NEW p \in Person, slotFingerprintMatched(p) PROVE CreditsEarned'
  <2>1. CASE Granted(p)
    <3>1. rec'.process = rec.process \cup {FINGER}
      BY <1>7, <2>1 DEF slotFingerprintMatched, Credit, Record
    <3>2. earned' = earned \cup {FINGER}
      BY <1>7, <2>1 DEF slotFingerprintMatched
    <3>3. QED
      BY <3>1, <3>2
  <2>2. CASE ~Granted(p)
    <3>1. rec'.process = rec.process
      BY <1>7, <2>2 DEF slotFingerprintMatched, Record
    <3>2. earned' = earned
      BY <1>7, <2>2 DEF slotFingerprintMatched
    <3>3. QED
      BY <3>1, <3>2
  <2>3. QED
    BY <2>1, <2>2
<1>8. ~Deliver("idcard") /\ ~Deliver("idfull")
  BY DEF NoIdCards, Deliver
<1>9. ASSUME NEW p \in Person \cup {Unregistered}, slotIdentityCardInfo(p) PROVE FALSE
  <2>1. Deliver("idcard")
    BY ONLY <1>9, Zenon DEF slotIdentityCardInfo
  <2>2. QED
    BY <1>8, <2>1
<1>10. ASSUME NEW p \in Person \cup {Unregistered}, NEW late \in BOOLEAN,
              slotIdentityCardFullInfo(p, late)
       PROVE  FALSE
  <2>1. Deliver("idfull")
    BY ONLY <1>10, Zenon DEF slotIdentityCardFullInfo
  <2>2. QED
    BY <1>8, <2>1
<1>11. QED
  BY <1>1, <1>2, <1>3, <1>4, <1>5, <1>6, <1>7, <1>9, <1>10 DEF Signal

LEMMA NextEarned ==
  ASSUME TypeInv, CreditsEarned, Direct, NoIdCards, [Next]_vars
  PROVE  CreditsEarned'
<1> USE DEF CreditsEarned, TypeInv, RecordPart
<1>1. CASE Slot \/ FingerTimer
  <2>1. ASSUME NEW passage \in BOOLEAN, NEW late \in BOOLEAN, CheckDoor(passage, late)
        PROVE  CreditsEarned'
    BY <2>1 DEF CheckDoor, Clear, Cleared, shared
  <2>2. CASE NameCard
    BY <2>2 DEF NameCard, Record, history
  <2>3. CASE WakeWorker \/ FingerGoesOn \/ OpenDoor \/ Stamp
    BY <2>3 DEF WakeWorker, FingerGoesOn, OpenDoor, Stamp, shared, history
  <2>4. CASE ClearAfter \/ FingerTimer
    BY <2>4 DEF ClearAfter, FingerTimer, Clear, Cleared
  <2>5. QED
    BY <1>1, <2>1, <2>2, <2>3, <2>4 DEF Slot
<1>2. CASE Worker
  <2>1. CASE Park \/ Submit \/ MatchRefused
    BY <2>1 DEF Park, Submit, MatchRefused, shared, history
  <2>2. CASE StartSearch \/ MatchDirect \/ OpenForFace
    BY <2>2 DEF StartSearch, MatchDirect, OpenForFace, Record, history, shared
  <2>3. CASE Forget
    BY <2>3 DEF Forget, Cleared
  <2>4. QED
    BY <1>2, <2>1, <2>2, <2>3 DEF Worker, MatchModes
<1>3. CASE Resolver
  <2>1. CASE EchoApply
    <3>1. CASE rec.type = "UNKNOWN"
      BY <2>1, <3>1 DEF EchoApply
    <3>2. CASE rec.type # "UNKNOWN"
      <4>1. rec'.process = FaceCredits(resolver.result)
        BY <2>1, <3>2 DEF EchoApply, Echoed, Record
      <4>2. QED
        BY <2>1, <3>2, <4>1 DEF EchoApply, FaceCredits
    <3>3. QED
      BY <3>1, <3>2
  <2>2. CASE ResolverWork \/ EchoAccess
    BY <2>2 DEF ResolverWork, EchoAccess, shared, history
  <2>3. QED
    BY <1>3, <2>1, <2>2 DEF Resolver
<1>4. ASSUME NEW p \in Person, DeletePerson(p) PROVE CreditsEarned'
  BY <1>4 DEF DeletePerson, shared, history
<1>5. CASE UNCHANGED vars
  BY <1>5 DEF vars, shared, history
<1>6. QED
  BY <1>1, <1>2, <1>3, <1>4, <1>5, SignalEarned DEF Next

\* In the direct modes, identity cards aside, nothing stays among the items of
\* process_state that was not presented and accepted since the last reset,
\* whoever resets the record while a result is on its way or a slot is half done.
THEOREM CreditedRightly ==
  ASSUME Direct, NoIdCards
  PROVE  Spec => []CreditsEarned
<1>1. Init => CreditsEarned
  BY DEF Init, CreditsEarned, Cleared
<1>2. TypeInv /\ CreditsEarned /\ [Next]_vars => CreditsEarned'
  BY NextEarned
<1>3. QED
  BY <1>1, <1>2, TypeAlways, PTL DEF Spec
=============================================================================
