--------------------------- MODULE DoorRelayProof ---------------------------
(***************************************************************************)
(* DoorRelay, proved for every set of callers, cards and relay modes:      *)
(* type correctness, that pulses are paid for, and that the line follows   *)
(* the pulse while nobody drives it directly.                              *)
(***************************************************************************)
EXTENDS DoorRelay, TLAPS

\* Pulses the door thread is already committed to.
Owed ==
  (IF AtRest /\ ~is_pause THEN 1 ELSE 0) + (IF pc[Door] = "woken" THEN 1 ELSE 0)

\* What pays for them is still in the account.
CreditInv == credit >= Owed

\* Where the line and its static copy are at each step of the door thread.
DoorLine ==
  /\ AtRest => /\ gpio[Door].at = "out"
               /\ pin = 0 /\ nRelayState # 1
  /\ pc[Door] = "on" =>
       /\ gpio[Door].state = 1
       /\ gpio[Door].at \in {"test", "write", "copy", "done"}
       /\ gpio[Door].at \in {"test", "write"} => pin = 0 /\ nRelayState # 1
       /\ gpio[Door].at = "copy" => pin = 1 /\ nRelayState # 1
       /\ gpio[Door].at = "done" => pin = 1 /\ nRelayState = 1
  /\ pc[Door] \in {"hold", "timeup"} =>
       /\ gpio[Door].at = "out"
       /\ pin = 1 /\ nRelayState = 1
  /\ pc[Door] = "off" =>
       /\ gpio[Door].state = 0
       /\ gpio[Door].at \in {"test", "write", "copy", "done"}
       /\ gpio[Door].at \in {"test", "write"} => pin = 1 /\ nRelayState = 1
       /\ gpio[Door].at = "copy" => pin = 0 /\ nRelayState = 1
       /\ gpio[Door].at = "done" => pin = 0 /\ nRelayState = 0

\* Until a caller drives the line, only the door thread is on it.
LineInv == ~direct => DoorLine /\ \A c \in Callers : gpio[c].at = "out"

-----------------------------------------------------------------------------
\* Where the threads are, apart from the rest of TypeOK.
PlacesOK ==
  /\ pc \in [Threads -> CallerPC \cup DoorPC]
  /\ pc[Door] \in DoorPC
  /\ \A c \in Callers : pc[c] \in CallerPC

LEMMA InitType == Init => TypeOK
<1> SUFFICES ASSUME Init PROVE TypeOK
  OBVIOUS
<1>1. GpioTypeOK
  BY DEF Init, GpioInit, GpioTypeOK, GpioStage, Levels, Out
<1>2. PlacesOK
  BY DoorAssumption DEF Init, PlacesOK, CallerPC, DoorPC
<1>3. arg \in [Callers -> Cards]
  BY DEF Init
<1>4. is_pause \in BOOLEAN /\ cut \in BOOLEAN /\ direct \in BOOLEAN
  BY Zenon DEF Init
<1>5. calls \in 0 .. MaxCalls /\ credit \in Int
  BY DoorAssumption DEF Init
<1>6. mszICCardNum \in Cards /\ relayMode \in RelayModes \cup {-1}
  BY DEF Init
<1>7. QED
  BY <1>1, <1>2, <1>3, <1>4, <1>5, <1>6 DEF TypeOK, PlacesOK

\* A step inside Device_SetDeviceState keeps the line's types.
LEMMA GpioStepType ==
  ASSUME GpioTypeOK, NEW t \in Threads, GpioStep(t)
  PROVE  GpioTypeOK'
<1>1. CASE TestState(t)
  BY <1>1 DEF TestState, GpioTypeOK, GpioStage, Levels
<1>2. CASE WritePin(t)
  BY <1>2 DEF WritePin, GpioTypeOK, GpioStage, Levels
<1>3. CASE CopyState(t)
  BY <1>3 DEF CopyState, GpioTypeOK, GpioStage, Levels
<1>4. QED
  BY <1>1, <1>2, <1>3 DEF GpioStep

\* So does entering it, and leaving it.
LEMMA CallSetType ==
  ASSUME GpioTypeOK, NEW t \in Threads, NEW s \in Levels, CallSet(t, s),
         UNCHANGED << pin, nRelayState >>
  PROVE  GpioTypeOK'
  BY DEF CallSet, GpioTypeOK, GpioStage

LEMMA LeaveSetType ==
  ASSUME GpioTypeOK, NEW t \in Threads, LeaveSet(t), UNCHANGED << pin, nRelayState >>
  PROVE  GpioTypeOK'
  BY DEF LeaveSet, Out, GpioTypeOK, GpioStage, Levels

\* A thread that moves stays in its own program.
LEMMA CallerMoves ==
  ASSUME PlacesOK, NEW c \in Callers, NEW l \in CallerPC, Goto(c, l)
  PROVE  PlacesOK'
  BY DoorAssumption DEF Goto, PlacesOK

LEMMA DoorMoves ==
  ASSUME PlacesOK, NEW l \in DoorPC, Goto(Door, l)
  PROVE  PlacesOK'
  BY DoorAssumption DEF Goto, PlacesOK

\* Granting passage, with any relay mode, keeps the types it touches.
LEMMA ActuateType ==
  ASSUME TypeOK, NEW c \in Callers, NEW m \in RelayModes \cup {-1}, Actuate(c, m),
         UNCHANGED << pin, nRelayState >>
  PROVE  PlacesOK' /\ GpioTypeOK' /\ direct' \in BOOLEAN
<1> USE DoorAssumption DEF TypeOK, PlacesOK
<1>1. CASE m \in {1, 2}
  <2>1. (IF m = 1 THEN 1 ELSE 0) \in Levels
    BY DEF Levels
  <2>2. GpioTypeOK'
    BY <1>1, <2>1, CallSetType DEF Actuate
  <2>3. PlacesOK'
    BY <1>1, CallerMoves DEF Actuate, CallerPC
  <2>4. QED
    BY <1>1, <2>2, <2>3 DEF Actuate
<1>2. CASE m \notin {1, 2}
  <2>1. PlacesOK'
    BY <1>2, CallerMoves DEF Actuate, CallerPC
  <2>2. QED
    BY <1>2, <2>1 DEF Actuate, GpioTypeOK
<1>3. QED
  BY <1>1, <1>2

LEMMA NextType == TypeOK /\ [Next]_vars => TypeOK'
<1> SUFFICES ASSUME TypeOK, [Next]_vars PROVE TypeOK'
  OBVIOUS
<1> USE DoorAssumption
<1>0. PlacesOK /\ GpioTypeOK
  BY DEF TypeOK, PlacesOK
<1>q. /\ PlacesOK' /\ GpioTypeOK' /\ is_pause' \in BOOLEAN /\ mszICCardNum' \in Cards
      /\ relayMode' \in RelayModes \cup {-1} /\ arg' \in [Callers -> Cards]
      /\ calls' \in 0 .. MaxCalls /\ credit' \in Int /\ cut' \in BOOLEAN
      /\ direct' \in BOOLEAN
      => TypeOK'
  BY DEF TypeOK, PlacesOK
<1>1. ASSUME NEW c \in Callers, NEW card \in Cards, Grant(c, card) PROVE TypeOK'
  <2>1. PlacesOK' /\ GpioTypeOK' /\ direct' \in BOOLEAN
    BY <1>1, ActuateType DEF Grant, TypeOK
  <2>2. calls' \in 0 .. MaxCalls /\ arg' \in [Callers -> Cards]
    BY <1>1 DEF Grant, TypeOK
  <2>3. QED
    BY <1>1, <1>q, <2>1, <2>2 DEF Grant, TypeOK
<1>2. ASSUME NEW c \in Callers, NEW m \in RelayModes, RemoteOpen(c, m) PROVE TypeOK'
  <2>1. PlacesOK' /\ GpioTypeOK' /\ direct' \in BOOLEAN
    <3>1. CASE m = 0
      BY <1>0, <1>2, <3>1 DEF RemoteOpen, PlacesOK, GpioTypeOK, TypeOK
    <3>2. CASE m # 0
      BY <1>2, <3>2, ActuateType DEF RemoteOpen
    <3>3. QED
      BY <3>1, <3>2
  <2>2. calls' \in 0 .. MaxCalls
    BY <1>2 DEF RemoteOpen, TypeOK
  <2>3. QED
    BY <1>2, <1>q, <2>1, <2>2 DEF RemoteOpen, TypeOK
<1>3. ASSUME NEW c \in Callers, TestPause(c) PROVE TypeOK'
  BY <1>3 DEF TestPause, Goto, TypeOK, GpioTypeOK, gpioVars, history, CallerPC, DoorPC
<1>4. ASSUME NEW c \in Callers, Store(c) PROVE TypeOK'
  <2>1. PlacesOK' /\ GpioTypeOK'
    BY <1>0, <1>4, CallerMoves DEF Store, CallerPC, GpioTypeOK, gpioVars
  <2>2. mszICCardNum' \in Cards /\ credit' \in Int
    BY <1>4 DEF Store, TypeOK
  <2>3. is_pause' \in BOOLEAN
    BY <1>4, Zenon DEF Store
  <2>4. QED
    BY <1>4, <1>q, <2>1, <2>2, <2>3 DEF Store, TypeOK
<1>5. ASSUME NEW c \in Callers, WakeOne(c) PROVE TypeOK'
  <2>1. PlacesOK'
    BY <1>0, <1>5 DEF WakeOne, PlacesOK, CallerPC, DoorPC
  <2>2. GpioTypeOK'
    BY <1>0, <1>5 DEF WakeOne, GpioTypeOK, gpioVars
  <2>3. credit' \in Int
    BY <1>5 DEF WakeOne, TypeOK
  <2>4. cut' \in BOOLEAN
    BY <1>5, Zenon DEF WakeOne, TypeOK
  <2>5. QED
    BY <1>5, <1>q, <2>1, <2>2, <2>3, <2>4 DEF WakeOne, TypeOK
<1>6. ASSUME NEW c \in Callers, LineDone(c) PROVE TypeOK'
  <2>1. PlacesOK' /\ GpioTypeOK'
    BY <1>0, <1>6, CallerMoves, LeaveSetType DEF LineDone, CallerPC
  <2>2. QED
    BY <1>6, <1>q, <2>1 DEF LineDone, TypeOK, history
<1>7. CASE Top
  <2>1. GpioTypeOK'
    BY <1>0, <1>7, CallSetType DEF Top, BeginPulse, Levels, GpioTypeOK
  <2>2. PlacesOK'
    BY <1>0, <1>7, DoorMoves DEF Top, BeginPulse, DoorPC
  <2>3. credit' \in Int
    BY <1>7 DEF Top, BeginPulse, TypeOK
  <2>4. cut' \in BOOLEAN
    BY <1>7, Zenon DEF Top, BeginPulse, TypeOK
  <2>5. QED
    BY <1>7, <1>q, <2>1, <2>2, <2>3, <2>4 DEF Top, TypeOK
<1>8. CASE Resume
  <2>1. GpioTypeOK'
    BY <1>0, <1>8, CallSetType DEF Resume, BeginPulse, Levels
  <2>2. PlacesOK'
    BY <1>0, <1>8, DoorMoves DEF Resume, BeginPulse, DoorPC
  <2>3. credit' \in Int
    BY <1>8 DEF Resume, BeginPulse, TypeOK
  <2>4. cut' \in BOOLEAN
    BY <1>8, Zenon DEF Resume, BeginPulse, TypeOK
  <2>5. QED
    BY <1>8, <1>q, <2>1, <2>2, <2>3, <2>4 DEF Resume, TypeOK
<1>9. CASE Hold
  <2>1. PlacesOK' /\ GpioTypeOK'
    BY <1>0, <1>9, DoorMoves, LeaveSetType DEF Hold, DoorPC
  <2>2. QED
    BY <1>9, <1>q, <2>1 DEF Hold, TypeOK, history
<1>10. CASE TimeUp
  BY <1>10 DEF TimeUp, Goto, TypeOK, GpioTypeOK, gpioVars, history, CallerPC, DoorPC
<1>11. CASE SwitchOff
  <2>1. PlacesOK' /\ GpioTypeOK'
    BY <1>0, <1>11, DoorMoves, CallSetType DEF SwitchOff, DoorPC, Levels
  <2>2. QED
    BY <1>11, <1>q, <2>1 DEF SwitchOff, TypeOK, history
<1>12. CASE EndPulse
  <2>1. PlacesOK' /\ GpioTypeOK'
    BY <1>0, <1>12, DoorMoves, LeaveSetType DEF EndPulse, DoorPC
  <2>2. QED
    BY <1>12, <1>q, <2>1 DEF EndPulse, TypeOK, history
<1>13. ASSUME NEW t \in Threads, LineStep(t) PROVE TypeOK'
  BY <1>13, GpioStepType DEF LineStep, TypeOK, doorVars, history
<1>14. CASE UNCHANGED vars
  BY <1>14 DEF vars, gpioVars, doorVars, history, TypeOK, GpioTypeOK
<1>15. QED
  BY <1>1, <1>2, <1>3, <1>4, <1>5, <1>6, <1>7, <1>8, <1>9, <1>10, <1>11, <1>12,
     <1>13, <1>14 DEF Next, Caller, DoorThread

\* The state of the door component always has its type.
THEOREM TypeCorrect == Spec => []TypeOK
  BY InitType, NextType, PTL DEF Spec

-----------------------------------------------------------------------------
LEMMA NextCredit == TypeOK /\ CreditInv /\ [Next]_vars => CreditInv'
<1> SUFFICES ASSUME TypeOK, CreditInv, [Next]_vars PROVE CreditInv'
  OBVIOUS
<1> USE DoorAssumption DEF CreditInv, Owed, AtRest
<1>1. ASSUME NEW c \in Callers, NEW card \in Cards, Grant(c, card) PROVE CreditInv'
  BY <1>1 DEF Grant, Actuate, Goto, TypeOK
<1>2. ASSUME NEW c \in Callers, NEW m \in RelayModes, RemoteOpen(c, m)
      PROVE  CreditInv'
  BY <1>2 DEF RemoteOpen, Actuate, Goto, TypeOK
<1>3. ASSUME NEW c \in Callers, TestPause(c) PROVE CreditInv'
  BY <1>3 DEF TestPause, Goto, TypeOK, history
<1>4. ASSUME NEW c \in Callers, Store(c) PROVE CreditInv'
  BY <1>4 DEF Store, Goto, TypeOK
<1>5. ASSUME NEW c \in Callers, WakeOne(c) PROVE CreditInv'
  BY <1>5 DEF WakeOne, TypeOK, DoorPC
<1>6. ASSUME NEW c \in Callers, LineDone(c) PROVE CreditInv'
  BY <1>6 DEF LineDone, Goto, TypeOK, history
<1>7. CASE Top
  BY <1>7 DEF Top, BeginPulse, Goto, TypeOK
<1>8. CASE Resume
  BY <1>8 DEF Resume, BeginPulse, Goto, TypeOK
<1>9. CASE Hold
  BY <1>9 DEF Hold, Goto, TypeOK, history
<1>10. CASE TimeUp
  BY <1>10 DEF TimeUp, Goto, TypeOK, history
<1>11. CASE SwitchOff
  BY <1>11 DEF SwitchOff, Goto, TypeOK, history
<1>12. CASE EndPulse
  BY <1>12 DEF EndPulse, Goto, TypeOK, history
<1>13. ASSUME NEW t \in Threads, LineStep(t) PROVE CreditInv'
  BY <1>13 DEF LineStep, doorVars, history
<1>14. CASE UNCHANGED vars
  BY <1>14 DEF vars, doorVars, history
<1>15. QED
  BY <1>1, <1>2, <1>3, <1>4, <1>5, <1>6, <1>7, <1>8, <1>9, <1>10, <1>11, <1>12,
     <1>13, <1>14 DEF Next, Caller, DoorThread

\* Whatever the interleaving of any number of callers, the door thread never
\* opens more often than there were stores and wake-ups of OpenDoor.
THEOREM PaidPulses == Spec => []PulsesPaid
<1>1. Init => CreditInv
  BY DoorAssumption DEF Init, CreditInv, Owed, AtRest
<1>2. TypeOK /\ CreditInv => PulsesPaid
  BY DEF TypeOK, CreditInv, Owed, PulsesPaid
<1>3. QED
  BY <1>1, <1>2, NextCredit, TypeCorrect, PTL DEF Spec

-----------------------------------------------------------------------------
LEMMA NextLine == TypeOK /\ LineInv /\ [Next]_vars => LineInv'
<1> SUFFICES ASSUME TypeOK, LineInv, [Next]_vars, ~direct' PROVE LineInv'
  BY DEF LineInv
<1> USE DoorAssumption
<1>0. /\ ~direct => DoorLine /\ \A c \in Callers : gpio[c].at = "out"
      /\ gpio \in [Threads -> GpioStage]
      /\ pc \in [Threads -> CallerPC \cup DoorPC]
      /\ pc[Door] \in DoorPC
      /\ \A c \in Callers : c # Door /\ c \in Threads
      /\ Door \in Threads
  BY DEF LineInv, TypeOK, GpioTypeOK
\* A step that leaves the line, its static copy and the door thread alone.
<1>a. ASSUME UNCHANGED << gpioVars, direct >>, pc'[Door] = pc[Door] PROVE LineInv'
  BY <1>0, <1>a DEF gpioVars, LineInv, DoorLine, AtRest
<1>1. ASSUME NEW c \in Callers, NEW card \in Cards, Grant(c, card) PROVE LineInv'
  <2>1. UNCHANGED << gpioVars, direct >> /\ pc'[Door] = pc[Door]
    BY <1>0, <1>1 DEF Grant, Actuate, Goto, gpioVars
  <2>2. QED
    BY <2>1, <1>a
<1>2. ASSUME NEW c \in Callers, NEW m \in RelayModes, RemoteOpen(c, m) PROVE LineInv'
  <2>1. UNCHANGED << gpioVars, direct >> /\ pc'[Door] = pc[Door]
    BY <1>0, <1>2 DEF RemoteOpen, Actuate, Goto, gpioVars
  <2>2. QED
    BY <2>1, <1>a
<1>3. ASSUME NEW c \in Callers, TestPause(c) PROVE LineInv'
  BY <1>0, <1>3, <1>a DEF TestPause, Goto, history
<1>4. ASSUME NEW c \in Callers, Store(c) PROVE LineInv'
  BY <1>0, <1>4, <1>a DEF Store, Goto
<1>5. ASSUME NEW c \in Callers, WakeOne(c) PROVE LineInv'
  BY <1>0, <1>5 DEF WakeOne, gpioVars, LineInv, DoorLine, AtRest, DoorPC
<1>6. ASSUME NEW c \in Callers, LineDone(c) PROVE LineInv'
  BY <1>0, <1>6 DEF LineDone, LeaveSet, history
<1>7. CASE Top
  BY <1>0, <1>7 DEF Top, BeginPulse, CallSet, Goto, LineInv, DoorLine, AtRest,
     GpioStage
<1>8. CASE Resume
  BY <1>0, <1>8 DEF Resume, BeginPulse, CallSet, Goto, LineInv, DoorLine, AtRest,
     GpioStage
<1>9. CASE Hold
  BY <1>0, <1>9 DEF Hold, LeaveSet, Out, Goto, history, LineInv, DoorLine, AtRest,
     GpioStage
<1>10. CASE TimeUp
  BY <1>0, <1>10 DEF TimeUp, Goto, gpioVars, history, LineInv, DoorLine, AtRest
<1>11. CASE SwitchOff
  BY <1>0, <1>11 DEF SwitchOff, CallSet, Goto, history, LineInv, DoorLine, AtRest,
     GpioStage
<1>12. CASE EndPulse
  BY <1>0, <1>12 DEF EndPulse, LeaveSet, Out, Goto, history, LineInv, DoorLine,
     AtRest, GpioStage
<1>13. ASSUME NEW c \in Callers, LineStep(c) PROVE LineInv'
  BY <1>0, <1>13 DEF LineStep, GpioStep, TestState, WritePin, CopyState, history
<1>14. CASE LineStep(Door)
  <2> USE <1>0 DEF LineStep, doorVars, history, LineInv, DoorLine, AtRest,
                   GpioStage, Levels
  <2>1. CASE TestState(Door)
    BY <1>14, <2>1 DEF TestState
  <2>2. CASE WritePin(Door)
    BY <1>14, <2>2 DEF WritePin
  <2>3. CASE CopyState(Door)
    BY <1>14, <2>3 DEF CopyState
  <2>4. QED
    BY <1>14, <2>1, <2>2, <2>3 DEF GpioStep
<1>15. CASE UNCHANGED vars
  BY <1>15, <1>a DEF vars, doorVars, history
<1>16. QED
  BY <1>1, <1>2, <1>3, <1>4, <1>5, <1>6, <1>7, <1>8, <1>9, <1>10, <1>11, <1>12,
     <1>13, <1>14, <1>15 DEF Next, Caller, DoorThread

\* Until somebody drives the line directly, the relay is off between pulses
\* and on during the timed wait, for every number of callers.
THEOREM LineAndPulse == Spec => []LineFollowsPulse
<1>1. Init => LineInv
  BY DoorAssumption
     DEF Init, GpioInit, Out, LineInv, DoorLine, AtRest
<1>2. LineInv => LineFollowsPulse
  BY DEF LineInv, DoorLine, LineFollowsPulse, AtRest
<1>3. QED
  BY <1>1, <1>2, NextLine, TypeCorrect, PTL DEF Spec

-----------------------------------------------------------------------------
(* The door implements PaidLock *)

\* A step that moves neither the line nor the door thread into or out of "on"
\* is a stutter, a payment or a take-over.
LEMMA LineAtRest ==
  ASSUME TypeOK, CreditInv, pin' = pin, pc'[Door] = "on" <=> pc[Door] = "on",
         \/ credit' = credit /\ direct' = direct
         \/ credit' = credit + 1 /\ direct' = direct
         \/ credit' = credit /\ direct' = TRUE
  PROVE  [Lock!Next]_(Lock!vars)
<1>1. credit \in Int /\ direct \in BOOLEAN
  BY DEF TypeOK
<1>2. Unspent \in Int /\ Unspent' - Unspent = credit' - credit
  BY <1>1 DEF Unspent
<1>3. CASE credit' = credit /\ direct' = direct
  <2>1. Unspent' = Unspent
    BY <1>1, <1>2, <1>3 DEF Unspent
  <2> QED
    BY <1>3, <2>1 DEF Lock!vars
<1>4. CASE credit' = credit + 1 /\ direct' = direct
  <2>1. Unspent' = Unspent + 1
    BY <1>1, <1>4 DEF Unspent
  <2> QED
    BY <1>4, <2>1 DEF Lock!Next, Lock!Pay
<1>5. CASE credit' = credit /\ direct' = TRUE /\ direct' # direct
  <2>1. Unspent' = Unspent
    BY <1>1, <1>5 DEF Unspent
  <2>2. ~direct
    BY <1>1, <1>5
  <2> QED
    BY <1>5, <2>1, <2>2 DEF Lock!Next, Lock!TakeOver
<1> QED
  BY <1>3, <1>4, <1>5

LEMMA NatPlus == \A m, n \in Nat : m + n \in Nat
  OBVIOUS

LEMMA UnspentNext == ASSUME TypeOK', CreditInv' PROVE Unspent' \in Nat
<1> DEFINE begun == IF pc'[Door] = "on" /\ pin' = 0 THEN 1 ELSE 0
<1>1. Owed' \in 0 .. 2
  BY DEF Owed
<1>2. credit' \in Int /\ credit' >= Owed'
  BY DEF TypeOK, CreditInv
<1>3. credit' \in Nat
  BY <1>1, <1>2
<1>4. begun \in Nat
  OBVIOUS
<1>5. Unspent' = credit' + begun
  BY DEF Unspent
<1> HIDE DEF begun
<1> QED
  BY <1>3, <1>4, <1>5, NatPlus, Zenon

\* Once somebody drives the line, anything goes that keeps its types.
LEMMA LineByHand ==
  ASSUME TypeOK, TypeOK', CreditInv', direct, direct'
  PROVE  Lock!Next
<1>1. pin' \in {0, 1}
  BY DEF TypeOK, GpioTypeOK, Levels
<1>2. Unspent' \in Nat
  BY UnspentNext
<1>3. direct' = direct
  <2>1. direct \in BOOLEAN /\ direct' \in BOOLEAN
    BY DEF TypeOK
  <2> QED
    BY <2>1
<1> QED
  BY <1>1, <1>2, <1>3 DEF Lock!Next, Lock!ByHand

LEMMA StepOfLock ==
  ASSUME TypeOK, CreditInv, LineInv, [Next]_vars, TypeOK', CreditInv', LineInv'
  PROVE  [Lock!Next]_(Lock!vars)
<1> USE DoorAssumption
<1>0. /\ pc \in [Threads -> CallerPC \cup DoorPC] /\ pc[Door] \in DoorPC
      /\ \A c \in Callers : c # Door /\ c \in Threads
      /\ Door \in Threads /\ credit \in Int /\ direct \in BOOLEAN
  BY DEF TypeOK
<1>a. ASSUME NEW c \in Callers, NEW l, Goto(c, l) PROVE pc'[Door] = pc[Door]
  BY <1>0, <1>a DEF Goto
<1>1. ASSUME NEW c \in Callers, NEW card \in Cards, Grant(c, card)
      PROVE  [Lock!Next]_(Lock!vars)
  <2>1. pin' = pin /\ credit' = credit /\ pc'[Door] = pc[Door]
    BY <1>0, <1>1 DEF Grant, Actuate, Goto
  <2>2. direct' = direct \/ direct' = TRUE
    BY <1>1 DEF Grant, Actuate
  <2> QED
    BY <2>1, <2>2, LineAtRest
<1>2. ASSUME NEW c \in Callers, NEW m \in RelayModes, RemoteOpen(c, m)
      PROVE  [Lock!Next]_(Lock!vars)
  <2>1. pin' = pin /\ credit' = credit /\ pc'[Door] = pc[Door]
    BY <1>0, <1>2 DEF RemoteOpen, Actuate, Goto
  <2>2. direct' = direct \/ direct' = TRUE
    BY <1>2 DEF RemoteOpen, Actuate
  <2> QED
    BY <2>1, <2>2, LineAtRest
<1>3. ASSUME NEW c \in Callers, TestPause(c) \/ LineDone(c) PROVE [Lock!Next]_(Lock!vars)
  <2>1. pin' = pin /\ credit' = credit /\ direct' = direct /\ pc'[Door] = pc[Door]
    BY <1>0, <1>3 DEF TestPause, LineDone, Goto, gpioVars, history
  <2> QED
    BY <2>1, LineAtRest
<1>4. ASSUME NEW c \in Callers, Store(c) PROVE [Lock!Next]_(Lock!vars)
  <2>1. pin' = pin /\ credit' = credit + 1 /\ direct' = direct /\ pc'[Door] = pc[Door]
    BY <1>0, <1>4 DEF Store, Goto, gpioVars
  <2> QED
    BY <2>1, LineAtRest
<1>5. ASSUME NEW c \in Callers, WakeOne(c) PROVE [Lock!Next]_(Lock!vars)
  <2>1. pin' = pin /\ credit' = credit + 1 /\ direct' = direct
    BY <1>5 DEF WakeOne, gpioVars
  <2>2. pc'[Door] = "on" <=> pc[Door] = "on"
    BY <1>0, <1>5 DEF WakeOne, DoorPC
  <2> QED
    BY <2>1, <2>2, LineAtRest
\* The steps of the door thread move the line only as long as nobody else does.
<1>b. CASE direct /\ direct'
  BY <1>b, LineByHand
<1>c. SUFFICES ASSUME ~(direct /\ direct'), DoorThread \/ \E c \in Callers : LineStep(c)
      PROVE  [Lock!Next]_(Lock!vars)
  <2>1. CASE UNCHANGED vars
    <3>1. pin' = pin /\ credit' = credit /\ direct' = direct /\ pc' = pc
      BY <2>1 DEF vars, gpioVars, doorVars, history
    <3> QED
      BY <3>1, LineAtRest
  <2> QED
    BY <1>1, <1>2, <1>3, <1>4, <1>5, <1>b, <1>c, <2>1 DEF Next, Caller
<1>6. direct' = direct
  BY <1>0, <1>c DEF DoorThread, Top, Resume, Hold, TimeUp, SwitchOff, EndPulse, LineStep,
                    BeginPulse, history
<1>7. ~direct
  BY <1>0, <1>6, <1>c
<1>8. DoorLine /\ \A c \in Callers : gpio[c].at = "out"
  BY <1>7 DEF LineInv
<1>9. CASE Top
  <2>1. pin' = pin /\ pin = 0 /\ pc[Door] = "top"
    BY <1>8, <1>9 DEF Top, DoorLine, AtRest
  <2>2. CASE is_pause
    <3>1. credit' = credit /\ pc'[Door] = "parked"
      BY <1>0, <1>9, <2>2 DEF Top, Goto
    <3> QED
      BY <1>6, <2>1, <3>1, LineAtRest
  <2>3. CASE ~is_pause
    <3>1. credit' = credit - 1 /\ pc'[Door] = "on"
      BY <1>0, <1>9, <2>3 DEF Top, BeginPulse, Goto
    <3>2. Unspent' = Unspent
      BY <1>0, <2>1, <3>1 DEF Unspent
    <3> QED
      BY <1>6, <2>1, <3>2 DEF Lock!vars
  <2> QED
    BY <2>2, <2>3
<1>10. CASE Resume
  <2>1. /\ pin' = pin /\ pin = 0 /\ pc[Door] = "woken"
        /\ credit' = credit - 1 /\ pc'[Door] = "on"
    BY <1>0, <1>8, <1>10 DEF Resume, BeginPulse, Goto, DoorLine, AtRest
  <2>2. Unspent' = Unspent
    BY <1>0, <2>1 DEF Unspent
  <2> QED
    BY <1>6, <2>1, <2>2 DEF Lock!vars
<1>11. CASE Hold
  <2>1. /\ pin' = pin /\ pin = 1 /\ credit' = credit
    BY <1>8, <1>11 DEF Hold, LeaveSet, DoorLine, history
  <2>2. Unspent' = Unspent
    BY <1>0, <2>1 DEF Unspent
  <2> QED
    BY <1>6, <2>1, <2>2 DEF Lock!vars
<1>12. CASE TimeUp \/ SwitchOff \/ EndPulse
  <2>1. /\ pin' = pin /\ credit' = credit /\ pc[Door] # "on" /\ pc'[Door] # "on"
    BY <1>0, <1>12 DEF TimeUp, SwitchOff, EndPulse, Goto, gpioVars, history
  <2> QED
    BY <1>6, <2>1, LineAtRest
<1>13. CASE LineStep(Door)
  <2>0. credit' = credit /\ pc' = pc
    BY <1>13 DEF LineStep, doorVars, history
  <2>1. CASE TestState(Door) \/ CopyState(Door)
    <3>1. pin' = pin
      BY <2>1 DEF TestState, CopyState
    <3> QED
      BY <1>6, <2>0, <3>1, LineAtRest
  <2>2. CASE WritePin(Door) /\ pc[Door] = "on"
    <3>1. pin = 0 /\ pin' = 1
      BY <1>8, <2>2 DEF WritePin, DoorLine
    <3>2. Unspent' = Unspent - 1 /\ Unspent > 0
      BY <1>0, <2>0, <2>2, <3>1 DEF Unspent, CreditInv, Owed, AtRest
    <3> QED
      BY <1>6, <3>1, <3>2 DEF Lock!Next, Lock!Open
  <2>3. CASE WritePin(Door) /\ pc[Door] # "on"
    <3>1. pc[Door] = "off"
      BY <1>0, <1>8, <2>3 DEF WritePin, DoorLine, AtRest, DoorPC
    <3>2. pin = 1 /\ pin' = 0
      BY <1>8, <2>3, <3>1 DEF WritePin, DoorLine
    <3>3. Unspent' = Unspent
      BY <1>0, <2>0, <2>3 DEF Unspent
    <3> QED
      BY <1>6, <3>2, <3>3 DEF Lock!Next, Lock!Shut
  <2> QED
    BY <1>13, <2>1, <2>2, <2>3 DEF LineStep, GpioStep
<1>14. ASSUME NEW c \in Callers, LineStep(c) PROVE FALSE
  BY <1>8, <1>14 DEF LineStep, GpioStep, TestState, WritePin, CopyState
<1> QED
  BY <1>c, <1>9, <1>10, <1>11, <1>12, <1>13, <1>14 DEF DoorThread

\* The door with all its threads is a lock that opens against payment: whatever
\* the callers, the wake-ups and the unlocked copy of the line do, every step
\* is one of PaidLock or none at all.
THEOREM Implements == Spec => OpensAgainstPayment
<1>1. Init => CreditInv /\ LineInv /\ Lock!Init
  BY DoorAssumption
     DEF Init, GpioInit, Out, CreditInv, Owed, LineInv, DoorLine, AtRest, Unspent, Lock!Init
<1>2. Spec => [](TypeOK /\ CreditInv /\ LineInv)
  BY <1>1, InitType, NextType, NextCredit, NextLine, PTL DEF Spec
<1>3. /\ TypeOK /\ CreditInv /\ LineInv /\ [Next]_vars
      /\ TypeOK' /\ CreditInv' /\ LineInv'
      => [Lock!Next]_(Lock!vars)
  BY StepOfLock
<1> QED
  BY <1>1, <1>2, <1>3, PTL DEF Spec, OpensAgainstPayment, Lock!Spec
=============================================================================
