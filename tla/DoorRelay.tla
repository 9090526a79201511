----------------------------- MODULE DoorRelay ------------------------------
(***************************************************************************)
(* The door: the Utils_Door thread, the threads that ask it to open, and   *)
(* the relay line they share.                                              *)
(*                                                                         *)
(* OpenDoor tests is_pause without the mutex, stores the card and clears   *)
(* is_pause under it, and wakes the door thread after releasing it.  The   *)
(* door thread waits on the same condition variable twice: for work, and   *)
(* for mOpenDoorWaitTime while the relay is on.  QWaitCondition has no     *)
(* spurious wake-ups and wakeOne with nobody waiting is lost.              *)
(***************************************************************************)
EXTENDS GpioLine, FiniteSets

CONSTANTS
  Callers,     \* the threads that grant passage (main, identity, HTTP, ...)
  Door,        \* the Utils_Door thread
  Cards,       \* the card numbers handed to OpenDoor
  RelayModes,  \* the values Door/Relay of the configuration may take
  MaxCalls     \* a bound on the passages granted, for model checking

ASSUME DoorAssumption ==
  /\ Door \notin Callers
  /\ Threads = Callers \cup {Door}
  /\ RelayModes \subseteq {-1, 0, 1, 2}
  /\ RelayModes # {}
  /\ MaxCalls \in Nat
  /\ IsFiniteSet(Callers)

VARIABLES
  is_pause,     \* Utils_Door::is_pause
  mszICCardNum, \* the card the Wiegand output will carry
  relayMode,    \* ReadConfig::getDoor_Relay
  pc,           \* pc[t]: where thread t is
  arg,          \* arg[c]: the argument of c's call of OpenDoor
  calls,        \* history: how many passages have been granted
  credit,       \* history: Store and WakeOne steps so far, less the pulses
  cut,          \* history: this pulse was ended by a wake-up, not by its time
  direct        \* history: a caller has driven the line itself

doorVars == << is_pause, mszICCardNum, relayMode, pc, arg >>
history == << calls, credit, cut, direct >>
vars == << gpioVars, doorVars, history >>

CallerPC == {"idle", "test", "store", "wake", "line"}
DoorPC == {"top", "parked", "woken", "on", "hold", "timeup", "off"}

\* QMutex sync: only the door thread keeps it across several steps, while it
\* drives the relay.
SyncFree == pc[Door] \notin {"on", "off"}

Goto(t, l) == pc' = [pc EXCEPT ![t] = l]

Init ==
  /\ GpioInit
  /\ is_pause = TRUE
  /\ mszICCardNum \in Cards
  /\ relayMode = -1
  /\ pc = [t \in Threads |-> IF t = Door THEN "top" ELSE "idle"]
  /\ arg = [c \in Callers |-> mszICCardNum]
  /\ calls = 0
  /\ credit = 0
  /\ cut = FALSE
  /\ direct = FALSE

-----------------------------------------------------------------------------
(* The callers *)

\* What every granting handler does with the relay mode m: drive the line
\* directly when the door is kept open (1) or shut (2), else call OpenDoor.
Actuate(c, m) ==
  IF m \in {1, 2}
  THEN /\ Goto(c, "line")
       /\ CallSet(c, IF m = 1 THEN 1 ELSE 0)
       /\ direct' = TRUE
  ELSE /\ Goto(c, "test")
       /\ UNCHANGED << gpio, direct >>

\* A handler of IdentityManagement grants passage.
Grant(c, card) ==
  /\ pc[c] = "idle"
  /\ calls < MaxCalls
  /\ calls' = calls + 1
  /\ arg' = [arg EXCEPT ![c] = card]
  /\ Actuate(c, relayMode)
  /\ UNCHANGED << pin, nRelayState, is_pause, mszICCardNum, relayMode, credit, cut >>

\* doOpenDoor: the server sets the relay mode and acts on it; a status that
\* is none of -1, 1 and 2 is stored and does nothing else.
RemoteOpen(c, m) ==
  /\ pc[c] = "idle"
  /\ calls < MaxCalls
  /\ calls' = calls + 1
  /\ relayMode' = m
  /\ IF m = 0 THEN UNCHANGED << pc, gpio, direct >> ELSE Actuate(c, m)
  /\ UNCHANGED << pin, nRelayState, is_pause, mszICCardNum, arg, credit, cut >>

\* OpenDoor: if (is_pause), read without the mutex.
TestPause(c) ==
  /\ pc[c] = "test"
  /\ Goto(c, IF is_pause THEN "store" ELSE "idle")
  /\ UNCHANGED << gpioVars, is_pause, mszICCardNum, relayMode, arg, history >>

\* OpenDoor: lock, store the card, clear is_pause, unlock.
Store(c) ==
  /\ pc[c] = "store"
  /\ SyncFree
  /\ mszICCardNum' = arg[c]
  /\ is_pause' = FALSE
  /\ Goto(c, "wake")
  /\ credit' = credit + 1
  /\ UNCHANGED << gpioVars, relayMode, arg, calls, cut, direct >>

\* Mutant of WakeOne: the call is missing.
WakeNobody(c) ==
  /\ pc[c] = "wake"
  /\ Goto(c, "idle")
  /\ UNCHANGED << gpioVars, is_pause, mszICCardNum, relayMode, arg, history >>

\* OpenDoor: wakeOne ends whichever of its two waits the door thread is in.
WakeOne(c) ==
  /\ pc[c] = "wake"
  /\ pc' = [pc EXCEPT ![c] = "idle",
                      ![Door] = CASE @ = "parked" -> "woken"
                                  [] @ = "hold"   -> "timeup"
                                  [] OTHER        -> @]
  /\ cut' = (cut \/ pc[Door] = "hold")
  /\ credit' = credit + 1
  /\ UNCHANGED << gpioVars, is_pause, mszICCardNum, relayMode, arg, calls, direct >>

\* The direct write of the line is over.
LineDone(c) ==
  /\ pc[c] = "line"
  /\ LeaveSet(c)
  /\ Goto(c, "idle")
  /\ UNCHANGED << pin, nRelayState, is_pause, mszICCardNum, relayMode, arg, history >>

-----------------------------------------------------------------------------
(* The door thread *)

\* Switch the relay on, with the mutex held: the pulse begins.
BeginPulse ==
  /\ Goto(Door, "on")
  /\ CallSet(Door, 1)
  /\ credit' = credit - 1
  /\ cut' = FALSE

\* Mutant of Top: the wait for work is missing.
TopWithoutWait ==
  /\ pc[Door] = "top"
  /\ BeginPulse
  /\ UNCHANGED << pin, nRelayState, is_pause, mszICCardNum, relayMode, arg, calls, direct >>

\* lock; if (is_pause) wait.
Top ==
  /\ pc[Door] = "top"
  /\ IF is_pause
     THEN /\ Goto(Door, "parked")
          /\ UNCHANGED << gpio, credit, cut >>
     ELSE BeginPulse
  /\ UNCHANGED << pin, nRelayState, is_pause, mszICCardNum, relayMode, arg, calls, direct >>

\* The wait returns with the mutex; is_pause is not tested again.
Resume ==
  /\ pc[Door] = "woken"
  /\ BeginPulse
  /\ UNCHANGED << pin, nRelayState, is_pause, mszICCardNum, relayMode, arg, calls, direct >>

\* The relay is on and the card is on the Wiegand output: the timed wait
\* releases the mutex.
Hold ==
  /\ pc[Door] = "on"
  /\ LeaveSet(Door)
  /\ Goto(Door, "hold")
  /\ UNCHANGED << pin, nRelayState, is_pause, mszICCardNum, relayMode, arg, history >>

\* mOpenDoorWaitTime has passed.
TimeUp ==
  /\ pc[Door] = "hold"
  /\ Goto(Door, "timeup")
  /\ UNCHANGED << gpioVars, is_pause, mszICCardNum, relayMode, arg, history >>

\* Mutant of SwitchOff: the relay is driven with the wrong value.
SwitchOn ==
  /\ pc[Door] = "timeup"
  /\ Goto(Door, "off")
  /\ CallSet(Door, 1)
  /\ UNCHANGED << pin, nRelayState, is_pause, mszICCardNum, relayMode, arg, history >>

\* The timed wait returns with the mutex: switch the relay off.
SwitchOff ==
  /\ pc[Door] = "timeup"
  /\ Goto(Door, "off")
  /\ CallSet(Door, 0)
  /\ UNCHANGED << pin, nRelayState, is_pause, mszICCardNum, relayMode, arg, history >>

\* Mutant of EndPulse: the request is not marked as done.
EndKeepsRequest ==
  /\ pc[Door] = "off"
  /\ LeaveSet(Door)
  /\ Goto(Door, "top")
  /\ UNCHANGED << pin, nRelayState, is_pause, mszICCardNum, relayMode, arg, history >>

\* Mutant of EndPulse: run() is not a loop.
EndThread ==
  /\ pc[Door] = "off"
  /\ LeaveSet(Door)
  /\ is_pause' = TRUE
  /\ Goto(Door, "idle")
  /\ UNCHANGED << pin, nRelayState, mszICCardNum, relayMode, arg, history >>

\* is_pause = true; unlock.
EndPulse ==
  /\ pc[Door] = "off"
  /\ LeaveSet(Door)
  /\ is_pause' = TRUE
  /\ Goto(Door, "top")
  /\ UNCHANGED << pin, nRelayState, mszICCardNum, relayMode, arg, history >>

\* A step inside Device_SetDeviceState.
LineStep(t) == GpioStep(t) /\ UNCHANGED << doorVars, history >>

DoorThread ==
  Top \/ Resume \/ Hold \/ TimeUp \/ SwitchOff \/ EndPulse \/ LineStep(Door)

Caller(c) == TestPause(c) \/ Store(c) \/ WakeOne(c) \/ LineDone(c) \/ LineStep(c)

Next ==
  \/ \E c \in Callers, card \in Cards : Grant(c, card)
  \/ \E c \in Callers, m \in RelayModes : RemoteOpen(c, m)
  \/ \E c \in Callers : Caller(c)
  \/ DoorThread

\* Every thread is scheduled; the mutex is free whenever the door thread is
\* between two holds, and the callers hold it for one step only.
Fairness == WF_vars(DoorThread) /\ \A c \in Callers : WF_vars(Caller(c))

Spec == Init /\ [][Next]_vars /\ Fairness

-----------------------------------------------------------------------------
(* Properties *)

TypeOK ==
  /\ GpioTypeOK
  /\ is_pause \in BOOLEAN
  /\ mszICCardNum \in Cards
  /\ relayMode \in RelayModes \cup {-1}
  /\ pc \in [Threads -> CallerPC \cup DoorPC]
  /\ pc[Door] \in DoorPC
  /\ \A c \in Callers : pc[c] \in CallerPC
  /\ arg \in [Callers -> Cards]
  /\ calls \in 0 .. MaxCalls
  /\ credit \in Int
  /\ cut \in BOOLEAN
  /\ direct \in BOOLEAN

\* The door thread is between two pulses.
AtRest == pc[Door] \in {"top", "parked", "woken"}

\* As long as no caller has driven the relay itself, the relay is off between
\* two pulses and on through the whole timed wait, whatever was written or
\* skipped because of the static copy (Utils_Door::run and
\* Device_SetDeviceState together).
LineFollowsPulse ==
  ~direct => /\ AtRest => pin = 0
             /\ pc[Door] = "hold" => pin = 1

\* The door never opens by itself: every pulse is paid for by a request that
\* stored its card or by a wake-up, each of which one call of OpenDoor does
\* once.  run() does not test is_pause again after its wait, so that a late
\* wake-up alone opens the door too, and a call may open it twice, never more.
PulsesPaid == credit >= 0

\* A request stored while the door is at rest is not lost: the relay goes on,
\* although the door thread may be anywhere between its test and its wait.
RequestServed ==
  \A c \in Callers : (pc[c] = "wake" /\ ~is_pause /\ AtRest) ~> (pc[Door] = "on")

\* As long as nobody drives the relay directly, an open door closes again.
DoorCloses == (pin = 1) ~> (pin = 0 \/ direct)

\* The relay stays on for mOpenDoorWaitTime: no wake-up ends a pulse early.
PulseLasts == ~cut

-----------------------------------------------------------------------------
(* The door implements PaidLock *)

\* What has been paid and has not moved the line yet, the pulse that has begun
\* but not reached the line included.
Unspent == credit + (IF pc[Door] = "on" /\ pin = 0 THEN 1 ELSE 0)

Lock == INSTANCE PaidLock WITH level <- pin, owed <- Unspent, handed <- direct

\* Each rise of the relay line is paid for by one store or wake-up of OpenDoor
\* of its own, and nothing else moves the line, through the two waits of the
\* door thread and the unlocked static copy of Device_SetDeviceState, until a
\* handler drives the line itself.
OpensAgainstPayment == Lock!Spec
=============================================================================
