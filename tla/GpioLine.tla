------------------------------ MODULE GpioLine ------------------------------
(***************************************************************************)
(* One output line of YNH_LJX::GPIO, here the relay that unlocks the door. *)
(* Device_SetDeviceState keeps the last value it wrote in a static and     *)
(* skips the write when the new value equals it.  No lock guards the test, *)
(* the write and the update of the static, so that several threads may be  *)
(* between any two of them.                                                *)
(***************************************************************************)
EXTENDS Integers

CONSTANT Threads  \* the threads that call Device_SetDeviceState on this line

VARIABLES
  pin,         \* the level on the line: 0 or 1
  nRelayState, \* the static copy; -1 until the first write
  gpio         \* gpio[t]: where t is in Device_SetDeviceState, and with what

gpioVars == << pin, nRelayState, gpio >>

Levels == {0, 1}

\* Not inside Device_SetDeviceState.
Out == [at |-> "out", state |-> 0]

GpioStage == [at : {"out", "test", "write", "copy", "done"}, state : Levels]

\* Mutant of GpioInit: the static copy starts at the level of an open door.
GpioInitOpen ==
  /\ pin = 0
  /\ nRelayState = 1
  /\ gpio = [t \in Threads |-> Out]

GpioInit ==
  /\ pin = 0
  /\ nRelayState = -1
  /\ gpio = [t \in Threads |-> Out]

\* The caller enters Device_SetDeviceState(DEVICE_Relay, s).
CallSet(t, s) == gpio' = [gpio EXCEPT ![t] = [at |-> "test", state |-> s]]

\* if (nRelayState != state)
TestState(t) ==
  /\ gpio[t].at = "test"
  /\ gpio' = [gpio EXCEPT ![t].at =
                 IF nRelayState # gpio[t].state THEN "write" ELSE "done"]
  /\ UNCHANGED << pin, nRelayState >>

\* GPIO_SetGPIOValue(2, 6, state)
WritePin(t) ==
  /\ gpio[t].at = "write"
  /\ pin' = gpio[t].state
  /\ gpio' = [gpio EXCEPT ![t].at = "copy"]
  /\ UNCHANGED nRelayState

\* nRelayState = state
CopyState(t) ==
  /\ gpio[t].at = "copy"
  /\ nRelayState' = gpio[t].state
  /\ gpio' = [gpio EXCEPT ![t].at = "done"]
  /\ UNCHANGED pin

GpioStep(t) == TestState(t) \/ WritePin(t) \/ CopyState(t)

\* The caller returns from Device_SetDeviceState.
LeaveSet(t) ==
  /\ gpio[t].at = "done"
  /\ gpio' = [gpio EXCEPT ![t] = Out]

GpioTypeOK ==
  /\ pin \in Levels
  /\ nRelayState \in Levels \cup {-1}
  /\ gpio \in [Threads -> GpioStage]
=============================================================================
