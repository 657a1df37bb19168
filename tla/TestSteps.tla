----------------------------- MODULE TestSteps ------------------------------
(***************************************************************************)
(* The steps the tests of the two VTS suites are made of.  A test is a     *)
(* sequence of steps: calls of the HAL, each with the results the test     *)
(* accepts, actions on the test's environments and its event callback,     *)
(* waits, and checks.                                                      *)
(***************************************************************************)
EXTENDS DataSheets

CONSTANTS Drivers,      \* the drivers found, of SMI330, SMI240, smi230acc and smi230gyro
          Handles,      \* the sensors of their list that are kept (bound)
          kNumEvents,   \* events a test of the vectors collects (20)
          kFlushes      \* flushes of each sensor in FlushSensor (5)

ASSUME TestAssumption ==
  /\ Handles # {} /\ Handles \subseteq DOMAIN SensorsListOf(Drivers)
  /\ kNumEvents \in Nat \ {0} /\ kFlushes \in Nat \ {0}

\* What getSensorsList() returns.
SensorsList == [k \in 1 .. Cardinality(Handles) |->
                  SensorsListOf(Drivers)[SetToSortSeq(Handles, <)[k]]]

ForEach(sensors, StepsFor(_)) == FlattenSeq([k \in DOMAIN sensors |-> StepsFor(sensors[k])])

(* Calls.  "OK", or the error of the interface.                            *)
OK == {"OK"}
AnyResult == {"OK", "ILLEGAL_ARGUMENT", "BAD_VALUE"}

CallActivate(s, enable, want) == <<[op |-> "activate", sensor |-> s, enable |-> enable, want |-> want]>>
CallBatch(s, want) == <<[op |-> "batch", sensor |-> s, want |-> want]>>
CallFlush(s, want) == <<[op |-> "flush", sensor |-> s, want |-> want]>>
CallSetOperationMode(mode, want) == <<[op |-> "setOperationMode", mode |-> mode, want |-> want]>>

\* The channel is the one the test has registered last, or one that never existed.
CallRegister(want) == <<[op |-> "registerDirectChannel", want |-> want]>>
CallUnregister(want) == <<[op |-> "unregisterDirectChannel", want |-> want]>>
CallConfigure(s, rate, want) ==
  <<[op |-> "configDirectReport", sensor |-> s, rate |-> rate, valid |-> TRUE, want |-> want]>>
CallConfigureInvalidChannel(s, rate, want) ==
  <<[op |-> "configDirectReport", sensor |-> s, rate |-> rate, valid |-> FALSE, want |-> want]>>

(* The test's own steps.                                                   *)
Begin == <<[op |-> "begin"]>>
Check(holds) == <<[op |-> "check", holds |-> holds]>>
RegisterCallback == <<[op |-> "registerCallback"]>>
UnregisterCallback == <<[op |-> "unregisterCallback"]>>
ResetCallback == <<[op |-> "resetCallback"]>>
WaitForFlushEvents(sensors, flushCalls) ==
  <<[op |-> "waitForFlushEvents", sensors |-> sensors, calls |-> flushCalls]>>
CheckFlushCount(sensors, expected) ==
  <<[op |-> "checkFlushCount", sensors |-> sensors, expected |-> expected]>>
WaitForEvents(sensors) == <<[op |-> "waitForEvents", sensors |-> sensors]>>
SaveLastEvents == <<[op |-> "saveLastEvents"]>>
Sleep == <<[op |-> "sleep"]>>
CheckNotStale(sensors) == <<[op |-> "checkNotStale", sensors |-> sensors]>>
FillMemory == <<[op |-> "fillMemory"]>>
CheckMemoryZeroed == <<[op |-> "checkMemoryZeroed"]>>

\* collectEvents(): into the environment's list, until there are enough or time is up.
\* More than kNumEvents are counted as kNumEvents.
CollectEvents(env, limit) ==
  <<[op |-> "collect", env |-> env], [op |-> "collected", env |-> env, limit |-> limit]>>
CheckCollectedAtLeast(n) == <<[op |-> "checkCollected", sizes |-> n .. kNumEvents]>>
CheckNoneCollected == <<[op |-> "checkCollected", sizes |-> {0}]>>

(* The environments: SetUp() and TearDown() of the base class.             *)
StartPollingThread(env) == <<[op |-> "startPollingThread", env |-> env]>>
StopPollingThread(env) == <<[op |-> "stopPollingThread", env |-> env], [op |-> "join", env |-> env]>>
InitDisable(s) == <<[op |-> "initDisable", sensor |-> s]>>
InitChannels == <<[op |-> "initChannels"]>>
InitQueue(env) == <<[op |-> "initQueue", env |-> env]>>

HandlesOf(sensors) == {sensors[k].sensorHandle : k \in DOMAIN sensors}
WithFlag(flag) == SelectSeq(SensorsList, LAMBDA info : flag \in info.flags)
WithoutFlags(flags) == SelectSeq(SensorsList, LAMBDA info : info.flags \cap flags = {})
MaxHandle == CHOOSE h \in Handles : \A g \in Handles : g =< h
=============================================================================
