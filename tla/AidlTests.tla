------------------------------ MODULE AidlTests ------------------------------
(***************************************************************************)
(* The VTS suite of the AIDL HAL: each test of                             *)
(* aidl/vts/BoschAidlHalSensorsTargetTest.cpp as the steps it takes, with  *)
(* those of its environment (aidl/vts/SensorsAidlEnvironment.cpp) and of   *)
(* the initialize() it calls (aidl/SensorsHalAidl.cpp).  A check of the    *)
(* sensor list alone is a formula over the whole list.  The ranges of the  *)
(* averages checkVec3Sensor() computes depend on how the device lies and   *)
(* are left out.                                                           *)
(***************************************************************************)
EXTENDS TestSteps

Refused == {"ILLEGAL_ARGUMENT"}

IsDirectChannelTypeSupported(sensor, memType) ==
  CASE memType = "ASHMEM"  -> "DIRECT_CHANNEL_ASHMEM" \in sensor.flags
    [] memType = "GRALLOC" -> "DIRECT_CHANNEL_GRALLOC" \in sensor.flags
    [] OTHER -> FALSE

IsDirectReportRateSupported(sensor, rate) == RateLevels[sensor.maxDirectRate] >= RateLevels[rate]

-----------------------------------------------------------------------------
(* Helpers                                                                 *)
IsValidType(type) == type # "META_DATA"
GetInvalidSensorHandle == MaxHandle + 1

ActivateAllSensors(enable) ==
  ForEach(SelectSeq(SensorsList, LAMBDA s : IsValidType(s.type)),
          LAMBDA s : CallBatch(s.sensorHandle, OK) \o CallActivate(s.sensorHandle, enable, OK))

GetNonOneShotSensors == WithoutFlags({"ONE_SHOT_MODE"})
GetNonOneShotAndNonOnChangeAndNonSpecialSensors ==
  WithoutFlags({"ONE_SHOT_MODE", "ON_CHANGE_MODE", "SPECIAL_REPORTING_MODE"})
GetOneShotSensors == WithFlag("ONE_SHOT_MODE")
GetInjectEventSensors == WithFlag("DATA_INJECTION")

Initialize(env) ==
  ForEach(SensorsList, LAMBDA s : InitDisable(s.sensorHandle)) \o InitQueue(env) \o InitChannels

ResetHal(env) ==
  Initialize(env) \o ForEach(SensorsList, LAMBDA s : CallActivate(s.sensorHandle, FALSE, OK))

EnvSetUp(env) == ResetHal(env) \o StartPollingThread(env)
EnvTearDown(env) == StopPollingThread(env)

SetUp == EnvSetUp("first") \o Begin

\* mSensorHandles: every handle the test has activated; the results are ignored.
mSensorHandles(body) ==
  {body[k].sensor : k \in {i \in DOMAIN body : body[i].op = "activate" /\ body[i].enable}}

TearDown(body) ==
  ForEach(SetToSortSeq(mSensorHandles(body), <), LAMBDA h : CallActivate(h, FALSE, AnyResult))
    \o EnvTearDown("first")

RunFlushTest(sensors, activateSensor, flushCalls, expectedFlushCount, expectedResult) ==
  RegisterCallback
    \o ForEach(sensors, LAMBDA s :
         CallBatch(s.sensorHandle, AnyResult) \o CallActivate(s.sensorHandle, activateSensor, AnyResult)
           \o ForEach([i \in 1 .. flushCalls |-> s.sensorHandle], LAMBDA h : CallFlush(h, expectedResult)))
    \o WaitForFlushEvents(HandlesOf(sensors), flushCalls)
    \o ForEach(sensors, LAMBDA s : CallActivate(s.sensorHandle, FALSE, AnyResult))
    \o UnregisterCallback
    \o CheckFlushCount(HandlesOf(sensors), expectedFlushCount)

RunSingleFlushTest(sensors, activateSensor, expectedFlushCount, expectedResult) ==
  RunFlushTest(sensors, activateSensor, 1, expectedFlushCount, expectedResult)

-----------------------------------------------------------------------------
(* The sensor list                                                         *)
StringTypes == {"ACCELEROMETER", "ACCELEROMETER_LIMITED_AXES", "ACCELEROMETER_LIMITED_AXES_UNCALIBRATED",
                "ACCELEROMETER_UNCALIBRATED", "GYROSCOPE", "GYROSCOPE_LIMITED_AXES",
                "GYROSCOPE_LIMITED_AXES_UNCALIBRATED", "GYROSCOPE_UNCALIBRATED"}

TypeMatchesString(type, string) == type \in StringTypes /\ string = type

ModeOfTypes == [
  CONTINUOUS_MODE        |-> StringTypes \cup
    {"MAGNETIC_FIELD", "ORIENTATION", "PRESSURE", "GRAVITY", "LINEAR_ACCELERATION", "ROTATION_VECTOR",
     "MAGNETIC_FIELD_UNCALIBRATED", "GAME_ROTATION_VECTOR", "GEOMAGNETIC_ROTATION_VECTOR",
     "POSE_6DOF", "HEART_BEAT", "HEADING"},
  ON_CHANGE_MODE         |-> {"LIGHT", "PROXIMITY", "RELATIVE_HUMIDITY", "AMBIENT_TEMPERATURE", "HEART_RATE",
     "DEVICE_ORIENTATION", "STEP_COUNTER", "LOW_LATENCY_OFFBODY_DETECT"},
  ONE_SHOT_MODE          |-> {"SIGNIFICANT_MOTION", "WAKE_GESTURE", "GLANCE_GESTURE", "PICK_UP_GESTURE",
     "MOTION_DETECT", "STATIONARY_DETECT"},
  SPECIAL_REPORTING_MODE |-> {"STEP_DETECTOR", "TILT_DETECTOR", "WRIST_TILT_GESTURE", "DYNAMIC_SENSOR_META"}]

\* No mode is expected of a type that none lists.
TypeMatchesReportMode(info) ==
  \A mode \in DOMAIN ModeOfTypes :
    info.type \in ModeOfTypes[mode] => info.flags \cap DOMAIN ModeOfTypes = {mode}

DelayMatchesReportMode(info) ==
  LET mode == info.flags \cap DOMAIN ModeOfTypes
  IN \/ mode = {"CONTINUOUS_MODE"} /\ info.minDelayUs > 0 /\ info.maxDelayUs >= 0
     \/ mode = {"ON_CHANGE_MODE"} /\ info.minDelayUs >= 0 /\ info.maxDelayUs >= 0
     \/ mode = {"ONE_SHOT_MODE"} /\ info.minDelayUs = -1 /\ info.maxDelayUs = 0
     \/ mode = {"SPECIAL_REPORTING_MODE"}

SensorListValid ==
  LET list == SensorsListOf(Drivers)
  IN /\ \A h \in DOMAIN list :
          LET info == list[h]
          IN /\ IF info.type = "DEVICE_PRIVATE_BASE" THEN info.typeAsString # ""
                ELSE info.typeAsString = "" \/ TypeMatchesString(info.type, info.typeAsString)
             /\ info.name # <<>> /\ info.vendor # ""
             /\ info.power >= 0 /\ info.maxRange > 0
             /\ info.type \notin {"ADDITIONAL_INFO", "META_DATA"}
             /\ info.fifoMaxEventCount >= info.fifoReservedEventCount
             /\ TypeMatchesReportMode(info)
             /\ info.minDelayUs =< info.maxDelayUs
             /\ DelayMatchesReportMode(info)
     /\ \A g, h \in DOMAIN list : g # h /\ list[g].type = list[h].type => list[g].name # list[h].name

SensorListContainsBoschSensor ==
  \A info \in ToSet(SensorsListOf(Drivers)) : info.vendor = "Robert Bosch GmbH"

\* SMI[0-9]+ BOSCH .* Sensor
ConfigCheck ==
  \A info \in ToSet(SensorsListOf(Drivers)) :
    /\ info.name[1] \in ToSet(Chips) /\ info.name[2] = "BOSCH" /\ info.name[Len(info.name)] = "Sensor"
    /\ info.vendor = "Robert Bosch GmbH"

-----------------------------------------------------------------------------
(* The tests                                                               *)
SetOperationMode ==
  IF GetInjectEventSensors # <<>>
  THEN CallSetOperationMode("NORMAL", OK) \o CallSetOperationMode("DATA_INJECTION", OK)
         \o CallSetOperationMode("NORMAL", OK)
  ELSE CallSetOperationMode("DATA_INJECTION", Refused)

CallInitializeTwice ==
  EnvSetUp("second")
    \o ActivateAllSensors(TRUE)
    \o CollectEvents("first", 1) \o CheckNoneCollected
    \o CollectEvents("second", 1) \o CheckCollectedAtLeast(1)
    \o ActivateAllSensors(FALSE)
    \o EnvTearDown("second") \o EnvTearDown("first") \o EnvSetUp("first")
    \o ActivateAllSensors(TRUE)
    \o CollectEvents("first", 1) \o CheckCollectedAtLeast(1)
    \o ActivateAllSensors(FALSE)

CleanupConnectionsOnInitialize ==
  ActivateAllSensors(TRUE)
    \o CollectEvents("first", 1) \o CheckCollectedAtLeast(1)
    \o EnvTearDown("first") \o EnvSetUp("first")
    \o CollectEvents("first", 1) \o CheckNoneCollected
    \o ActivateAllSensors(TRUE)
    \o CollectEvents("first", 1) \o CheckCollectedAtLeast(1)
    \o ActivateAllSensors(FALSE)

FlushSensor ==
  IF GetNonOneShotSensors = <<>> THEN <<>>
  ELSE RunSingleFlushTest(GetNonOneShotSensors, TRUE, 1, OK)
         \o RunFlushTest(GetNonOneShotSensors, TRUE, kFlushes, kFlushes, OK)

FlushOneShotSensor ==
  IF GetOneShotSensors = <<>> THEN <<>>
  ELSE RunSingleFlushTest(GetOneShotSensors, TRUE, 0, AnyResult \ OK)

FlushInactiveSensor ==
  LET sensors == IF GetNonOneShotSensors # <<>> THEN GetNonOneShotSensors ELSE GetOneShotSensors
  IN IF sensors = <<>> THEN <<>> ELSE RunSingleFlushTest(sensors, FALSE, 0, AnyResult \ OK)

Batch ==
  ActivateAllSensors(FALSE)
    \o ForEach(SensorsList, LAMBDA s :
         CallBatch(s.sensorHandle, OK) \o CallActivate(s.sensorHandle, TRUE, AnyResult)
           \o CallBatch(s.sensorHandle, OK))
    \o ActivateAllSensors(FALSE)
    \o CallBatch(GetInvalidSensorHandle, Refused)

Activate ==
  ForEach(SensorsList, LAMBDA s :
    CallBatch(s.sensorHandle, OK)
      \o CallActivate(s.sensorHandle, TRUE, OK) \o CallActivate(s.sensorHandle, TRUE, OK)
      \o CallActivate(s.sensorHandle, FALSE, OK) \o CallActivate(s.sensorHandle, FALSE, OK))
    \o CallActivate(GetInvalidSensorHandle, TRUE, Refused)
    \o CallActivate(GetInvalidSensorHandle, FALSE, Refused)

CheckVec3Sensor(type) ==
  LET ofType == SelectSeq(SensorsList, LAMBDA s : s.type = type)
      handle == ofType[1].sensorHandle
  IN IF ofType = <<>> THEN <<>>
     ELSE CallActivate(handle, TRUE, OK)
            \o (IF type \in {"GRAVITY", "LINEAR_ACCELERATION"} THEN CallBatch(handle, OK) ELSE <<>>)
            \o CollectEvents("first", kNumEvents)
            \o CallActivate(handle, FALSE, OK)
            \o CheckCollectedAtLeast(kNumEvents)

NoStaleEvents ==
  LET sensors == HandlesOf(GetNonOneShotAndNonOnChangeAndNonSpecialSensors)
  IN RegisterCallback
       \o ActivateAllSensors(TRUE) \o WaitForEvents(sensors) \o ActivateAllSensors(FALSE)
       \o SaveLastEvents \o Sleep \o ResetCallback
       \o ActivateAllSensors(TRUE) \o WaitForEvents(sensors) \o ActivateAllSensors(FALSE)
       \o UnregisterCallback \o CheckNotStale(sensors)

-----------------------------------------------------------------------------
(* Direct channels                                                         *)
CheckRateLevel(sensor, rate) ==
  CallConfigure(sensor.sensorHandle, rate, IF IsDirectReportRateSupported(sensor, rate) THEN OK ELSE Refused)

SupportsSharedMemType(memType) ==
  \E s \in ToSet(SensorsList) : IsDirectChannelTypeSupported(s, memType)

VerifyRegisterDirectChannel == FillMemory \o CallRegister(OK) \o CheckMemoryZeroed
VerifyUnregisterDirectChannel == CallUnregister(OK)

VerifyConfigure(sensor, memType) ==
  IF IsDirectChannelTypeSupported(sensor, memType)
  THEN ForEach(<<"NORMAL", "FAST", "VERY_FAST", "STOP">>, LAMBDA rate : CheckRateLevel(sensor, rate))
         \o CallConfigure(-1, "NORMAL", Refused) \o CallConfigure(-1, "STOP", OK)
  ELSE CallConfigure(sensor.sensorHandle, "NORMAL", Refused)

\* A memory type no sensor supports is not tested.
VerifyDirectChannel(memType) ==
  IF ~SupportsSharedMemType(memType) THEN <<>>
  ELSE ForEach(SensorsList, LAMBDA s :
         VerifyRegisterDirectChannel \o VerifyConfigure(s, memType) \o VerifyUnregisterDirectChannel)

\* The fixture around a test.
Test(body) == SetUp \o body \o TearDown(body)

\* Test if the vectors are in range, as far as they arrive.
SensorVectorTests == [
  AccelerometerCheckSensorVector |-> Test(CheckVec3Sensor("ACCELEROMETER")),
  GyroscopeCheckSensorVector |-> Test(CheckVec3Sensor("GYROSCOPE")),
  GravityCheckSensorVector |-> Test(CheckVec3Sensor("GRAVITY")),
  LinearAccelerationCheckSensorVector |-> Test(CheckVec3Sensor("LINEAR_ACCELERATION"))]

Scripts == SensorVectorTests @@ [
  SensorListValid                 |-> Test(Check(SensorListValid)),
  SensorListContainsBoschSensor   |-> Test(Check(SensorListContainsBoschSensor)),
  SetOperationMode                |-> Test(SetOperationMode),
  CallInitializeTwice             |-> Test(CallInitializeTwice),
  CleanupConnectionsOnInitialize  |-> Test(CleanupConnectionsOnInitialize),
  FlushSensor                     |-> Test(FlushSensor),
  FlushOneShotSensor              |-> Test(FlushOneShotSensor),
  FlushInactiveSensor             |-> Test(FlushInactiveSensor),
  Batch                           |-> Test(Batch),
  Activate                        |-> Test(Activate),
  ConfigCheck                     |-> Test(Check(ConfigCheck)),
  NoStaleEvents                   |-> Test(NoStaleEvents),
  DirectChannelAshmem             |-> Test(VerifyDirectChannel("ASHMEM")),
  DirectChannelGralloc            |-> Test(VerifyDirectChannel("GRALLOC"))]
=============================================================================
