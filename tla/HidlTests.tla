------------------------------ MODULE HidlTests ------------------------------
(***************************************************************************)
(* The VTS suite of the 2.X HAL: the tests of                              *)
(* 2.X/vts/2_X/BoschHalSensorsV2_XTargetTest.h as the steps they take,     *)
(* with those of their environment (SensorsHidlEnvironmentV2_X.cpp) and of *)
(* the initialize() it calls (2.X/Sensors.h).  Unlike the AIDL suite's,    *)
(* TearDown() leaves the sensors as they are, and fewer results are looked *)
(* at.  The streaming, batching and direct report tests are calls of       *)
(* helpers that are not in the repository and are left out.                *)
(***************************************************************************)
EXTENDS TestSteps

Refused == {"BAD_VALUE"}

(* isDirectChannelTypeSupported, isDirectReportRateSupported and the report *)
(* modes other than the hinge angle's come with SensorsHidlTestBase.        *)
IsDirectChannelTypeSupported(sensor, memType) ==
  memType = "ASHMEM" /\ "DIRECT_CHANNEL_ASHMEM" \in sensor.flags

IsDirectReportRateSupported(sensor, rate) == RateLevels[sensor.maxDirectRate] >= RateLevels[rate]

ReportModes == {"CONTINUOUS_MODE", "ON_CHANGE_MODE", "ONE_SHOT_MODE", "SPECIAL_REPORTING_MODE"}
ExtractReportMode(info) == info.flags \cap ReportModes

ExpectedReportModeForType(type) ==
  IF type = "HINGE_ANGLE" THEN {"ON_CHANGE_MODE"} ELSE {"CONTINUOUS_MODE"}

-----------------------------------------------------------------------------
(* Helpers                                                                 *)
IsValidType(type) == type # "META_DATA"
GetInvalidSensorHandle == MaxHandle + 42

DefaultSensorByType(type) == SelectSeq(SensorsList, LAMBDA s : s.type = type)

GetNonOneShotSensors == SelectSeq(SensorsList, LAMBDA s : ExtractReportMode(s) # {"ONE_SHOT_MODE"})
GetNonOneShotAndNonOnChangeAndNonSpecialSensors ==
  SelectSeq(SensorsList, LAMBDA s : ExtractReportMode(s) \notin
    {{"ONE_SHOT_MODE"}, {"ON_CHANGE_MODE"}, {"SPECIAL_REPORTING_MODE"}})
GetOneShotSensors == SelectSeq(SensorsList, LAMBDA s : ExtractReportMode(s) = {"ONE_SHOT_MODE"})
GetInjectEventSensors == WithFlag("DATA_INJECTION")

\* The results of the calls are not looked at.
ActivateAllSensors(enable) ==
  ForEach(SelectSeq(SensorsList, LAMBDA s : IsValidType(s.type)),
          LAMBDA s : CallBatch(s.sensorHandle, AnyResult) \o CallActivate(s.sensorHandle, enable, AnyResult))

Initialize(env) ==
  ForEach(SensorsList, LAMBDA s : InitDisable(s.sensorHandle)) \o InitChannels \o InitQueue(env)

\* isOk() is that of the transport.
ResetHal(env) ==
  Initialize(env) \o ForEach(SensorsList, LAMBDA s : CallActivate(s.sensorHandle, FALSE, AnyResult))

EnvSetUp(env) == ResetHal(env) \o StartPollingThread(env)
EnvTearDown(env) == StopPollingThread(env)

SetUp == EnvSetUp("first") \o Begin
TearDown == EnvTearDown("first")

RunFlushTest(sensors, activateSensor, flushCalls, expectedFlushCount, expectedResponse) ==
  RegisterCallback
    \o ForEach(sensors, LAMBDA s :
         CallBatch(s.sensorHandle, AnyResult) \o CallActivate(s.sensorHandle, activateSensor, AnyResult)
           \o ForEach([i \in 1 .. flushCalls |-> s.sensorHandle], LAMBDA h : CallFlush(h, expectedResponse)))
    \o WaitForFlushEvents(HandlesOf(sensors), flushCalls)
    \o ForEach(sensors, LAMBDA s : CallActivate(s.sensorHandle, FALSE, AnyResult))
    \o UnregisterCallback
    \o CheckFlushCount(HandlesOf(sensors), expectedFlushCount)

RunSingleFlushTest(sensors, activateSensor, expectedFlushCount, expectedResponse) ==
  RunFlushTest(sensors, activateSensor, 1, expectedFlushCount, expectedResponse)

-----------------------------------------------------------------------------
(* The sensor list                                                         *)
SensorListValid ==
  LET list == SensorsListOf(Drivers)
  IN /\ \A h \in DOMAIN list :
          LET info == list[h]
          IN /\ (info.type = "DEVICE_PRIVATE_BASE") => info.typeAsString # ""
             /\ info.name # <<>> /\ info.vendor # ""
             /\ info.power >= 0 /\ info.maxRange > 0
             /\ info.type \notin {"ADDITIONAL_INFO", "META_DATA"}
             /\ info.fifoMaxEventCount >= info.fifoReservedEventCount
             /\ ExtractReportMode(info) = ExpectedReportModeForType(info.type)
             /\ info.minDelayUs =< info.maxDelayUs
             /\ ExtractReportMode(info) = {"CONTINUOUS_MODE"} => info.minDelayUs > 0
     /\ \A g, h \in DOMAIN list : g # h /\ list[g].type = list[h].type => list[g].name # list[h].name

SensorListContainsBoschSensor ==
  \A info \in ToSet(SensorsListOf(Drivers)) : info.vendor = "Robert Bosch GmbH"

\* SMI[0-9]+ BOSCH .* Sensor
ConfigCheck ==
  \A info \in ToSet(SensorsListOf(Drivers)) :
    /\ info.name[1] \in ToSet(Chips) /\ info.name[2] = "BOSCH" /\ info.name[Len(info.name)] = "Sensor"
    /\ info.vendor = "Robert Bosch GmbH"

SensorListDoesntContainInvalidType ==
  \A info \in ToSet(SensorsListOf(Drivers)) : info.type # "HINGE_ANGLE"

-----------------------------------------------------------------------------
(* The tests                                                               *)
SetOperationMode ==
  IF GetInjectEventSensors # <<>>
  THEN CallSetOperationMode("NORMAL", OK) \o CallSetOperationMode("DATA_INJECTION", OK)
         \o CallSetOperationMode("NORMAL", OK)
  ELSE CallSetOperationMode("DATA_INJECTION", Refused)

CallInitializeTwice ==
  EnvSetUp("second")
    \o ActivateAllSensors(TRUE)
    \o CollectEvents("first", 1) \o CheckNoneCollected
    \o CollectEvents("second", 1) \o CheckCollectedAtLeast(1)
    \o ActivateAllSensors(FALSE)
    \o EnvTearDown("second") \o EnvTearDown("first") \o EnvSetUp("first")
    \o ActivateAllSensors(TRUE)
    \o CollectEvents("first", 1) \o CheckCollectedAtLeast(1)
    \o ActivateAllSensors(FALSE)

CleanupConnectionsOnInitialize ==
  ActivateAllSensors(TRUE)
    \o CollectEvents("first", 1) \o CheckCollectedAtLeast(1)
    \o EnvTearDown("first") \o EnvSetUp("first")
    \o CollectEvents("first", 1) \o CheckNoneCollected
    \o ActivateAllSensors(TRUE)
    \o CollectEvents("first", 1) \o CheckCollectedAtLeast(1)
    \o ActivateAllSensors(FALSE)

FlushSensor ==
  IF GetNonOneShotSensors = <<>> THEN <<>>
  ELSE RunSingleFlushTest(GetNonOneShotSensors, TRUE, 1, OK)
         \o RunFlushTest(GetNonOneShotSensors, TRUE, kFlushes, kFlushes, OK)

FlushOneShotSensor ==
  IF GetOneShotSensors = <<>> THEN <<>>
  ELSE RunSingleFlushTest(GetOneShotSensors, TRUE, 0, Refused)

NonOneShotElseOneShot == IF GetNonOneShotSensors # <<>> THEN GetNonOneShotSensors ELSE GetOneShotSensors

FlushInactiveSensor ==
  IF NonOneShotElseOneShot = <<>> THEN <<>>
  ELSE RunSingleFlushTest(NonOneShotElseOneShot, FALSE, 0, Refused)

FlushNonexistentSensor ==
  IF NonOneShotElseOneShot = <<>> THEN <<>>
  ELSE RunSingleFlushTest(<<[NonOneShotElseOneShot[1] EXCEPT !.sensorHandle = GetInvalidSensorHandle]>>,
                          FALSE, 0, Refused)

Batch ==
  ActivateAllSensors(FALSE)
    \o ForEach(SensorsList, LAMBDA s :
         CallBatch(s.sensorHandle, OK) \o CallActivate(s.sensorHandle, TRUE, AnyResult)
           \o CallBatch(s.sensorHandle, OK))
    \o ActivateAllSensors(FALSE)
    \o CallBatch(GetInvalidSensorHandle, Refused)

Activate ==
  ForEach(SensorsList, LAMBDA s :
    CallBatch(s.sensorHandle, AnyResult)
      \o CallActivate(s.sensorHandle, TRUE, OK) \o CallActivate(s.sensorHandle, TRUE, OK)
      \o CallActivate(s.sensorHandle, FALSE, OK) \o CallActivate(s.sensorHandle, FALSE, OK))
    \o CallActivate(GetInvalidSensorHandle, TRUE, Refused)
    \o CallActivate(GetInvalidSensorHandle, FALSE, Refused)

CheckVec3Sensor(type) ==
  LET handle == DefaultSensorByType(type)[1].sensorHandle
  IN IF DefaultSensorByType(type) = <<>> THEN <<>>
     ELSE CallActivate(handle, TRUE, OK)
            \o (IF type \in {"GRAVITY", "LINEAR_ACCELERATION"} THEN CallBatch(handle, OK) ELSE <<>>)
            \o CollectEvents("first", kNumEvents)
            \o CallActivate(handle, FALSE, OK)
            \o CheckCollectedAtLeast(kNumEvents)

NoStaleEvents ==
  LET sensors == HandlesOf(GetNonOneShotAndNonOnChangeAndNonSpecialSensors)
  IN RegisterCallback
       \o ActivateAllSensors(TRUE) \o WaitForEvents(sensors) \o ActivateAllSensors(FALSE)
       \o SaveLastEvents \o Sleep \o ResetCallback
       \o ActivateAllSensors(TRUE) \o WaitForEvents(sensors) \o ActivateAllSensors(FALSE)
       \o UnregisterCallback \o CheckNotStale(sensors)

-----------------------------------------------------------------------------
(* Direct channels                                                         *)
CheckRateLevel(sensor, rate) ==
  CallConfigure(sensor.sensorHandle, rate, IF IsDirectReportRateSupported(sensor, rate) THEN OK ELSE Refused)

SupportsSharedMemType(memType) ==
  \E s \in ToSet(SensorsList) : IsDirectChannelTypeSupported(s, memType)

VerifyRegisterDirectChannel == FillMemory \o CallRegister(OK) \o CheckMemoryZeroed
VerifyUnregisterDirectChannel == CallUnregister(OK)

VerifyConfigure(sensor, memType) ==
  IF IsDirectChannelTypeSupported(sensor, memType)
  THEN ForEach(<<"NORMAL", "FAST", "VERY_FAST", "STOP">>, LAMBDA rate : CheckRateLevel(sensor, rate))
         \o CallConfigure(-1, "NORMAL", Refused) \o CallConfigure(-1, "STOP", OK)
  ELSE CallConfigure(sensor.sensorHandle, "NORMAL", Refused)

\* A memory type no sensor supports is not tested.
VerifyDirectChannel(memType) ==
  IF ~SupportsSharedMemType(memType) THEN <<>>
  ELSE ForEach(SensorsList, LAMBDA s :
         VerifyRegisterDirectChannel \o VerifyConfigure(s, memType) \o VerifyUnregisterDirectChannel)

\* The first sensor with a direct channel, and the highest rate it supports.
GetDirectChannelSensor ==
  SelectSeq(SensorsList, LAMBDA s : IsDirectChannelTypeSupported(s, "ASHMEM"))

HighestRate(sensor) ==
  CHOOSE rate \in DOMAIN RateLevels :
    /\ IsDirectReportRateSupported(sensor, rate)
    /\ \A r \in DOMAIN RateLevels : IsDirectReportRateSupported(sensor, r) => RateLevels[r] =< RateLevels[rate]

ConfigureDirectChannelWithInvalidHandle ==
  IF GetDirectChannelSensor = <<>> THEN <<>>
  ELSE LET sensor == GetDirectChannelSensor[1]
       IN Check(HighestRate(sensor) # "STOP")
            \o CallConfigureInvalidChannel(sensor.sensorHandle, HighestRate(sensor), Refused)

CleanupDirectConnectionOnInitialize ==
  IF GetDirectChannelSensor = <<>> THEN <<>>
  ELSE LET sensor == GetDirectChannelSensor[1]
           configure(want) == CallConfigure(sensor.sensorHandle, HighestRate(sensor), want)
       IN Check(HighestRate(sensor) # "STOP")
            \o CallRegister(OK) \o configure(OK)
            \o EnvTearDown("first") \o EnvSetUp("first")
            \o configure(Refused)

\* The fixture around a test.
Test(body) == SetUp \o body \o TearDown

\* Test if the vectors are in range, as far as they arrive.
SensorVectorTests == [
  AccelerometerCheckSensorVector |-> Test(CheckVec3Sensor("ACCELEROMETER")),
  GyroscopeCheckSensorVector |-> Test(CheckVec3Sensor("GYROSCOPE")),
  GravityCheckSensorVector |-> Test(CheckVec3Sensor("GRAVITY")),
  LinearAccelerationCheckSensorVector |-> Test(CheckVec3Sensor("LINEAR_ACCELERATION"))]

Scripts == SensorVectorTests @@ [
  SensorListValid                 |-> Test(Check(SensorListValid)),
  SensorListContainsBoschSensor   |-> Test(Check(SensorListContainsBoschSensor)),
  SetOperationMode                |-> Test(SetOperationMode),
  CallInitializeTwice             |-> Test(CallInitializeTwice),
  CleanupConnectionsOnInitialize  |-> Test(CleanupConnectionsOnInitialize),
  FlushSensor                     |-> Test(FlushSensor),
  FlushOneShotSensor              |-> Test(FlushOneShotSensor),
  FlushInactiveSensor             |-> Test(FlushInactiveSensor),
  FlushNonexistentSensor          |-> Test(FlushNonexistentSensor),
  Batch                           |-> Test(Batch),
  Activate                        |-> Test(Activate),
  ConfigCheck                     |-> Test(Check(ConfigCheck)),
  NoStaleEvents                   |-> Test(NoStaleEvents),
  DirectChannelAshmem             |-> Test(VerifyDirectChannel("ASHMEM")),
  DirectChannelGralloc            |-> Test(VerifyDirectChannel("GRALLOC")),
  ConfigureDirectChannelWithInvalidHandle |-> Test(ConfigureDirectChannelWithInvalidHandle),
  CleanupDirectConnectionOnInitialize |-> Test(CleanupDirectConnectionOnInitialize),
  SensorListDoesntContainInvalidType |-> Test(Check(SensorListDoesntContainInvalidType))]
=============================================================================
