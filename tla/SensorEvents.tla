---------------------------- MODULE SensorEvents ----------------------------
(***************************************************************************)
(* What becomes of a reading on its way to the AIDL framework: the sysfs   *)
(* files (hwctl/FileHandler.cpp), the sensor core, readEvents() of the     *)
(* stand-alone AIDL HAL (aidl/Sensor.cpp) or of the multi-HAL's sub-HAL    *)
(* (multihal/common/Sensor.cpp), and for the latter the conversion between *)
(* HIDL and AIDL events (multihal/aidl/ConvertUtils.cpp); likewise of the  *)
(* additional information a sensor sends when activated or flushed.        *)
(*                                                                         *)
(* A HIDL event's union u is 16 words.  An AIDL payload is a tag, naming   *)
(* the member of the union that is set, and the member's words.            *)
(***************************************************************************)
EXTENDS Integers, Sequences, FiniteSets, SequencesExt

CONSTANT NoNumber    \* what a file yields that holds no number or cannot be read

Words == 1..16
Padded(words) == [k \in Words |-> IF k <= Len(words) THEN words[k] ELSE 0]

-----------------------------------------------------------------------------
(* ConvertUtils.cpp: the types each case of the switch statements lists.   *)
TypesOf == [
  meta        |-> {"META_DATA"},
  vec3        |-> {"ACCELEROMETER", "MAGNETIC_FIELD", "ORIENTATION", "GYROSCOPE", "GRAVITY",
                   "LINEAR_ACCELERATION"},
  vec4        |-> {"GAME_ROTATION_VECTOR"},
  rotation    |-> {"ROTATION_VECTOR", "GEOMAGNETIC_ROTATION_VECTOR"},
  uncal       |-> {"ACCELEROMETER_UNCALIBRATED", "MAGNETIC_FIELD_UNCALIBRATED", "GYROSCOPE_UNCALIBRATED"},
  scalar      |-> {"DEVICE_ORIENTATION", "LIGHT", "PRESSURE", "PROXIMITY", "RELATIVE_HUMIDITY",
                   "AMBIENT_TEMPERATURE", "SIGNIFICANT_MOTION", "STEP_DETECTOR", "TILT_DETECTOR",
                   "WAKE_GESTURE", "GLANCE_GESTURE", "PICK_UP_GESTURE", "WRIST_TILT_GESTURE",
                   "STATIONARY_DETECT", "MOTION_DETECT", "HEART_BEAT", "LOW_LATENCY_OFFBODY_DETECT",
                   "HINGE_ANGLE"},
  stepCount   |-> {"STEP_COUNTER"},
  heartRate   |-> {"HEART_RATE"},
  pose6DOF    |-> {"POSE_6DOF"},
  dynamic     |-> {"DYNAMIC_SENSOR_META"},
  additional  |-> {"ADDITIONAL_INFO"},
  headTracker |-> {"HEAD_TRACKER"},
  data        |-> {"DEVICE_PRIVATE_BASE"}]

MemberOf(type) == CHOOSE m \in DOMAIN TypesOf : type \in TypesOf[m]

(* The words copied for each of them: of dynamic the uuid, and of          *)
(* additional the 14 words of data, count as they are in the union.        *)
Copied == [meta |-> 1, vec3 |-> 4, vec4 |-> 4, rotation |-> 5, uncal |-> 6, scalar |-> 1, stepCount |-> 2,
           heartRate |-> 2, pose6DOF |-> 15, dynamic |-> 6, additional |-> 16, headTracker |-> 7, data |-> 16]

TagOf(type) == IF MemberOf(type) = "rotation" THEN "data" ELSE MemberOf(type)

ConvertToAidlEvent_Vec3Only(e) ==
  [type |-> e.type, handle |-> e.handle, timestamp |-> e.timestamp, tag |-> TagOf(e.type),
   words |-> Padded(SubSeq(e.u, 1, IF MemberOf(e.type) = "uncal" THEN 3 ELSE Copied[MemberOf(e.type)]))]

ConvertToAidlEvent(e) ==
  [type |-> e.type, handle |-> e.handle, timestamp |-> e.timestamp, tag |-> TagOf(e.type),
   words |-> Padded(SubSeq(e.u, 1, Copied[MemberOf(e.type)]))]

(* Into an event whose union holds the words before; getting a member that *)
(* is not the one set ends the program.                                    *)
ConvertToHidlEvent(a, before) ==
  [type |-> a.type, handle |-> a.handle, timestamp |-> a.timestamp,
   u |-> IF a.tag # TagOf(a.type) THEN <<>>
         ELSE [k \in Words |-> IF k <= Copied[MemberOf(a.type)] THEN a.words[k] ELSE before[k]]]

-----------------------------------------------------------------------------
(* What a file holds: whether it can be read and passes for a number, for   *)
(* which isValidInteger takes decimals and exponents too, and the integer   *)
(* std::stoi makes of its beginning, 1 of "1.9" as of "1e3".  It throws for *)
(* what begins with none (".5") or with more than an int holds.             *)
Parses(text) == text.number /\ text.integer # NoNumber

(* RawSysfsHandler::read with SensorCore::readPollingData: one value of     *)
(* three words in the resolution's unit, or none when a file holds no       *)
(* number, or, at the first that makes stoi throw, the end of the program.  *)
(* The scaling is exact here, where the code's floats round.                *)
ReadPollingData(contents, resolution, timestamp) ==
  LET failed == {k \in DOMAIN contents : ~Parses(contents[k])}
  IN [ended |-> failed # {} /\ contents[Min(failed)].number,
      values |-> IF failed # {} THEN <<>>
                 ELSE <<[timestamp |-> timestamp,
                         data |-> [k \in DOMAIN contents |-> contents[k].integer * resolution]]>>]

ACCURACY_HIGH == 3

(* gyroUncalibratedFix: one step of the resolution for the SMI230.         *)
GyroUncalibratedFix(sensor) == IF sensor.chip = "SMI230" THEN sensor.resolution ELSE 0

(* The words of Sensor::readEvents, the same in all copies of Sensor.      *)
EventWords(sensor, data) ==
  IF sensor.type \in {"GYROSCOPE_UNCALIBRATED", "ACCELEROMETER_UNCALIBRATED"}
  THEN LET fix == IF sensor.type = "GYROSCOPE_UNCALIBRATED" THEN GyroUncalibratedFix(sensor) ELSE 0
       IN <<data[1] + fix, data[2] + fix, data[3] + fix, 0, 0, 0>>
  ELSE Append(data, ACCURACY_HIGH)

(* Sensor::readEvents of the sub-HAL and of the AIDL HAL. A core, composite *)
(* or not, returns values of three words or no value.                       *)
ReadHidlEvents(sensor, values) ==
  [k \in DOMAIN values |->
     [type |-> sensor.type, handle |-> sensor.handle, timestamp |-> values[k].timestamp,
      u |-> Padded(EventWords(sensor, values[k].data))]]

ReadAidlEvents(sensor, values) ==
  [k \in DOMAIN values |->
     [type |-> sensor.type, handle |-> sensor.handle, timestamp |-> values[k].timestamp,
      tag |-> IF sensor.type \in {"GYROSCOPE_UNCALIBRATED", "ACCELEROMETER_UNCALIBRATED"}
              THEN "uncal" ELSE "vec3",
      words |-> Padded(EventWords(sensor, values[k].data))]]

-----------------------------------------------------------------------------
(* Additional information                                                  *)
LOCATION == <<3, 7, 11>>   (* LOCATION_X_IDX, ...                          *)
ROTATION == <<0, 1, 2>>    (* ROTATION_X_IDX, ...                          *)

(* getSensorPlacement: the frame's values, indexed from 0; none without a  *)
(* location and an orientation in the sensor's configuration.              *)
GetSensorPlacement(config) ==
  IF ~config.hasLocation \/ ~config.hasOrientation THEN <<>>
  ELSE LET o == config.orientation
           index(axis) == ROTATION[axis] + 4 * (IF o.rotate THEN axis - 1 ELSE o.map[axis])
           sign(axis) == IF ~o.rotate /\ o.negate[axis] THEN -1 ELSE 1
           value(i) == IF \E axis \in 1..3 : LOCATION[axis] = i
                       THEN config.location[CHOOSE axis \in 1..3 : LOCATION[axis] = i]
                       ELSE IF \E axis \in 1..3 : index(axis) = i
                       THEN sign(CHOOSE axis \in 1..3 : index(axis) = i)
                       ELSE 0
       IN <<[type |-> "AINFO_SENSOR_PLACEMENT", values |-> [i \in 0..13 |-> value(i)]]>>

(* getSensorTemperature: none when the core has no file or cannot read it. *)
GetSensorTemperature(temperature) ==
  IF temperature = NoNumber THEN <<>>
  ELSE <<[type |-> "AINFO_INTERNAL_TEMPERATURE",
          values |-> [i \in 0..13 |-> IF i = 0 THEN temperature ELSE 0]]>>

SendAdditionalInfoReport(config, temperature) ==
  <<[type |-> "AINFO_BEGIN"]>> \o GetSensorPlacement(config) \o GetSensorTemperature(temperature)
    \o <<[type |-> "AINFO_END"]>>

-----------------------------------------------------------------------------
(* SensorList::getAvailableSensors, with the handles AddSensors gives out. *)
Chips == <<"SMI330", "SMI240", "SMI230">>

SensorListOf(types) ==
  [k \in 1..6 |-> [chip |-> Chips[(k + 1) \div 2], type |-> types[2 - (k % 2)]]]

mSensorList ==
  SensorListOf(<<"ACCELEROMETER", "GYROSCOPE">>)
    \o SensorListOf(<<"ACCELEROMETER_UNCALIBRATED", "GYROSCOPE_UNCALIBRATED">>)

mCompositeSensorList == SensorListOf(<<"GRAVITY", "LINEAR_ACCELERATION">>)

(* The accelerometer and the gyroscope of the composite's chip.            *)
DependencyList(composite) ==
  {s \in ToSet(mSensorList) : s.chip = composite.chip /\ s.type \in {"ACCELEROMETER", "GYROSCOPE"}}

(* The SMI230 has a driver for each half, the others one for the chip.     *)
DriverName(sensor) ==
  IF sensor.chip # "SMI230" THEN sensor.chip
  ELSE IF sensor.type \in {"ACCELEROMETER", "ACCELEROMETER_UNCALIBRATED"} THEN "smi230acc" ELSE "smi230gyro"

GetAvailableSensors(drivers) ==
  LET available == SelectSeq(mSensorList, LAMBDA s : DriverName(s) \in drivers)
  IN available \o SelectSeq(mCompositeSensorList, LAMBDA c : DependencyList(c) \subseteq ToSet(available))

AddSensors(drivers) ==
  LET sensors == GetAvailableSensors(drivers)
  IN [handle \in DOMAIN sensors |->
        [chip |-> sensors[handle].chip, type |-> sensors[handle].type, handle |-> handle, resolution |-> 5]]

-----------------------------------------------------------------------------
(* Properties, over every type, set of drivers, reading and orientation.   *)

Types == UNION {TypesOf[m] : m \in DOMAIN TypesOf}

(* What the cores read and the composites compute.                         *)
ReadTypes == {"ACCELEROMETER", "GYROSCOPE", "ACCELEROMETER_UNCALIBRATED", "GYROSCOPE_UNCALIBRATED",
              "GRAVITY", "LINEAR_ACCELERATION"}

DriverNames == {"SMI330", "SMI240", "smi230acc", "smi230gyro"}

(* The list names no other type, whatever drivers are found.               *)
ASSUME SensorListAssumption ==
  \A drivers \in SUBSET DriverNames : \A sensor \in ToSet(AddSensors(drivers)) : sensor.type \in ReadTypes

(* What the sub-HAL posts comes back from an AIDL event as it was.         *)
ConversionsAreInverse ==
  \A type \in Types :
    LET event == [type |-> type, handle |-> 1, timestamp |-> 7, u |-> [k \in Words |-> k]]
    IN ConvertToHidlEvent(ConvertToAidlEvent(event), event.u) = event

(* A file that is none, the likes of "1.9", ".5", "-2" and "4".            *)
SampleTexts ==
  [number : {FALSE}, integer : {NoNumber}] \cup [number : {TRUE}, integer : {1, NoNumber, -2, 4}]

(* The multi-HAL delivers of a reading what the AIDL HAL would deliver:    *)
(* the same words under the tag of the type, or nothing of a failed one.   *)
(* The three words stand for what a composite computes as well.            *)
BothHalsAgree ==
  \A drivers \in SUBSET DriverNames :
    \A sensor \in ToSet(AddSensors(drivers)), contents \in [1..3 -> SampleTexts] :
      LET values == ReadPollingData(contents, sensor.resolution, 7).values
          posted == ReadHidlEvents(sensor, values)
      IN [k \in DOMAIN posted |-> ConvertToAidlEvent(posted[k])] = ReadAidlEvents(sensor, values)

(* The frame's first 12 values are a signed permutation matrix with the    *)
(* location as its last column, row by row, whatever the orientation.      *)
PlacementIsARotation ==
  \A map \in {f \in [1..3 -> 0..2] : IsInjective(f)}, negate \in [1..3 -> BOOLEAN], rotate \in BOOLEAN :
    LET frame == GetSensorPlacement([hasLocation |-> TRUE, hasOrientation |-> TRUE, location |-> <<5, 6, 7>>,
                                     orientation |-> [map |-> map, negate |-> negate, rotate |-> rotate]])[1]
        entry(row, column) == frame.values[4 * (row - 1) + column - 1]
    IN /\ \A row \in 1..3 : entry(row, 4) = 4 + row
       /\ \A row \in 1..3 : Cardinality({column \in 1..3 : entry(row, column) \in {1, -1}}) = 1
       /\ \A column \in 1..3 : Cardinality({row \in 1..3 : entry(row, column) \in {1, -1}}) = 1
       /\ Cardinality({i \in 0..13 : frame.values[i] = 0}) = 8

SamplesAreFaithful == ConversionsAreInverse /\ BothHalsAgree /\ PlacementIsARotation
=============================================================================
