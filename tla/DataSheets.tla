----------------------------- MODULE DataSheets -----------------------------
(***************************************************************************)
(* What the HALs tell a client about their sensors: the SensorData each    *)
(* sensor's constructor fills in (sensors/SMI230.cpp, SMI240.cpp,          *)
(* SMI330.cpp) and the SensorInfo that AddSensors makes of it (2.X and     *)
(* AIDL HAL).  A name is the tuple of its words, the power is in tenths of *)
(* a milliampere and the range in g or degrees per second: the conversion  *)
(* to SI units is a positive factor.  The uncalibrated sensors are derived *)
(* from the calibrated ones and change their name and type only.           *)
(***************************************************************************)
EXTENDS SensorEvents

Named(chip, kind) == <<chip, "BOSCH", kind, "Sensor">>

SensorData(name, type, minDelayUs, maxDelayUs, power, range) ==
  [vendor |-> "Robert Bosch GmbH", sensorName |-> name, type |-> type, minDelayUs |-> minDelayUs,
   maxDelayUs |-> maxDelayUs, power |-> power, range |-> range, reportMode |-> "CONTINUOUS"]

As(data, name, type) == [data EXCEPT !.sensorName = name, !.type = type]

Smi230Acc == SensorData(Named("SMI230", "Accelerometer"), "ACCELEROMETER", 10000, 2000000, 2, 4)
Smi230Gyro == SensorData(Named("SMI230", "Gyroscope"), "GYROSCOPE", 10000, 2000000, 50, 2000)
Smi230AccUncalibrated ==
  As(Smi230Acc, Named("SMI230", "Accelerometer Uncalibrated"), "ACCELEROMETER_UNCALIBRATED")
Smi230GyroUncalibrated ==
  As(Smi230Gyro, Named("SMI230", "Gyroscope Uncalibrated"), "GYROSCOPE_UNCALIBRATED")
Smi230LinearAcc(accel, gyro) ==
  SensorData(Named("SMI230", "Linear Accelerometer"), "LINEAR_ACCELERATION", 10000, 20000,
             accel.power + gyro.power, accel.range)
Smi230Gravity(accel, gyro) ==
  SensorData(Named("SMI230", "Gravity"), "GRAVITY", 10000, 20000, accel.power + gyro.power, accel.range)

Smi240Acc == SensorData(Named("SMI240", "Accelerometer"), "ACCELEROMETER", 5000, 2000000, 50, 16)
Smi240Gyro == SensorData(Named("SMI240", "Gyroscope"), "GYROSCOPE", 5000, 2000000, 50, 300)
Smi240AccUncalibrated ==
  As(Smi240Acc, Named("SMI240", "Accelerometer Uncalibrated"), "ACCELEROMETER_UNCALIBRATED")
Smi240GyroUncalibrated ==
  As(Smi240Gyro, Named("SMI240", "Gyroscope Uncalibrated"), "GYROSCOPE_UNCALIBRATED")
Smi240LinearAcc(accel, gyro) ==
  SensorData(Named("SMI240", "Linear Accelerometer"), "LINEAR_ACCELERATION", 5000, 20000,
             accel.power + gyro.power, accel.range)
Smi240Gravity(accel, gyro) ==
  SensorData(Named("SMI240", "Gravity"), "GRAVITY", 5000, 20000, accel.power + gyro.power, accel.range)

Smi330Acc == SensorData(Named("SMI330", "Accelerometer"), "ACCELEROMETER", 5000, 1280000, 4, 8)
Smi330Gyro == SensorData(Named("SMI330", "Gyroscope"), "GYROSCOPE", 5000, 1280000, 4, 250)
Smi330AccUncalibrated ==
  As(Smi330Acc, Named("SMI330", "Accelerometer Uncalibrated"), "ACCELEROMETER_UNCALIBRATED")
Smi330GyroUncalibrated ==
  As(Smi330Gyro, Named("SMI330", "Gyroscope Uncalibrated"), "GYROSCOPE_UNCALIBRATED")
Smi330LinearAcc(accel, gyro) ==
  SensorData(Named("SMI330", "Linear Accelerometer"), "LINEAR_ACCELERATION", 5000, 20000,
             accel.power + gyro.power, accel.range)
Smi330Gravity(accel, gyro) ==
  SensorData(Named("SMI330", "Gravity"), "GRAVITY", 5000, 20000, accel.power + gyro.power, accel.range)

(* Of each chip the constructors SensorList calls.                         *)
SheetsOf == [
  SMI230 |-> {Smi230Acc, Smi230AccUncalibrated, Smi230Gyro, Smi230GyroUncalibrated,
              Smi230LinearAcc(Smi230Acc, Smi230Gyro), Smi230Gravity(Smi230Acc, Smi230Gyro)},
  SMI240 |-> {Smi240Acc, Smi240AccUncalibrated, Smi240Gyro, Smi240GyroUncalibrated,
              Smi240LinearAcc(Smi240Acc, Smi240Gyro), Smi240Gravity(Smi240Acc, Smi240Gyro)},
  SMI330 |-> {Smi330Acc, Smi330AccUncalibrated, Smi330Gyro, Smi330GyroUncalibrated,
              Smi330LinearAcc(Smi330Acc, Smi330Gyro), Smi330Gravity(Smi330Acc, Smi330Gyro)}]

GetSensorData(sensor) == CHOOSE data \in SheetsOf[sensor.chip] : data.type = sensor.type

-----------------------------------------------------------------------------
(* The switch on the report mode; the last two bits of a continuous        *)
(* sensor's flags are the highest rate of its direct reports.              *)
FlagsOf == [
  CONTINUOUS        |-> {"CONTINUOUS_MODE", "ADDITIONAL_INFO", "DIRECT_CHANNEL_ASHMEM"},
  ON_CHANGE         |-> {"ON_CHANGE_MODE"},
  ONE_SHOT          |-> {"ONE_SHOT_MODE"},
  SPECIAL_REPORTING |-> {"SPECIAL_REPORTING_MODE"}]

RateLevels == [STOP |-> 0, NORMAL |-> 1, FAST |-> 2, VERY_FAST |-> 3]

DirectRateOf(reportMode) == IF reportMode = "CONTINUOUS" THEN "NORMAL" ELSE "STOP"

SensorInfo(handle, data) ==
  [sensorHandle |-> handle, name |-> data.sensorName, vendor |-> data.vendor, type |-> data.type,
   typeAsString |-> "", fifoReservedEventCount |-> 0, fifoMaxEventCount |-> 0,
   flags |-> FlagsOf[data.reportMode], maxDirectRate |-> DirectRateOf(data.reportMode),
   minDelayUs |-> data.minDelayUs, maxDelayUs |-> data.maxDelayUs, power |-> data.power,
   maxRange |-> data.range]

(* getSensorsList: the map of the sensors, in the order of their handles.  *)
SensorsListOf(drivers) ==
  LET sensors == AddSensors(drivers)
  IN [handle \in DOMAIN sensors |-> SensorInfo(handle, GetSensorData(sensors[handle]))]
=============================================================================
