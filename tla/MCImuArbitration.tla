-------------------------- MODULE MCImuArbitration --------------------------
(* An instance of ImuArbitration for TLC: the SMI330's part of the list of *)
(* sensors (SensorList.h), with a calibrated and an uncalibrated sensor on *)
(* each half and gravity made of the two calibrated ones.  Periods are in  *)
(* units of 2.5 ms, the fastest the chip offers: 512 of them are 1.28 s    *)
(* and 400 a second.                                                       *)
EXTENDS ImuArbitration, Fusion

CONSTANTS acc, gyro, accUncal, gyroUncal, gravity,
          accCore, gyroCore, accUncalCore, gyroUncalCore

Smi330Cores == {accCore, gyroCore, accUncalCore, gyroUncalCore}
Smi330Types == {acc, gyro, accUncal, gyroUncal, gravity}
Smi330Dependencies ==
  [t \in Smi330Types |->
     CASE t = acc -> <<accCore>> [] t = accUncal -> <<accUncalCore>>
       [] t = gyro -> <<gyroCore>> [] t = gyroUncal -> <<gyroUncalCore>>
       [] t = gravity -> <<accCore, gyroCore>>]

(* 5 ms and 120 ms, which is rounded to 80 ms and written as 12 Hz; 1.28 s, *)
(* written as 0 Hz; 20 ms for the composite.                               *)
Smi330Requests ==
  [t \in Smi330Types |->
     CASE t = gravity -> {8} [] t \in {acc, gyro} -> {2, 48}
       [] t = accUncal -> {2, 512} [] t = gyroUncal -> {48}]

(* While a composite sensor is in use, the steps by which its samples are  *)
(* computed (calculateGravity with initFusion, update and predict) fit     *)
(* together: gravity starts out in the direction of the first acceleration *)
(* and every correction goes towards what was measured.                    *)
FusionIsConsistent == gravity \in enabledSensors => ConventionsAgree

HalfOf == [c \in Cores |-> IF c \in {gyroCore, gyroUncalCore} THEN "GYRO" ELSE "ACCEL"]
=============================================================================
