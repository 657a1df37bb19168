----------------------------- MODULE MCVtsTests -----------------------------
(* An instance of VtsTests for TLC: all chips present, and of their sensors *)
(* the accelerometer and the gravity sensor of the SMI330.                  *)
EXTENDS VtsTests

AllDrivers == {"SMI330", "SMI240", "smi230acc", "smi230gyro"}
TwoHandles == {1, 13}

\* What the proof assumes of the scripts holds of those of both suites.
ASSUME SuitesReset == ScriptsReset
=============================================================================
