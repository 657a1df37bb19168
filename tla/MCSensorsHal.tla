---------------------------- MODULE MCSensorsHal ----------------------------
(* Small instances of SensorsHal for TLC.                                  *)
EXTENDS SensorsHal

CONSTANT s1

OneSensor == {s1}

(* Below, between and above the delays, and on either side of the rate.    *)
FewRequests == {0, 2, 9}
OneRequest == {4}
=============================================================================
