------------------------- MODULE MCHalProxyWakelock -------------------------
(* One wake-up sensor, and the binder thread, where liveness is checked.   *)
EXTENDS HalProxyWakelock

CONSTANT s1

OneSensor == {s1}
OneWakeupSource == {s1}
=============================================================================
