-------------------------- MODULE MCHalProxyEvents --------------------------
(* The event path alone, for one sensor: how its writer thread stops.      *)
EXTENDS HalProxyEvents

CONSTANT s1

OneSensor == {s1}
OneWakeupSource == {s1}
=============================================================================
