----------------------------- MODULE MCHalProxy -----------------------------
(* Two instances of the multi-HAL proxy in one run of TLC.  Where the wake *)
(* lock is counted, one sensor is in use, with wake-up events, besides the *)
(* binder thread; where it is not, two sensors are, and only the event     *)
(* path takes steps.                                                       *)
EXTENDS HalProxyWakelock

CONSTANTS s1, s2

VARIABLE counted

TwoSensors == {s1, s2}
OneWakeupSource == {s1}

BothInit == LockInit /\ counted \in BOOLEAN

CountedNext == LockNext /\ ~enabled'[s2]

UncountedNext ==
  /\ Next
  /\ history' = {"reset"}
  /\ UNCHANGED <<countVars, threadVars, frameworkVars, timeVars, scoped>>

BothNext ==
  /\ UNCHANGED counted
  /\ \/ counted /\ CountedNext
     \/ ~counted /\ UncountedNext

BothSpec == BothInit /\ [][BothNext]_<<allVars, counted>>
=============================================================================
