-------------------------- MODULE MCSensorsHalAidl --------------------------
(* One wake-up sensor, whose run thread and the binder thread post against  *)
(* each other into a queue smaller than the posts, and two connections.      *)
EXTENDS SensorsHalAidl, SensorEvents

CONSTANT s1

McSensors == {s1}

(* What is posted for an enabled sensor is the reading itself, the same on  *)
(* the way through this HAL and through the multi-HAL with its conversions, *)
(* and the placement sent with it is a rotation and a location (readEvents, *)
(* sendAdditionalInfoReport, convertToAidlEvent, convertToHidlEvent).       *)
SamplesKeepTheirValues == mIsEnabled # {} => SamplesAreFaithful
==============================================================================
