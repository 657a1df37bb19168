-------------------------- MODULE SensorsHalProofs --------------------------
(***************************************************************************)
(* The Sensors HAL, for any number of sensors and direct channels and any  *)
(* periods.  The sensors' part of the invariant, SensorInv, is kept by     *)
(* each critical section of mRunMutex on its own; the calls' part, CallInv, *)
(* says what a call in progress has left to do, and needs of the sensors   *)
(* only what a critical section does to their entries.                     *)
(***************************************************************************)
EXTENDS SensorsHal, TLAPS

(* What CallInv reads.                                                     *)
callVars == <<enabledChannels, mStopThread, mIsEnabled, mDirectChannelEnabled, registryVars, binder>>

(* What SensorInv reads.                                                   *)
sensorVars == <<pollVars, directVars, endVars, chipVars, run>>

LEMMA SensorsStay == SensorInv /\ UNCHANGED sensorVars => SensorInv'
BY DEF SensorInv, SensorTypeOK, RunFollows, ChipServesPolling, ChipFastEnough, NoMissedActivation,
   SmallerOf, sensorVars, pollVars, directVars, endVars, chipVars

(* What Views reads.                                                       *)
viewVars == <<enabledChannels, mDirectChannels, reporting, binder>>

LEMMA ViewsStay == Views /\ UNCHANGED viewVars => Views'
<1> SUFFICES ASSUME Views, UNCHANGED viewVars PROVE Views'
  OBVIOUS
<1>1. /\ enabledChannels' = enabledChannels /\ mDirectChannels' = mDirectChannels
      /\ reporting' = reporting /\ binder' = binder
  BY DEF viewVars
<1>2. \A s \in Sensors, c \in Channels : Reports(s, c)' <=> Reports(s, c)
  BY <1>1 DEF Reports
<1> QED BY <1>1, <1>2, Zenon DEF Views

LEMMA CallStays == CallInv /\ UNCHANGED callVars => CallInv'
<1> SUFFICES ASSUME CallInv, UNCHANGED callVars PROVE CallInv'
  OBVIOUS
<1> USE DEF callVars, registryVars
<1>1. CallTypeOK'
  BY DEF CallInv, CallTypeOK
<1>2. CallFollows'
  BY DEF CallInv, CallFollows
<1>3. Views'
  BY ViewsStay DEF CallInv, viewVars
<1>4. Registry'
  BY DEF CallInv, Registry
<1> QED BY <1>1, <1>2, <1>3, <1>4 DEF CallInv

-----------------------------------------------------------------------------
(* The critical sections of mRunMutex.                                     *)

(* A notified sensor is awake or in a timed wait.                          *)
LEMMA NotifiedRun ==
  ASSUME SensorTypeOK, NEW s \in Sensors, RunMutexFree(s)
  PROVE  /\ Notified(s) \in [Sensors -> {"awake", "waiting", "timed", "direct", "post", "ended"}]
         /\ Notified(s)[s] \in {"awake", "timed"}
         /\ \A t \in Sensors : t # s => Notified(s)[t] = run[t]
BY DEF SensorTypeOK, Notified, RunMutexFree

(* Sensor::updateDirectChannel: the summary follows the entries, the chip  *)
(* stays on for the polling and is never slowed down.                      *)
LEMMA UpdateKeeps ==
  ASSUME SensorsAssumption, SensorInv, NEW s \in Sensors, ~mStopThread[s], RunMutexFree(s),
         NEW entries \in SUBSET Channels, UpdateDirectChannel(s, entries)
  PROVE  /\ SensorInv'
         /\ UNCHANGED <<mIsEnabled, mStopThread>>
         /\ enabledChannels' = [enabledChannels EXCEPT ![s] = entries]
         /\ mDirectChannelEnabled'[s] <=> entries # {}
         /\ \A t \in Sensors : t # s => mDirectChannelEnabled'[t] = mDirectChannelEnabled[t]
<1> DEFINE enable == entries # {}
           rate == IF enable THEN NormalRate ELSE Forever
<1> USE DEF SensorInv
<1>1. UNCHANGED <<mIsEnabled, mSamplingPeriodNs, mNextSampleTimeNs, mStopThread, mutexLeaked>>
  BY DEF UpdateDirectChannel, pollVars, endVars
<1>2. /\ enabledChannels' = [enabledChannels EXCEPT ![s] = entries]
      /\ mDirectChannelRateNs' = [mDirectChannelRateNs EXCEPT ![s] = rate]
      /\ mDirectChannelEnabled' = [mDirectChannelEnabled EXCEPT ![s] = enable]
      /\ run' = Notified(s)
  BY DEF UpdateDirectChannel
<1>3. chipPeriod' = IF SpeedsChipUp(s, rate) THEN [chipPeriod EXCEPT ![s] = rate] ELSE chipPeriod
  BY DEF UpdateDirectChannel
<1>4. chipActive' = IF SwitchesChip(s, enable) THEN [chipActive EXCEPT ![s] = enable] ELSE chipActive
  BY DEF UpdateDirectChannel
<1>5. SensorTypeOK'
  <2>1. mNextDirectChannelNs' \in [Sensors -> {"now", "later", "never"}]
    BY DEF UpdateDirectChannel, SensorTypeOK
  <2>2. chipPeriod' \in [Sensors -> Nat] /\ mDirectChannelRateNs' \in [Sensors -> {NormalRate, Forever}]
    BY <1>2, <1>3 DEF SensorTypeOK, SensorsAssumption
  <2>3. chipActive' \in [Sensors -> BOOLEAN] /\ mDirectChannelEnabled' \in [Sensors -> BOOLEAN]
    BY <1>2, <1>4, Zenon DEF SensorTypeOK
  <2>4. enabledChannels' \in [Sensors -> SUBSET Channels]
    BY <1>2 DEF SensorTypeOK
  <2> QED BY <1>1, <1>2, <2>1, <2>2, <2>3, <2>4, NotifiedRun DEF SensorTypeOK
<1>6. /\ mDirectChannelEnabled'[s] <=> enable
      /\ \A t \in Sensors : t # s => mDirectChannelEnabled'[t] = mDirectChannelEnabled[t]
  BY <1>2, Zenon DEF SensorTypeOK
<1>7. RunFollows'
  BY <1>1, <1>2, <1>6, NotifiedRun DEF RunFollows, SensorTypeOK, SensorsAssumption
<1>8. ChipServesPolling'
  <2>1. chipActive'[s] <=> IF SwitchesChip(s, enable) THEN enable ELSE chipActive[s]
    BY <1>4, Zenon DEF SensorTypeOK
  <2>2. \A t \in Sensors : t # s => chipActive'[t] = chipActive[t]
    BY <1>4, Zenon DEF SensorTypeOK
  <2> QED BY <1>1, <1>6, <2>1, <2>2 DEF ChipServesPolling, SwitchesChip, SensorTypeOK
<1>9. ChipFastEnough'
  BY <1>1, <1>2, <1>3 DEF ChipFastEnough, SmallerOf, SpeedsChipUp, SensorTypeOK, SensorsAssumption
<1>10. NoMissedActivation'
  BY <1>1, <1>2, <1>6, NotifiedRun DEF NoMissedActivation, SensorTypeOK
<1> QED BY <1>1, <1>2, <1>5, <1>6, <1>7, <1>8, <1>9, <1>10

(* Sensor::activate                                                        *)
LEMMA ActivateKeeps ==
  ASSUME SensorsAssumption, SensorInv, NEW s \in Sensors, NEW enable \in BOOLEAN, SensorActivate(s, enable)
  PROVE  /\ SensorInv'
         /\ mIsEnabled'[s] <=> enable
         /\ \A t \in Sensors : t # s => mIsEnabled'[t] = mIsEnabled[t]
<1> USE DEF SensorInv
<1>1. UNCHANGED <<mSamplingPeriodNs, directVars, endVars, chipPeriod>>
  BY DEF SensorActivate
<1>2. CASE mIsEnabled[s] = enable
  BY <1>1, <1>2, SensorsStay DEF SensorActivate, sensorVars, pollVars, chipVars
<1>3. CASE mIsEnabled[s] # enable
  <2>1. /\ mIsEnabled' = [mIsEnabled EXCEPT ![s] = enable]
        /\ chipActive' = [chipActive EXCEPT ![s] = enable]
        /\ mNextSampleTimeNs' = [mNextSampleTimeNs EXCEPT ![s] = IF enable THEN "now" ELSE "never"]
        /\ run' = Notified(s)
        /\ RunMutexFree(s)
    BY <1>3 DEF SensorActivate
  <2>2. /\ mIsEnabled'[s] <=> enable
        /\ chipActive'[s] <=> enable
        /\ \A t \in Sensors : t # s => mIsEnabled'[t] = mIsEnabled[t] /\ chipActive'[t] = chipActive[t]
    BY <2>1, Zenon DEF SensorTypeOK
  <2>3. SensorTypeOK'
    <3>1. mIsEnabled' \in [Sensors -> BOOLEAN] /\ chipActive' \in [Sensors -> BOOLEAN]
      BY <2>1, Zenon DEF SensorTypeOK
    <3>2. mNextSampleTimeNs' \in [Sensors -> {"now", "later", "never"}]
      BY <2>1 DEF SensorTypeOK
    <3> QED BY <1>1, <2>1, <3>1, <3>2, NotifiedRun DEF SensorTypeOK, directVars, endVars
  <2>4. RunFollows'
    BY <1>1, <2>1, <2>2, NotifiedRun DEF RunFollows, directVars, endVars
  <2>5. ChipServesPolling'
    BY <1>1, <2>2 DEF ChipServesPolling, directVars, endVars
  <2>6. ChipFastEnough'
    BY <1>1 DEF ChipFastEnough, SmallerOf, directVars
  <2>7. NoMissedActivation'
    BY <1>1, <2>1, <2>2, NotifiedRun DEF NoMissedActivation, directVars, endVars
  <2> QED BY <2>2, <2>3, <2>4, <2>5, <2>6, <2>7
<1> QED BY <1>2, <1>3

(* Sensor::batch: whichever of the two periods is the shorter stays the    *)
(* chip's.                                                                 *)
LEMMA BatchKeeps ==
  ASSUME SensorsAssumption, SensorInv, NEW s \in Sensors, NEW request \in Requests, SensorBatch(s, request)
  PROVE  SensorInv'
<1> DEFINE period == Clamp(request)
<1> USE DEF SensorInv
<1>1. UNCHANGED <<mIsEnabled, mNextSampleTimeNs, directVars, endVars, chipActive>>
  BY DEF SensorBatch
<1>2. period \in MinDelay..MaxDelay
  BY DEF Clamp, SensorsAssumption
<1>3. /\ chipPeriod' = IF ForwardsBatch(s, period) THEN [chipPeriod EXCEPT ![s] = period] ELSE chipPeriod
      /\ mSamplingPeriodNs' = [mSamplingPeriodNs EXCEPT ![s] = period]
      /\ run' = Notified(s) \/ run' = run
      /\ RunMutexFree(s)
  BY DEF SensorBatch
<1> HIDE DEF period
<1>4. SensorTypeOK'
  BY <1>1, <1>2, <1>3, NotifiedRun DEF SensorTypeOK, directVars, endVars, SensorsAssumption
<1>5. RunFollows'
  BY <1>1, <1>3, NotifiedRun DEF RunFollows, directVars, endVars
<1>6. ChipServesPolling'
  BY <1>1 DEF ChipServesPolling, directVars, endVars
<1>7. ChipFastEnough'
  BY <1>1, <1>2, <1>3 DEF ChipFastEnough, SmallerOf, ForwardsBatch, SensorTypeOK, SensorsAssumption, directVars
<1>8. NoMissedActivation'
  BY <1>1, <1>3, NotifiedRun DEF NoMissedActivation, directVars, endVars
<1> QED BY <1>4, <1>5, <1>6, <1>7, <1>8
-----------------------------------------------------------------------------
(* The steps of the run threads and of time.                               *)

LEMMA RunKeeps ==
  ASSUME HalInv, NEW s \in Sensors, RunLoop(s) \/ RunWritesDirect(s) \/ RunPosts(s)
  PROVE  HalInv'
<1> USE DEF HalInv, SensorInv
<1>1. CallInv'
  BY CallStays DEF RunLoop, RunWritesDirect, RunPosts, callVars, pollVars, directVars, endVars
<1>2. /\ UNCHANGED <<mIsEnabled, mSamplingPeriodNs, mDirectChannelEnabled, mDirectChannelRateNs,
                     enabledChannels, mStopThread, mutexLeaked, chipActive, chipPeriod>>
      /\ mNextSampleTimeNs' \in [Sensors -> {"now", "later", "never"}]
      /\ mNextDirectChannelNs' \in [Sensors -> {"now", "later", "never"}]
  BY DEF RunLoop, RunWritesDirect, RunPosts, pollVars, directVars, endVars, chipVars, SensorTypeOK
<1>3. /\ run' \in [Sensors -> {"awake", "waiting", "timed", "direct", "post", "ended"}]
      /\ \A t \in Sensors : t # s => run'[t] = run[t]
  BY DEF RunLoop, RunWritesDirect, RunPosts, SensorTypeOK
<1>4. /\ run'[s] = "direct" => mDirectChannelEnabled[s]
      /\ run'[s] = "post" => mIsEnabled[s]
      /\ run'[s] = "waiting" => ~mIsEnabled[s] /\ ~mDirectChannelEnabled[s] /\ ~mStopThread[s]
  BY DEF RunLoop, RunWritesDirect, RunPosts, SensorTypeOK
<1>5. SensorTypeOK'
  BY <1>2, <1>3 DEF SensorTypeOK
<1>6. RunFollows' /\ NoMissedActivation'
  BY <1>2, <1>3, <1>4 DEF RunFollows, NoMissedActivation
<1>7. ChipServesPolling' /\ ChipFastEnough'
  BY <1>2 DEF ChipServesPolling, ChipFastEnough, SmallerOf
<1> QED BY <1>1, <1>5, <1>6, <1>7

LEMMA TimeKeeps ==
  ASSUME HalInv, NEW s \in Sensors, SampleFallsDue(s) \/ DirectSampleFallsDue(s)
  PROVE  HalInv'
<1> USE DEF HalInv, SensorInv
<1>1. CallInv'
  BY CallStays DEF SampleFallsDue, DirectSampleFallsDue, callVars, pollVars, directVars, endVars
<1>2. /\ UNCHANGED <<mIsEnabled, mSamplingPeriodNs, mDirectChannelEnabled, mDirectChannelRateNs,
                     enabledChannels, mStopThread, mutexLeaked, chipActive, chipPeriod, run>>
      /\ mNextSampleTimeNs' \in [Sensors -> {"now", "later", "never"}]
      /\ mNextDirectChannelNs' \in [Sensors -> {"now", "later", "never"}]
  BY DEF SampleFallsDue, DirectSampleFallsDue, pollVars, directVars, endVars, chipVars, SensorTypeOK
<1>3. SensorTypeOK'
  BY <1>2 DEF SensorTypeOK
<1>4. RunFollows' /\ NoMissedActivation' /\ ChipServesPolling' /\ ChipFastEnough'
  BY <1>2 DEF RunFollows, NoMissedActivation, ChipServesPolling, ChipFastEnough, SmallerOf
<1> QED BY <1>1, <1>3, <1>4

-----------------------------------------------------------------------------
(* Calls that are one critical section of a sensor or of the registry.     *)

LEMMA OneStepKeeps ==
  ASSUME SensorsAssumption, HalInv, binder = Idle,
         \/ \E s \in Sensors, request \in Requests : Batch(s, request)
         \/ \E s \in Sensors, enable \in BOOLEAN : Activate(s, enable)
         \/ RegisterDirectChannel
  PROVE  HalInv'
<1> USE DEF HalInv
<1>0. binder.call = "idle" /\ binder.todo = {}
  BY DEF Idle
<1>1. CASE \E s \in Sensors, request \in Requests : Batch(s, request)
  BY <1>1, BatchKeeps, CallStays DEF Batch, SensorBatch, callVars, directVars, endVars
<1>2. CASE \E s \in Sensors, enable \in BOOLEAN : Activate(s, enable)
  <2>1. SensorInv'
    BY <1>2, ActivateKeeps DEF Activate
  <2>2. UNCHANGED <<directVars, endVars, registryVars, binder>>
    BY <1>2 DEF Activate, SensorActivate
  <2>3. CallTypeOK' /\ Registry'
    BY <2>2 DEF CallInv, CallTypeOK, Registry, registryVars
  <2>4. CallFollows'
    BY <1>0, <2>2 DEF CallInv, CallFollows, directVars, endVars
  <2>5. Views'
    BY <2>2, ViewsStay DEF CallInv, directVars, registryVars, viewVars
  <2> QED BY <2>1, <2>3, <2>4, <2>5 DEF CallInv
<1>3. CASE RegisterDirectChannel
  <2>1. SensorInv'
    BY <1>3, SensorsStay DEF RegisterDirectChannel, sensorVars
  <2>2. /\ UNCHANGED <<mIsEnabled, mDirectChannelEnabled, enabledChannels, mStopThread,
                       sensorHandles, reporting, binder>>
        /\ mNextChannelHandle \in Channels
        /\ mDirectChannels' = mDirectChannels \union {mNextChannelHandle}
        /\ mNextChannelHandle' = mNextChannelHandle + 1
    BY <1>3 DEF RegisterDirectChannel, pollVars, directVars, endVars
  <2>3. CallTypeOK'
    BY <2>2 DEF CallInv, CallTypeOK, Channels, SensorsAssumption
  <2>4. CallFollows'
    BY <2>2 DEF CallInv, CallFollows
  <2>5. Views'
    BY <1>0, <2>2 DEF CallInv, Views, Reports, Registry
  <2>6. Registry'
    BY <1>0, <2>2 DEF CallInv, Registry
  <2> QED BY <2>1, <2>3, <2>4, <2>5, <2>6 DEF CallInv
<1> QED BY <1>1, <1>2, <1>3
-----------------------------------------------------------------------------
(* The steps of a call that change only the registry and what is left to   *)
(* do.                                                                     *)

LEMMA BeginKeeps ==
  ASSUME SensorsAssumption, HalInv, binder = Idle, NEW s \in Sensors, NEW c \in Channels,
         ConfigReport(s, c) \/ ConfigStop(s, c)
  PROVE  HalInv'
<1> USE DEF HalInv
<1>0. binder.call = "idle" /\ binder.todo = {}
  BY DEF Idle
<1>1. SensorInv'
  BY SensorsStay DEF ConfigReport, ConfigStop, sensorVars
<1>2. /\ UNCHANGED <<mIsEnabled, mDirectChannelEnabled, enabledChannels, mStopThread,
                     mDirectChannels, mNextChannelHandle>>
      /\ c \in mDirectChannels
      /\ sensorHandles' = [sensorHandles EXCEPT ![c] = @ \union {s}]
      /\ binder'.channel = c /\ binder'.todo = {<<s, c>>}
  BY DEF ConfigReport, ConfigStop, pollVars, directVars, endVars, Serve
<1>3. \/ binder'.call = "add" /\ reporting' = [reporting EXCEPT ![c] = @ \union {s}]
      \/ binder'.call = "disableEntry" /\ reporting' = [reporting EXCEPT ![c] = @ \ {s}]
  BY DEF ConfigReport, ConfigStop, Serve
<1>4. CallTypeOK'
  BY <1>2, <1>3 DEF CallInv, CallTypeOK, Calls
<1>5. CallFollows'
  BY <1>0, <1>2, <1>3 DEF CallInv, CallFollows
<1>6. Views'
  BY <1>0, <1>2, <1>3 DEF CallInv, CallTypeOK, Views, Reports
<1>7. Registry'
  BY <1>2, <1>3 DEF CallInv, CallTypeOK, Registry
<1> QED BY <1>1, <1>4, <1>5, <1>6, <1>7 DEF CallInv

LEMMA VisitAllKeeps ==
  ASSUME HalInv, binder = Idle, NEW c \in Channels, ConfigStopAll(c) \/ UnregisterDirectChannel(c)
  PROVE  HalInv'
<1> USE DEF HalInv
<1>0. binder.call = "idle" /\ binder.todo = {}
  BY DEF Idle
<1>1. SensorInv'
  BY SensorsStay DEF ConfigStopAll, UnregisterDirectChannel, sensorVars
<1>2. /\ UNCHANGED <<mIsEnabled, mDirectChannelEnabled, enabledChannels, mStopThread, mDirectChannels,
                     mNextChannelHandle, sensorHandles, reporting>>
      /\ c \in mDirectChannels
      /\ binder'.call \in {"stopAll", "unregister"}
      /\ binder'.channel = c /\ binder'.todo = sensorHandles[c] \X {c}
  BY DEF ConfigStopAll, UnregisterDirectChannel, pollVars, directVars, endVars, registryVars, Serve
<1>3. sensorHandles[c] \subseteq Sensors
  BY DEF CallInv, CallTypeOK
<1>4. CallTypeOK'
  BY <1>2, <1>3 DEF CallInv, CallTypeOK, Calls
<1>5. CallFollows'
  BY <1>0, <1>2 DEF CallInv, CallFollows
<1>6. Views'
  BY <1>0, <1>2 DEF CallInv, Views, Reports, Registry
<1>7. Registry'
  BY <1>2, <1>3 DEF CallInv, Registry
<1> QED BY <1>1, <1>4, <1>5, <1>6, <1>7 DEF CallInv

LEMMA InitializeKeeps == HalInv /\ Initialize => HalInv'
<1> SUFFICES ASSUME HalInv, Initialize PROVE HalInv'
  OBVIOUS
<1> USE DEF HalInv
<1>0. binder.call = "idle" /\ binder.todo = {}
  BY DEF Initialize, Idle
<1>1. SensorInv'
  BY SensorsStay DEF Initialize, sensorVars
<1>2. /\ UNCHANGED <<mIsEnabled, mDirectChannelEnabled, enabledChannels, mStopThread, mDirectChannels,
                     mNextChannelHandle, sensorHandles, reporting>>
      /\ binder'.call = "disable" /\ binder'.channel = 0 /\ binder'.todo = Sensors \X {0}
  BY DEF Initialize, pollVars, directVars, endVars, registryVars, Serve
<1>3. CallTypeOK'
  BY <1>2 DEF CallInv, CallTypeOK, Calls
<1>4. CallFollows'
  BY <1>0, <1>2 DEF CallInv, CallFollows
<1>5. Views'
  BY <1>0, <1>2 DEF CallInv, Views, Reports
<1>6. Registry'
  BY <1>2 DEF CallInv, Registry
<1> QED BY <1>1, <1>3, <1>4, <1>5, <1>6 DEF CallInv

(* When every sensor is disabled, what is left is every report.            *)
LEMMA DisabledAllKeeps == HalInv /\ DisabledAll => HalInv'
<1> SUFFICES ASSUME HalInv, DisabledAll PROVE HalInv'
  OBVIOUS
<1> USE DEF HalInv
<1>0. binder.call = "disable" /\ binder.todo = {}
  BY DEF DisabledAll
<1>1. SensorInv'
  BY SensorsStay DEF DisabledAll, sensorVars
<1>2. /\ UNCHANGED <<mIsEnabled, mDirectChannelEnabled, enabledChannels, mStopThread, mDirectChannels,
                     mNextChannelHandle, sensorHandles, reporting>>
      /\ binder'.call = "reset" /\ binder'.channel = 0
      /\ binder'.todo = UNION {sensorHandles[c] \X {c} : c \in mDirectChannels}
  BY DEF DisabledAll, pollVars, directVars, endVars, registryVars, Serve
<1>3. binder'.todo \subseteq Sensors \X mDirectChannels
  BY <1>2 DEF CallInv, CallTypeOK
<1>4. \A s \in Sensors, c \in Channels : Reports(s, c) => <<s, c>> \in binder'.todo
  BY <1>2 DEF CallInv, CallTypeOK, Reports, Registry
<1>5. CallTypeOK'
  BY <1>2, <1>3 DEF CallInv, CallTypeOK, Calls
<1>6. CallFollows'
  BY <1>0, <1>2 DEF CallInv, CallFollows
<1>7. Views'
  BY <1>0, <1>2, <1>4 DEF CallInv, Views, Reports
<1>8. Registry'
  BY <1>2, <1>3 DEF CallInv, Registry
<1> QED BY <1>1, <1>5, <1>6, <1>7, <1>8 DEF CallInv

(* The ends of calls: nothing is left in which the two views could differ. *)
LEMMA EndKeeps == HalInv /\ (StoppedAll \/ EraseChannel \/ ClearChannels) => HalInv'
<1> SUFFICES ASSUME HalInv, StoppedAll \/ EraseChannel \/ ClearChannels PROVE HalInv'
  OBVIOUS
<1> USE DEF HalInv
<1>1. SensorInv'
  BY SensorsStay DEF StoppedAll, EraseChannel, ClearChannels, sensorVars
<1>2. /\ UNCHANGED <<mIsEnabled, mDirectChannelEnabled, enabledChannels, mStopThread, mNextChannelHandle>>
      /\ binder.todo = {} /\ binder.call \in {"stopAll", "unregister", "reset"}
      /\ binder'.call = "idle" /\ binder'.channel = 0 /\ binder'.todo = {}
  BY DEF StoppedAll, EraseChannel, ClearChannels, pollVars, directVars, endVars, registryVars, Idle
<1>3. CallFollows'
  BY <1>2 DEF CallInv, CallFollows
<1>4. CASE StoppedAll
  <2>1. UNCHANGED <<mDirectChannels, sensorHandles, reporting>> /\ binder.call = "stopAll"
    BY <1>4 DEF StoppedAll, registryVars
  <2> QED BY <1>1, <1>2, <1>3, <2>1 DEF CallInv, CallTypeOK, Calls, Views, Reports, Registry
<1>5. CASE EraseChannel
  <2>1. /\ mDirectChannels' = mDirectChannels \ {binder.channel}
        /\ sensorHandles' = [sensorHandles EXCEPT ![binder.channel] = {}]
        /\ reporting' = [reporting EXCEPT ![binder.channel] = {}]
        /\ binder.call = "unregister"
    BY <1>5 DEF EraseChannel
  <2>2. CallTypeOK'
    BY <1>2, <2>1 DEF CallInv, CallTypeOK, Calls
  <2>3. Views'
    BY <1>2, <2>1 DEF CallInv, CallTypeOK, Views, Reports
  <2>4. Registry'
    BY <1>2, <2>1 DEF CallInv, CallTypeOK, Registry
  <2> QED BY <1>1, <1>3, <2>2, <2>3, <2>4 DEF CallInv
<1>6. CASE ClearChannels
  <2>1. /\ mDirectChannels' = {} /\ binder.call = "reset"
        /\ sensorHandles' = [c \in Channels |-> {}]
        /\ reporting' = [c \in Channels |-> {}]
    BY <1>6 DEF ClearChannels
  <2>2. CallTypeOK'
    BY <1>2, <2>1 DEF CallInv, CallTypeOK, Calls
  <2>3. Views'
    BY <1>2, <2>1 DEF CallInv, Views, Reports
  <2>4. Registry'
    BY <1>2, <2>1 DEF Registry
  <2> QED BY <1>1, <1>3, <2>2, <2>3, <2>4 DEF CallInv
<1> QED BY <1>4, <1>5, <1>6

-----------------------------------------------------------------------------
(* The steps of a call at a sensor.                                        *)

LEMMA Alive ==
  ASSUME CallInv, binder.call \notin {"join", "destroyed"}, NEW s \in Sensors
  PROVE  ~mStopThread[s]
BY DEF CallInv, CallFollows

(* addDirectChannel, and stopDirectChannel after it.                       *)
LEMMA ConfigureKeeps ==
  ASSUME SensorsAssumption, HalInv, NEW s \in Sensors, NEW c \in Channels,
         AddDirectChannel(s, c) \/ StopDirectChannel(s, c)
  PROVE  HalInv'
<1> USE DEF HalInv
<1> DEFINE entries == IF binder.call = "add" THEN enabledChannels[s] \union {c} ELSE enabledChannels[s] \ {c}
<1>1. /\ binder.call \in {"add", "stop"} /\ <<s, c>> \in binder.todo
      /\ RunMutexFree(s)
      /\ UpdateDirectChannel(s, entries)
      /\ UNCHANGED <<mDirectChannels, mNextChannelHandle, sensorHandles, reporting>>
      /\ binder'.call = "idle" /\ binder'.channel = 0 /\ binder'.todo = {}
  BY DEF AddDirectChannel, StopDirectChannel, RemoveDirectChannel, EntriesAfterRemoval, registryVars, Idle
<1>2. entries \in SUBSET Channels
  BY DEF SensorInv, SensorTypeOK
<1>3. ~mStopThread[s]
  BY <1>1, Alive
<1>4. /\ SensorInv'
      /\ UNCHANGED <<mIsEnabled, mStopThread>>
      /\ enabledChannels' = [enabledChannels EXCEPT ![s] = entries]
      /\ mDirectChannelEnabled'[s] <=> entries # {}
      /\ \A t \in Sensors : t # s => mDirectChannelEnabled'[t] = mDirectChannelEnabled[t]
  <2> HIDE DEF entries
  <2> QED BY <1>1, <1>2, <1>3, UpdateKeeps
<1>5. binder.todo = {<<s, c>>}
  BY <1>1 DEF CallInv, Registry
<1>6. CallTypeOK'
  BY <1>1 DEF CallInv, CallTypeOK, Calls
<1>7. CallFollows'
  BY <1>1, <1>4, <1>5 DEF CallInv, CallFollows, SensorInv, SensorTypeOK
<1>8. Views'
  BY <1>1, <1>4, <1>5 DEF CallInv, Views, Reports, SensorInv, SensorTypeOK
<1>9. Registry'
  BY <1>1 DEF CallInv, Registry
<1> QED BY <1>4, <1>6, <1>7, <1>8, <1>9 DEF CallInv

(* addDirectChannel(c, 0): until stopDirectChannel the summary may be too  *)
(* large.                                                                  *)
LEMMA DisableEntryKeeps ==
  ASSUME HalInv, NEW s \in Sensors, NEW c \in Channels, DisableEntry(s, c)
  PROVE  HalInv'
<1> USE DEF HalInv
<1>1. /\ UNCHANGED <<pollVars, mDirectChannelEnabled, mDirectChannelRateNs, mNextDirectChannelNs, endVars,
                     chipVars, run, mDirectChannels, mNextChannelHandle, sensorHandles, reporting>>
      /\ enabledChannels' = [enabledChannels EXCEPT ![s] = @ \ {c}]
      /\ binder.call = "disableEntry" /\ <<s, c>> \in binder.todo
      /\ binder'.call = "stop" /\ binder'.channel = c /\ binder'.todo = binder.todo
  BY DEF DisableEntry, registryVars, Serve
<1>2. SensorInv'
  <2>1. SensorTypeOK'
    BY <1>1 DEF SensorInv, SensorTypeOK, pollVars, endVars, chipVars
  <2>2. RunFollows'
    BY <1>1 DEF SensorInv, SensorTypeOK, RunFollows, pollVars, endVars, chipVars
  <2>3. ChipServesPolling' /\ ChipFastEnough' /\ NoMissedActivation'
    BY <1>1 DEF SensorInv, ChipServesPolling, ChipFastEnough, NoMissedActivation, SmallerOf,
       pollVars, endVars, chipVars
  <2> QED BY <2>1, <2>2, <2>3 DEF SensorInv
<1>3. binder.todo = {<<s, c>>} /\ c \in mDirectChannels
  BY <1>1 DEF CallInv, Registry
<1>4. CallTypeOK'
  BY <1>1 DEF CallInv, CallTypeOK, Calls
<1>5. CallFollows'
  BY <1>1 DEF CallInv, CallFollows, SensorInv, SensorTypeOK, pollVars, endVars
<1>6. Views'
  BY <1>1, <1>3 DEF CallInv, Views, Reports, SensorInv, SensorTypeOK
<1>7. Registry'
  BY <1>1, <1>3 DEF CallInv, Registry
<1> QED BY <1>2, <1>4, <1>5, <1>6, <1>7 DEF CallInv

(* The next sensor of configDirectReport(-1), unregisterDirectChannel or   *)
(* initialize: the entry goes, and for the first the rate goes with it.    *)
LEMMA NextEntryKeeps ==
  ASSUME SensorsAssumption, HalInv, NEW s \in Sensors, NEW c \in Channels,
         StopNext(s, c) \/ RemoveNext(s, c)
  PROVE  HalInv'
<1> USE DEF HalInv
<1>1. /\ binder.call \in {"stopAll", "unregister", "reset"} /\ <<s, c>> \in binder.todo
      /\ RunMutexFree(s)
      /\ UpdateDirectChannel(s, enabledChannels[s] \ {c})
      /\ UNCHANGED <<mDirectChannels, mNextChannelHandle, sensorHandles>>
      /\ reporting' = IF binder.call = "stopAll" THEN [reporting EXCEPT ![c] = @ \ {s}] ELSE reporting
      /\ binder'.call = binder.call /\ binder'.channel = binder.channel
      /\ binder'.todo = binder.todo \ {<<s, c>>}
  BY DEF StopNext, RemoveNext, RemoveDirectChannel, EntriesAfterRemoval, registryVars, Visited, Serve
<1>2. enabledChannels[s] \ {c} \in SUBSET Channels
  BY DEF SensorInv, SensorTypeOK
<1>3. ~mStopThread[s]
  BY <1>1, Alive
<1>4. /\ SensorInv'
      /\ UNCHANGED <<mIsEnabled, mStopThread>>
      /\ enabledChannels' = [enabledChannels EXCEPT ![s] = enabledChannels[s] \ {c}]
      /\ mDirectChannelEnabled'[s] <=> enabledChannels[s] \ {c} # {}
      /\ \A t \in Sensors : t # s => mDirectChannelEnabled'[t] = mDirectChannelEnabled[t]
  BY <1>1, <1>2, <1>3, UpdateKeeps
<1>5. CallTypeOK'
  BY <1>1 DEF CallInv, CallTypeOK, Calls
<1>6. CallFollows'
  <2>1. /\ mIsEnabled' = mIsEnabled /\ mStopThread' = mStopThread
        /\ enabledChannels'[s] = enabledChannels[s] \ {c}
        /\ \A t \in Sensors : t # s => enabledChannels'[t] = enabledChannels[t]
    BY <1>4 DEF SensorInv, SensorTypeOK
  <2>2. ASSUME NEW t \in Sensors
        PROVE  /\ mStopThread[t] => binder.call \in {"join", "destroyed"}
               /\ binder.call = "reset" => ~mIsEnabled[t]
               /\ ~(~mStopThread[t] /\ mDirectChannelEnabled'[t] /\ enabledChannels'[t] = {})
    <3>1. /\ mStopThread[t] => binder.call \in {"join", "destroyed"}
          /\ binder.call = "reset" => ~mIsEnabled[t]
          /\ ~(~mStopThread[t] /\ mDirectChannelEnabled[t] /\ enabledChannels[t] = {})
      BY <1>1 DEF CallInv, CallFollows
    <3>2. CASE t = s
      BY <1>4, <2>1, <3>1, <3>2
    <3>3. CASE t # s
      BY <1>4, <2>1, <3>1, <3>3
    <3> QED BY <3>2, <3>3
  <2> QED BY <1>1, <2>1, <2>2 DEF CallFollows
<1>7. Views'
  <2>1. binder.call # "reset" => c = binder.channel
    BY <1>1 DEF CallInv, Registry
  <2>2. /\ enabledChannels'[s] = enabledChannels[s] \ {c}
        /\ \A t \in Sensors : t # s => enabledChannels'[t] = enabledChannels[t]
    BY <1>4 DEF SensorInv, SensorTypeOK
  <2>3. CASE binder.call = "stopAll"
    <3>1. /\ reporting'[c] = reporting[c] \ {s}
          /\ \A d \in Channels : d # c => reporting'[d] = reporting[d]
      BY <1>1, <2>3 DEF CallInv, CallTypeOK
    <3> QED BY <1>1, <2>2, <2>3, <3>1 DEF CallInv, Views, Reports
  <2>4. CASE binder.call \in {"unregister", "reset"}
    <3> SUFFICES ASSUME NEW t \in Sensors, NEW d \in Channels
                 PROVE  /\ <<t, d>> \in binder'.todo =>
                             (d \in enabledChannels'[t] <=> Reports(t, d)')
                        /\ <<t, d>> \notin binder'.todo =>
                             IF binder.call = "reset" \/ d = binder.channel
                             THEN d \notin enabledChannels'[t]
                             ELSE d \in enabledChannels'[t] <=> Reports(t, d)'
      BY <1>1, <2>4 DEF Views
    <3>1. Reports(t, d)' <=> Reports(t, d)
      BY <1>1, <2>4 DEF Reports
    <3>2. CASE t = s /\ d = c
      BY <1>1, <2>1, <2>2, <2>4, <3>2
    <3>3. CASE t # s \/ d # c
      <4>1. <<t, d>> \in binder'.todo <=> <<t, d>> \in binder.todo
        BY <1>1, <3>3
      <4>2. d \in enabledChannels'[t] <=> d \in enabledChannels[t]
        BY <2>2, <3>3
      <4> QED BY <2>4, <3>1, <4>1, <4>2 DEF CallInv, Views
    <3> QED BY <3>2, <3>3
  <2> QED BY <1>1, <2>3, <2>4
<1>8. Registry'
  BY <1>1 DEF CallInv, CallTypeOK, Registry
<1> QED BY <1>4, <1>5, <1>6, <1>7, <1>8 DEF CallInv

LEMMA DisableNextKeeps ==
  ASSUME SensorsAssumption, HalInv, NEW s \in Sensors, DisableNext(s)
  PROVE  HalInv'
<1> USE DEF HalInv
<1>1. /\ binder.call = "disable" /\ <<s, 0>> \in binder.todo
      /\ UNCHANGED <<directVars, endVars, registryVars>>
      /\ binder'.call = binder.call /\ binder'.channel = binder.channel
      /\ binder'.todo = binder.todo \ {<<s, 0>>}
  BY DEF DisableNext, SensorActivate, Visited, Serve
<1>2. /\ SensorInv'
      /\ mIsEnabled'[s] <=> FALSE
      /\ \A t \in Sensors : t # s => mIsEnabled'[t] = mIsEnabled[t]
  BY ActivateKeeps DEF DisableNext
<1>3. CallTypeOK'
  BY <1>1 DEF CallInv, CallTypeOK, Calls, registryVars
<1>4. CallFollows'
  BY <1>1, <1>2 DEF CallInv, CallFollows, directVars, endVars
<1>5. Views'
  BY <1>1 DEF CallInv, Views, Reports, directVars, registryVars
<1>6. Registry'
  BY <1>1 DEF CallInv, Registry, registryVars
<1> QED BY <1>2, <1>3, <1>4, <1>5, <1>6 DEF CallInv

(* ~Sensor: the sensor it stops is no longer bound by what a live one is.  *)
LEMMA DestroyKeeps ==
  ASSUME SensorsAssumption, HalInv, NEW s \in Sensors, DestroySensor(s)
  PROVE  HalInv'
<1> USE DEF HalInv
<1>1. /\ UNCHANGED <<mSamplingPeriodNs, mNextSampleTimeNs, mDirectChannelRateNs, mNextDirectChannelNs,
                     enabledChannels, chipVars, registryVars>>
      /\ RunMutexFree(s)
      /\ run' = Notified(s)
      /\ binder.call \in {"idle", "destroyed"}
      /\ binder'.call = "join" /\ binder'.channel = 0 /\ binder'.todo = {<<s, 0>>}
  BY DEF DestroySensor, Idle, Serve
<1>2. /\ mIsEnabled' = [mIsEnabled EXCEPT ![s] = FALSE]
      /\ mStopThread' = [mStopThread EXCEPT ![s] = TRUE]
      /\ mDirectChannelEnabled' = [mDirectChannelEnabled EXCEPT ![s] = FALSE]
      /\ mutexLeaked' = [mutexLeaked EXCEPT ![s] = DestructorKeepsMutex]
  BY DEF DestroySensor
<1>3. /\ ~mIsEnabled'[s] /\ ~mDirectChannelEnabled'[s] /\ mStopThread'[s]
      /\ \A t \in Sensors : t # s =>
           /\ mIsEnabled'[t] = mIsEnabled[t]
           /\ mDirectChannelEnabled'[t] = mDirectChannelEnabled[t]
           /\ mStopThread'[t] = mStopThread[t]
  BY <1>2 DEF SensorInv, SensorTypeOK
<1>4. SensorInv'
  <2>1. /\ mIsEnabled' \in [Sensors -> BOOLEAN] /\ mStopThread' \in [Sensors -> BOOLEAN]
        /\ mDirectChannelEnabled' \in [Sensors -> BOOLEAN] /\ mutexLeaked' \in [Sensors -> BOOLEAN]
    BY <1>2 DEF SensorInv, SensorTypeOK, SensorsAssumption
  <2>2. SensorTypeOK'
    BY <1>1, <2>1, NotifiedRun DEF SensorInv, SensorTypeOK, chipVars
  <2>3. RunFollows' /\ NoMissedActivation'
    BY <1>1, <1>3, NotifiedRun DEF SensorInv, RunFollows, NoMissedActivation
  <2>4. ChipServesPolling' /\ ChipFastEnough'
    BY <1>1, <1>3 DEF SensorInv, ChipServesPolling, ChipFastEnough, SmallerOf, chipVars
  <2> QED BY <2>2, <2>3, <2>4 DEF SensorInv
<1>5. CallTypeOK'
  BY <1>1 DEF CallInv, CallTypeOK, Calls, registryVars
<1>6. CallFollows'
  BY <1>1, <1>3 DEF CallInv, CallFollows
<1>7. Views'
  BY <1>1 DEF CallInv, Views, Reports, registryVars
<1>8. Registry'
  BY <1>1 DEF CallInv, Registry, registryVars
<1> QED BY <1>4, <1>5, <1>6, <1>7, <1>8 DEF CallInv

LEMMA JoinKeeps ==
  ASSUME HalInv, NEW s \in Sensors, JoinRunThread(s)
  PROVE  HalInv'
<1> USE DEF HalInv
<1>1. SensorInv'
  BY SensorsStay DEF JoinRunThread, sensorVars
<1>2. /\ UNCHANGED <<mIsEnabled, mDirectChannelEnabled, enabledChannels, mStopThread, mDirectChannels,
                     mNextChannelHandle, sensorHandles, reporting>>
      /\ binder.call = "join"
      /\ binder'.call = "destroyed" /\ binder'.channel = 0 /\ binder'.todo = {}
  BY DEF JoinRunThread, pollVars, directVars, endVars, registryVars, Serve
<1>3. CallTypeOK' /\ Registry'
  BY <1>2 DEF CallInv, CallTypeOK, Calls, Registry
<1>4. CallFollows'
  BY <1>2 DEF CallInv, CallFollows
<1>5. Views'
  BY <1>2 DEF CallInv, Views, Reports
<1> QED BY <1>1, <1>3, <1>4, <1>5 DEF CallInv

-----------------------------------------------------------------------------
LEMMA InitHolds == SensorsAssumption /\ Init => HalInv
<1> SUFFICES ASSUME SensorsAssumption, Init PROVE HalInv
  OBVIOUS
<1> USE DEF Init
<1>1. binder.call = "idle" /\ binder.channel = 0 /\ binder.todo = {}
  BY DEF Idle
<1>2. SensorInv
  BY DEF SensorInv, SensorTypeOK, RunFollows, ChipServesPolling, ChipFastEnough, NoMissedActivation,
     SmallerOf, SensorsAssumption
<1>3. CallInv
  BY <1>1 DEF CallInv, CallTypeOK, CallFollows, Views, Reports, Registry, Calls, Channels, SensorsAssumption
<1> QED BY <1>2, <1>3 DEF HalInv

LEMMA ContinueKeeps == SensorsAssumption /\ HalInv /\ Continue => HalInv'
BY ConfigureKeeps, DisableEntryKeeps, NextEntryKeeps, EndKeeps, DisableNextKeeps, DisabledAllKeeps,
   JoinKeeps DEF Continue

LEMMA NextKeeps == SensorsAssumption /\ HalInv /\ [Next]_vars => HalInv'
<1> SUFFICES ASSUME SensorsAssumption, HalInv, [Next]_vars PROVE HalInv'
  OBVIOUS
<1>1. CASE UNCHANGED vars
  BY <1>1, SensorsStay, CallStays DEF HalInv, vars, sensorVars, callVars, pollVars, directVars, endVars,
     chipVars, registryVars
<1>2. CASE \E s \in Sensors : RunLoop(s) \/ RunWritesDirect(s) \/ RunPosts(s)
  BY <1>2, RunKeeps
<1>3. CASE \E s \in Sensors : SampleFallsDue(s) \/ DirectSampleFallsDue(s)
  BY <1>3, TimeKeeps
<1>4. CASE \/ \E s \in Sensors, request \in Requests : Batch(s, request)
           \/ \E s \in Sensors, enable \in BOOLEAN : Activate(s, enable)
           \/ RegisterDirectChannel
  <2>1. binder = Idle
    BY <1>4 DEF Batch, Activate, RegisterDirectChannel
  <2> QED BY <1>4, <2>1, OneStepKeeps
<1>5. CASE \E s \in Sensors, c \in Channels : ConfigReport(s, c) \/ ConfigStop(s, c)
  <2>1. binder = Idle
    BY <1>5 DEF ConfigReport, ConfigStop
  <2> QED BY <1>5, <2>1, BeginKeeps
<1>6. CASE \E c \in Channels : ConfigStopAll(c) \/ UnregisterDirectChannel(c)
  <2>1. binder = Idle
    BY <1>6 DEF ConfigStopAll, UnregisterDirectChannel
  <2> QED BY <1>6, <2>1, VisitAllKeeps
<1>7. CASE Initialize
  BY <1>7, InitializeKeeps
<1>8. CASE \E s \in Sensors : DestroySensor(s)
  BY <1>8, DestroyKeeps
<1>9. CASE Continue
  BY <1>9, ContinueKeeps
<1> QED BY <1>1, <1>2, <1>3, <1>4, <1>5, <1>6, <1>7, <1>8, <1>9 DEF Next

(* The invariant holds of the HAL whatever its sensors, channels and       *)
(* periods (every operation of Sensors.h and Sensor.cpp).                  *)
THEOREM HalInvariant == Spec => []HalInv
BY SensorsAssumption, InitHolds, NextKeeps, PTL DEF Spec

(* Type correctness of the sensors and the registry.                       *)
THEOREM HalTypeCorrect == Spec => []TypeOK
<1>1. HalInv => TypeOK
  BY DEF HalInv, SensorInv, CallInv, TypeOK
<1> QED BY <1>1, HalInvariant, PTL

(* Whenever mChannelMutex is free, the registry and the sensors' own lists *)
(* of channels agree (configDirectReport, unregisterDirectChannel).        *)
THEOREM ViewsAgree == Spec => []SameView
<1>1. HalInv => SameView
  BY DEF HalInv, CallInv, Views, Reports, SameView, ChannelMutexFree
<1> QED BY <1>1, HalInvariant, PTL

(* initialize() replaces the event queue and clears the registry while no  *)
(* run thread uses them, though it takes no mutex for it.                  *)
THEOREM ResetIsAlone == Spec => []ReplacedAlone
<1>1. HalInv => ReplacedAlone
  <2> SUFFICES ASSUME HalInv, binder.call = "reset", binder.todo = {}, NEW s \in Sensors
               PROVE  /\ run[s] \notin {"direct", "post"}
                      /\ ~mIsEnabled[s] /\ ~mDirectChannelEnabled[s]
    BY DEF ReplacedAlone
  <2>1. enabledChannels[s] = {}
    BY DEF HalInv, SensorInv, SensorTypeOK, CallInv, Views
  <2>2. ~mStopThread[s] /\ ~mIsEnabled[s]
    BY Alive DEF HalInv, CallInv, CallFollows
  <2>3. ~mDirectChannelEnabled[s]
    BY <2>1, <2>2 DEF HalInv, CallInv, CallFollows
  <2> QED BY <2>2, <2>3 DEF HalInv, SensorInv, RunFollows
<1> QED BY <1>1, HalInvariant, PTL

(* Polling and direct reports share the power of the chip: it is on while  *)
(* the framework has the sensor enabled, whatever direct reports come and  *)
(* go (activate, updateDirectChannel).                                     *)
THEOREM ChipShared == Spec => []ChipServesPolling
<1>1. HalInv => ChipServesPolling
  BY DEF HalInv, SensorInv
<1> QED BY <1>1, HalInvariant, PTL

(* They share its rate too: neither a direct report's nor a batch's period *)
(* leaves the chip slower than the faster of the two needs                 *)
(* (batch, updateDirectChannel).                                           *)
THEOREM ChipKeepsUp == Spec => []ChipFastEnough
<1>1. HalInv => ChipFastEnough
  BY DEF HalInv, SensorInv
<1> QED BY <1>1, HalInvariant, PTL

(* No activation, direct report or destruction misses a run thread in its  *)
(* untimed wait (mWaitCV).                                                 *)
THEOREM WaitsOnlyWhenIdle == Spec => []NoMissedActivation
<1>1. HalInv => NoMissedActivation
  BY DEF HalInv, SensorInv
<1> QED BY <1>1, HalInvariant, PTL
=============================================================================
