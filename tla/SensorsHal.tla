----------------------------- MODULE SensorsHal -----------------------------
(***************************************************************************)
(* The Sensors HAL (2.X/Sensors.h) and its sensors (2.X/Sensor.cpp): each  *)
(* sensor has a run thread that polls its chip and hands the events to the *)
(* event queue and to the direct channels; the binder thread activates,    *)
(* batches, configures direct reports and initializes.  The registry of    *)
(* direct channels and every sensor's own list of them are kept under      *)
(* different mutexes, mChannelMutex and the sensor's mRunMutex.            *)
(*                                                                         *)
(* All Bosch sensors are continuous and offer RateLevel::NORMAL only, so   *)
(* a channel's rateNs is 0 or NormalRate and every sample is written.      *)
(***************************************************************************)
EXTENDS Integers, FiniteSets

CONSTANTS
  Sensors,
  MaxChannels,          (* direct channels registered (bound of the model)  *)
  Requests,             (* sampling periods the framework asks for          *)
  MinDelay, MaxDelay,   (* mSensorInfo.minDelay and maxDelay                *)
  NormalRate,           (* 20 ms                                            *)
  Forever,              (* numeric_limits<int64_t>::max()                   *)
  DestructorKeepsMutex  (* TRUE in 2.X and aidl, FALSE in multihal/common   *)

Channels == 1..MaxChannels

ASSUME SensorsAssumption ==
  /\ MaxChannels \in Nat
  /\ Requests \subseteq Nat
  /\ MinDelay \in Nat \ {0} /\ MaxDelay \in Nat /\ MinDelay <= MaxDelay
  /\ NormalRate \in Nat \ {0}
  /\ Forever \in Nat /\ MaxDelay < Forever /\ NormalRate < Forever
  /\ DestructorKeepsMutex \in BOOLEAN

VARIABLES
  mIsEnabled, mSamplingPeriodNs, mNextSampleTimeNs,          (* of each sensor *)
  mDirectChannelEnabled, mDirectChannelRateNs, mNextDirectChannelNs,
  enabledChannels,      (* the enabled entries of the sensor's mDirectChannels *)
  mStopThread,
  mutexLeaked,          (* mRunMutex left locked by the destructor          *)
  run,                  (* where the run thread is                          *)
  chipActive, chipPeriod,   (* what ISensorHal was told, 0 before any batch() *)
  mDirectChannels,      (* the registered channels' handles                 *)
  mNextChannelHandle,
  sensorHandles,        (* of each channel                                  *)
  reporting,            (* of each channel, the sensors whose rateNs is not 0 *)
  binder                (* the call being served and what it has left to do *)

pollVars == <<mIsEnabled, mSamplingPeriodNs, mNextSampleTimeNs>>
directVars == <<mDirectChannelEnabled, mDirectChannelRateNs, mNextDirectChannelNs, enabledChannels>>
endVars == <<mStopThread, mutexLeaked>>
chipVars == <<chipActive, chipPeriod>>
registryVars == <<mDirectChannels, mNextChannelHandle, sensorHandles, reporting>>
vars == <<pollVars, directVars, endVars, chipVars, registryVars, run, binder>>

SmallerOf(a, b) == IF a <= b THEN a ELSE b

(* The run thread holds its mutex except in its waits and on the way back. *)
RunMutexFree(s) == run[s] \in {"awake", "waiting", "timed"} /\ ~mutexLeaked[s]

(* mChannelMutex: writeToDirectBuffer holds it within one step.            *)
ChannelMutexFree == binder.call \notin {"add", "disableEntry", "stop", "stopAll", "unregister"}

Notified_Never(s) == run

(* mWaitCV.notify_all()                                                    *)
Notified(s) == [run EXCEPT ![s] = IF @ = "waiting" THEN "awake" ELSE @]

-----------------------------------------------------------------------------
(* The run thread.                                                         *)

(* The loop up to its first action, with the mutex: wait, or read the chip *)
(* and see what is due.                                                    *)
RunLoop(s) ==
  /\ run[s] \in {"awake", "timed"}
  /\ ~mutexLeaked[s]
  /\ run' = [run EXCEPT ![s] =
       CASE mStopThread[s] -> "ended"
         [] ~mStopThread[s] /\ ~mIsEnabled[s] /\ ~mDirectChannelEnabled[s] -> "waiting"
         [] ~mStopThread[s] /\ mDirectChannelEnabled[s] /\ mNextDirectChannelNs[s] = "now" -> "direct"
         [] ~mStopThread[s] /\ mIsEnabled[s] /\ mNextSampleTimeNs[s] = "now"
              /\ ~(mDirectChannelEnabled[s] /\ mNextDirectChannelNs[s] = "now") -> "post"
         [] OTHER -> "timed"]
  /\ UNCHANGED <<pollVars, directVars, endVars, chipVars, registryVars, binder>>

WriteToDirectBuffer_Blocking(s) == ChannelMutexFree

(* mChannelMutex.try_lock(): without the mutex the samples are dropped.    *)
WriteToDirectBuffer(s) == TRUE

RunWritesDirect(s) ==
  /\ run[s] = "direct"
  /\ WriteToDirectBuffer(s)
  /\ mNextDirectChannelNs' = [mNextDirectChannelNs EXCEPT ![s] = "later"]
  /\ run' = [run EXCEPT ![s] = IF mIsEnabled[s] /\ mNextSampleTimeNs[s] = "now" THEN "post" ELSE "timed"]
  /\ UNCHANGED <<pollVars, mDirectChannelEnabled, mDirectChannelRateNs, enabledChannels,
                 endVars, chipVars, registryVars, binder>>

(* postEvents under mWriteLock.                                            *)
RunPosts(s) ==
  /\ run[s] = "post"
  /\ mNextSampleTimeNs' = [mNextSampleTimeNs EXCEPT ![s] = "later"]
  /\ run' = [run EXCEPT ![s] = "timed"]
  /\ UNCHANGED <<mIsEnabled, mSamplingPeriodNs, directVars, endVars, chipVars, registryVars, binder>>

SampleFallsDue(s) ==
  /\ mNextSampleTimeNs[s] = "later"
  /\ run[s] \in {"awake", "timed"}
  /\ mNextSampleTimeNs' = [mNextSampleTimeNs EXCEPT ![s] = "now"]
  /\ UNCHANGED <<mIsEnabled, mSamplingPeriodNs, directVars, endVars, chipVars, registryVars, run, binder>>

DirectSampleFallsDue(s) ==
  /\ mNextDirectChannelNs[s] = "later"
  /\ run[s] \in {"awake", "timed"}
  /\ mNextDirectChannelNs' = [mNextDirectChannelNs EXCEPT ![s] = "now"]
  /\ UNCHANGED <<pollVars, mDirectChannelEnabled, mDirectChannelRateNs, enabledChannels,
                 endVars, chipVars, registryVars, run, binder>>

-----------------------------------------------------------------------------
(* The sensor's operations, each a critical section of its mRunMutex.      *)

Clamp(period) ==
  CASE period < MinDelay -> MinDelay
    [] period > MaxDelay -> MaxDelay
    [] OTHER -> period

ForwardsBatch_Always(s, period) == TRUE

ForwardsBatch(s, period) == period < mDirectChannelRateNs[s]

(* Sensor::batch                                                           *)
SensorBatch(s, request) ==
  LET period == Clamp(request)
  IN /\ RunMutexFree(s)
     /\ chipPeriod' = IF ForwardsBatch(s, period) THEN [chipPeriod EXCEPT ![s] = period] ELSE chipPeriod
     /\ mSamplingPeriodNs' = [mSamplingPeriodNs EXCEPT ![s] = period]
     /\ run' = IF mSamplingPeriodNs[s] # period THEN Notified(s) ELSE run
     /\ UNCHANGED <<mIsEnabled, mNextSampleTimeNs, directVars, endVars, chipActive, registryVars>>

(* Sensor::activate; the additional info it posts is an event like others. *)
SensorActivate(s, enable) ==
  /\ RunMutexFree(s)
  /\ IF mIsEnabled[s] = enable
     THEN UNCHANGED <<mIsEnabled, mNextSampleTimeNs, run, chipActive>>
     ELSE /\ mIsEnabled' = [mIsEnabled EXCEPT ![s] = enable]
          /\ mNextSampleTimeNs' = [mNextSampleTimeNs EXCEPT ![s] = IF enable THEN "now" ELSE "never"]
          /\ run' = Notified(s)
          /\ chipActive' = [chipActive EXCEPT ![s] = enable]
  /\ UNCHANGED <<mSamplingPeriodNs, directVars, endVars, chipPeriod, registryVars>>

SwitchesChip_Always(s, enable) == mDirectChannelEnabled[s] # enable

(* Only a chip that no polling needs is switched with the direct report.   *)
SwitchesChip(s, enable) == mDirectChannelEnabled[s] # enable /\ ~mIsEnabled[s]

SpeedsChipUp(s, rate) == mDirectChannelRateNs[s] # rate /\ rate < mSamplingPeriodNs[s]

(* Sensor::updateDirectChannel, with the entries already updated.          *)
UpdateDirectChannel(s, entries) ==
  LET enable == entries # {}
      rate == IF enable THEN NormalRate ELSE Forever
  IN /\ enabledChannels' = [enabledChannels EXCEPT ![s] = entries]
     /\ mDirectChannelRateNs' = [mDirectChannelRateNs EXCEPT ![s] = rate]
     /\ chipPeriod' = IF SpeedsChipUp(s, rate) THEN [chipPeriod EXCEPT ![s] = rate] ELSE chipPeriod
     /\ mDirectChannelEnabled' = [mDirectChannelEnabled EXCEPT ![s] = enable]
     /\ mNextDirectChannelNs' =
          IF mDirectChannelEnabled[s] = enable THEN mNextDirectChannelNs
          ELSE [mNextDirectChannelNs EXCEPT ![s] = IF enable THEN "now" ELSE "never"]
     /\ chipActive' = IF SwitchesChip(s, enable) THEN [chipActive EXCEPT ![s] = enable] ELSE chipActive
     /\ run' = Notified(s)
     /\ UNCHANGED <<pollVars, endVars>>

EntriesAfterRemoval_Kept(s, c) == enabledChannels[s]

(* removeDirectChannel erases the entry, stopDirectChannel disables it.    *)
EntriesAfterRemoval(s, c) == enabledChannels[s] \ {c}

RemoveDirectChannel(s, c) == RunMutexFree(s) /\ UpdateDirectChannel(s, EntriesAfterRemoval(s, c))

-----------------------------------------------------------------------------
(* The framework's calls.                                                  *)

Idle == [call |-> "idle", channel |-> 0, todo |-> {}]

Serve(call, c, todo) == binder' = [call |-> call, channel |-> c, todo |-> todo]

Visited(s, c) == Serve(binder.call, binder.channel, binder.todo \ {<<s, c>>})

Batch(s, request) ==
  /\ binder = Idle
  /\ SensorBatch(s, request)
  /\ UNCHANGED binder

Activate(s, enable) ==
  /\ binder = Idle
  /\ SensorActivate(s, enable)
  /\ UNCHANGED binder

RegisterDirectChannel ==
  /\ binder = Idle
  /\ mNextChannelHandle \in Channels
  /\ mDirectChannels' = mDirectChannels \union {mNextChannelHandle}
  /\ mNextChannelHandle' = mNextChannelHandle + 1
  /\ UNCHANGED <<pollVars, directVars, endVars, chipVars, sensorHandles, reporting, run, binder>>

(* configDirectReport(s, c, NORMAL): the registry first ...                *)
ConfigReport(s, c) ==
  /\ binder = Idle
  /\ c \in mDirectChannels
  /\ reporting' = [reporting EXCEPT ![c] = @ \union {s}]
  /\ sensorHandles' = [sensorHandles EXCEPT ![c] = @ \union {s}]
  /\ Serve("add", c, {<<s, c>>})
  /\ UNCHANGED <<pollVars, directVars, endVars, chipVars, mDirectChannels, mNextChannelHandle, run>>

(* ... then addDirectChannel.                                              *)
AddDirectChannel(s, c) ==
  /\ binder.call = "add"
  /\ <<s, c>> \in binder.todo
  /\ RunMutexFree(s)
  /\ UpdateDirectChannel(s, enabledChannels[s] \union {c})
  /\ binder' = Idle
  /\ UNCHANGED registryVars

(* configDirectReport(s, c, STOP): the sensor is listed even so ...        *)
ConfigStop(s, c) ==
  /\ binder = Idle
  /\ c \in mDirectChannels
  /\ reporting' = [reporting EXCEPT ![c] = @ \ {s}]
  /\ sensorHandles' = [sensorHandles EXCEPT ![c] = @ \union {s}]
  /\ Serve("disableEntry", c, {<<s, c>>})
  /\ UNCHANGED <<pollVars, directVars, endVars, chipVars, mDirectChannels, mNextChannelHandle, run>>

(* ... addDirectChannel(c, 0) disables its entry, releases the mutex ...   *)
DisableEntry(s, c) ==
  /\ binder.call = "disableEntry"
  /\ <<s, c>> \in binder.todo
  /\ RunMutexFree(s)
  /\ enabledChannels' = [enabledChannels EXCEPT ![s] = @ \ {c}]
  /\ Serve("stop", c, binder.todo)
  /\ UNCHANGED <<pollVars, mDirectChannelEnabled, mDirectChannelRateNs, mNextDirectChannelNs,
                 endVars, chipVars, registryVars, run>>

(* ... and takes it again in stopDirectChannel.                            *)
StopDirectChannel(s, c) ==
  /\ binder.call = "stop"
  /\ <<s, c>> \in binder.todo
  /\ RemoveDirectChannel(s, c)
  /\ binder' = Idle
  /\ UNCHANGED registryVars

(* configDirectReport(-1, c, STOP)                                         *)
ConfigStopAll(c) ==
  /\ binder = Idle
  /\ c \in mDirectChannels
  /\ Serve("stopAll", c, sensorHandles[c] \X {c})
  /\ UNCHANGED <<pollVars, directVars, endVars, chipVars, registryVars, run>>

StopNext(s, c) ==
  /\ binder.call = "stopAll"
  /\ <<s, c>> \in binder.todo
  /\ reporting' = [reporting EXCEPT ![c] = @ \ {s}]
  /\ RemoveDirectChannel(s, c)
  /\ Visited(s, c)
  /\ UNCHANGED <<mDirectChannels, mNextChannelHandle, sensorHandles>>

StoppedAll ==
  /\ binder.call = "stopAll"
  /\ binder.todo = {}
  /\ binder' = Idle
  /\ UNCHANGED <<pollVars, directVars, endVars, chipVars, registryVars, run>>

UnregisterDirectChannel(c) ==
  /\ binder = Idle
  /\ c \in mDirectChannels
  /\ Serve("unregister", c, sensorHandles[c] \X {c})
  /\ UNCHANGED <<pollVars, directVars, endVars, chipVars, registryVars, run>>

(* initialize(): disable all sensors ...                                   *)
Initialize ==
  /\ binder = Idle
  /\ Serve("disable", 0, Sensors \X {0})
  /\ UNCHANGED <<pollVars, directVars, endVars, chipVars, registryVars, run>>

DisableNext(s) ==
  /\ binder.call = "disable"
  /\ <<s, 0>> \in binder.todo
  /\ SensorActivate(s, FALSE)
  /\ Visited(s, 0)

(* ... reset the direct channels, without mChannelMutex ...                *)
DisabledAll ==
  /\ binder.call = "disable"
  /\ binder.todo = {}
  /\ Serve("reset", 0, UNION {sensorHandles[c] \X {c} : c \in mDirectChannels})
  /\ UNCHANGED <<pollVars, directVars, endVars, chipVars, registryVars, run>>

RemoveNext(s, c) ==
  /\ binder.call \in {"unregister", "reset"}
  /\ <<s, c>> \in binder.todo
  /\ RemoveDirectChannel(s, c)
  /\ Visited(s, c)
  /\ UNCHANGED registryVars

EraseChannel ==
  /\ binder.call = "unregister"
  /\ binder.todo = {}
  /\ mDirectChannels' = mDirectChannels \ {binder.channel}
  /\ sensorHandles' = [sensorHandles EXCEPT ![binder.channel] = {}]
  /\ reporting' = [reporting EXCEPT ![binder.channel] = {}]
  /\ binder' = Idle
  /\ UNCHANGED <<pollVars, directVars, endVars, chipVars, mNextChannelHandle, run>>

(* ... then clear the registry and replace the event queue and its flag.   *)
ClearChannels ==
  /\ binder.call = "reset"
  /\ binder.todo = {}
  /\ mDirectChannels' = {}
  /\ sensorHandles' = [c \in Channels |-> {}]
  /\ reporting' = [c \in Channels |-> {}]
  /\ binder' = Idle
  /\ UNCHANGED <<pollVars, directVars, endVars, chipVars, mNextChannelHandle, run>>

(* The service ends: ~Sensors destroys the sensors one after the other.    *)
DestroySensor(s) ==
  /\ binder = Idle \/ binder.call = "destroyed"
  /\ ~mStopThread[s]
  /\ RunMutexFree(s)
  /\ mStopThread' = [mStopThread EXCEPT ![s] = TRUE]
  /\ mIsEnabled' = [mIsEnabled EXCEPT ![s] = FALSE]
  /\ mDirectChannelEnabled' = [mDirectChannelEnabled EXCEPT ![s] = FALSE]
  /\ run' = Notified(s)
  /\ mutexLeaked' = [mutexLeaked EXCEPT ![s] = DestructorKeepsMutex]
  /\ Serve("join", 0, {<<s, 0>>})
  /\ UNCHANGED <<mSamplingPeriodNs, mNextSampleTimeNs, mDirectChannelRateNs, mNextDirectChannelNs,
                 enabledChannels, chipVars, registryVars>>

JoinRunThread(s) ==
  /\ binder.call = "join"
  /\ <<s, 0>> \in binder.todo
  /\ run[s] = "ended"
  /\ Serve("destroyed", 0, {})
  /\ UNCHANGED <<pollVars, directVars, endVars, chipVars, registryVars, run>>

Run(s) == RunLoop(s) \/ RunWritesDirect(s) \/ RunPosts(s)

(* The steps of a call that has begun.                                     *)
Continue ==
  \/ \E s \in Sensors, c \in Channels : AddDirectChannel(s, c)
  \/ \E s \in Sensors, c \in Channels : DisableEntry(s, c) \/ StopDirectChannel(s, c)
  \/ \E s \in Sensors, c \in Channels : StopNext(s, c) \/ RemoveNext(s, c)
  \/ StoppedAll
  \/ EraseChannel
  \/ \E s \in Sensors : DisableNext(s)
  \/ DisabledAll
  \/ ClearChannels
  \/ \E s \in Sensors : JoinRunThread(s)

-----------------------------------------------------------------------------
Init ==
  /\ mIsEnabled = [s \in Sensors |-> FALSE]
  /\ mSamplingPeriodNs = [s \in Sensors |-> MinDelay]
  /\ mNextSampleTimeNs = [s \in Sensors |-> "never"]
  /\ mDirectChannelEnabled = [s \in Sensors |-> FALSE]
  /\ mDirectChannelRateNs = [s \in Sensors |-> Forever]
  /\ mNextDirectChannelNs = [s \in Sensors |-> "never"]
  /\ enabledChannels = [s \in Sensors |-> {}]
  /\ mStopThread = [s \in Sensors |-> FALSE]
  /\ mutexLeaked = [s \in Sensors |-> FALSE]
  /\ run = [s \in Sensors |-> "awake"]
  /\ chipActive = [s \in Sensors |-> FALSE]
  /\ chipPeriod = [s \in Sensors |-> 0]
  /\ mDirectChannels = {}
  /\ mNextChannelHandle = 1
  /\ sensorHandles = [c \in Channels |-> {}]
  /\ reporting = [c \in Channels |-> {}]
  /\ binder = Idle

Next ==
  \/ \E s \in Sensors : RunLoop(s) \/ RunWritesDirect(s) \/ RunPosts(s)
  \/ \E s \in Sensors : SampleFallsDue(s) \/ DirectSampleFallsDue(s)
  \/ \E s \in Sensors, request \in Requests : Batch(s, request)
  \/ \E s \in Sensors, enable \in BOOLEAN : Activate(s, enable)
  \/ RegisterDirectChannel
  \/ \E s \in Sensors, c \in Channels : ConfigReport(s, c) \/ ConfigStop(s, c)
  \/ \E c \in Channels : ConfigStopAll(c) \/ UnregisterDirectChannel(c)
  \/ Initialize
  \/ \E s \in Sensors : DestroySensor(s)
  \/ Continue

Spec == Init /\ [][Next]_vars

(* The run threads run, time passes whatever they do, and the binder       *)
(* thread gets a mutex it keeps asking for, since run threads wait at      *)
(* least a millisecond in every round.                                     *)
Fairness ==
  /\ \A s \in Sensors : WF_vars(Run(s))
  /\ \A s \in Sensors : SF_vars(SampleFallsDue(s)) /\ SF_vars(DirectSampleFallsDue(s))
  /\ SF_vars(Continue)

FairSpec == Spec /\ Fairness

-----------------------------------------------------------------------------
Calls == {"idle", "add", "disableEntry", "stop", "stopAll", "unregister", "disable", "reset",
          "join", "destroyed"}

SensorTypeOK ==
  /\ mIsEnabled \in [Sensors -> BOOLEAN]
  /\ mSamplingPeriodNs \in [Sensors -> MinDelay..MaxDelay]
  /\ mNextSampleTimeNs \in [Sensors -> {"now", "later", "never"}]
  /\ mDirectChannelEnabled \in [Sensors -> BOOLEAN]
  /\ mDirectChannelRateNs \in [Sensors -> {NormalRate, Forever}]
  /\ mNextDirectChannelNs \in [Sensors -> {"now", "later", "never"}]
  /\ enabledChannels \in [Sensors -> SUBSET Channels]
  /\ mStopThread \in [Sensors -> BOOLEAN]
  /\ mutexLeaked \in [Sensors -> BOOLEAN]
  /\ run \in [Sensors -> {"awake", "waiting", "timed", "direct", "post", "ended"}]
  /\ chipActive \in [Sensors -> BOOLEAN]
  /\ chipPeriod \in [Sensors -> Nat]

CallTypeOK ==
  /\ mDirectChannels \subseteq Channels
  /\ mNextChannelHandle \in 1..(MaxChannels + 1)
  /\ sensorHandles \in [Channels -> SUBSET Sensors]
  /\ reporting \in [Channels -> SUBSET Sensors]
  /\ binder.call \in Calls
  /\ binder.channel \in Channels \union {0}
  /\ binder.todo \subseteq Sensors \X (Channels \union {0})

TypeOK == SensorTypeOK /\ CallTypeOK

(* The registry, kept under mChannelMutex, and the sensors' own lists,     *)
(* kept under their mRunMutexes, agree whenever mChannelMutex is free, so  *)
(* that a run thread that gets the mutex writes to exactly the channels it *)
(* was woken for (configDirectReport, unregisterDirectChannel, initialize). *)
SameView ==
  ChannelMutexFree /\ binder.call # "reset" =>
    \A s \in Sensors, c \in Channels :
      c \in enabledChannels[s] <=> c \in mDirectChannels /\ s \in reporting[c]

(* initialize() clears the registry and replaces the event queue without   *)
(* mChannelMutex or mWriteLock: at that moment no run thread is about to   *)
(* use either, nor can it become so.                                       *)
ReplacedAlone ==
  binder.call = "reset" /\ binder.todo = {} =>
    \A s \in Sensors :
      /\ run[s] \notin {"direct", "post"}
      /\ ~mIsEnabled[s] /\ ~mDirectChannelEnabled[s]

(* The end of a direct report never switches off the chip of a sensor that *)
(* is polled, and a chip that nobody uses is off (activate,                *)
(* updateDirectChannel).                                                   *)
ChipServesPolling ==
  \A s \in Sensors : ~mStopThread[s] =>
    /\ mIsEnabled[s] => chipActive[s]
    /\ ~mIsEnabled[s] /\ ~mDirectChannelEnabled[s] => ~chipActive[s]

(* Once a chip has been told a period, it is never slower than the polling *)
(* or the direct report need it: batch() does not forward a period slower  *)
(* than the direct report, updateDirectChannel() none slower than polling, *)
(* and neither undoes what the other asked for.                            *)
ChipFastEnough ==
  \A s \in Sensors :
    chipPeriod[s] <= SmallerOf(mSamplingPeriodNs[s], mDirectChannelRateNs[s])

(* A run thread in its untimed wait has nothing to do: no activation,      *)
(* direct report or destruction misses it.                                 *)
NoMissedActivation ==
  \A s \in Sensors :
    run[s] = "waiting" => ~mIsEnabled[s] /\ ~mDirectChannelEnabled[s] /\ ~mStopThread[s]

(* Every call returns: the binder thread, which holds mChannelMutex while  *)
(* it waits for an mRunMutex, and the run threads, which take them in the  *)
(* opposite order, never wait for each other.                              *)
CallsReturn == binder.call # "idle" ~> binder.call \in {"idle", "destroyed"}

(* A sensor that reports to a channel keeps writing to it once the         *)
(* framework leaves the HAL alone.                                         *)
ReportsWhenQuiet ==
  \A s \in Sensors, c \in Channels :
    <>[](binder = Idle /\ s \in reporting[c]) => []<>(run[s] = "direct")

(* "Ensure that lock is unlocked before calling mRunThread.join() or a     *)
(* deadlock will occur" (multihal/common/Sensor.cpp): destructors return.  *)
DestructorReturns == binder.call = "join" ~> binder.call = "destroyed"

-----------------------------------------------------------------------------
(* The inductive invariant behind these properties.                        *)

(* A run thread is on its way into a callback only while the callback is   *)
(* wanted, and the sensor's summary of its entries is never too small.     *)
RunFollows ==
  \A s \in Sensors :
    /\ run[s] = "direct" => mDirectChannelEnabled[s]
    /\ run[s] = "post" => mIsEnabled[s]
    /\ ~mStopThread[s] => (mDirectChannelEnabled[s] <=> mDirectChannelRateNs[s] = NormalRate)
    /\ ~mStopThread[s] /\ enabledChannels[s] # {} => mDirectChannelEnabled[s]

SensorInv ==
  /\ SensorTypeOK
  /\ RunFollows
  /\ ChipServesPolling
  /\ ChipFastEnough
  /\ NoMissedActivation

(* What the call in progress says of the sensors; a summary is too large   *)
(* only between the two critical sections of addDirectChannel(c, 0).       *)
CallFollows ==
  \A s \in Sensors :
    /\ mStopThread[s] => binder.call \in {"join", "destroyed"}
    /\ binder.call = "disable" /\ <<s, 0>> \notin binder.todo => ~mIsEnabled[s]
    /\ binder.call = "reset" => ~mIsEnabled[s]
    /\ ~mStopThread[s] /\ mDirectChannelEnabled[s] /\ enabledChannels[s] = {} =>
         binder.call = "stop" /\ \E c \in Channels : <<s, c>> \in binder.todo

(* Channel c reports sensor s, in the registry.                            *)
Reports(s, c) == c \in mDirectChannels /\ s \in reporting[c]

(* What a call has left to do is what the two views still differ in.       *)
Views ==
  \A s \in Sensors, c \in Channels :
    LET pending == <<s, c>> \in binder.todo
        behind == binder.call \in {"add", "disableEntry"} /\ pending
        removed == ~pending /\ (binder.call = "unregister" => c = binder.channel)
                   /\ binder.call \in {"unregister", "reset"}
    IN /\ binder.call = "add" /\ pending => Reports(s, c)
       /\ binder.call \in {"disableEntry", "stop"} /\ pending => ~Reports(s, c)
       /\ removed => c \notin enabledChannels[s]
       /\ ~behind /\ ~removed => (c \in enabledChannels[s] <=> Reports(s, c))

(* The registry lists every sensor it has a rate for, no sensor of a       *)
(* channel it does not have, and calls work on registered channels,        *)
(* configDirectReport on one sensor.                                       *)
Registry ==
  /\ \A c \in Channels : reporting[c] \subseteq sensorHandles[c]
  /\ \A c \in Channels : c \notin mDirectChannels => reporting[c] = {}
  /\ binder.call \in {"add", "disableEntry", "stop", "stopAll", "unregister"} =>
       /\ binder.channel \in mDirectChannels
       /\ binder.todo \subseteq Sensors \X {binder.channel}
  /\ binder.call = "reset" => binder.todo \subseteq Sensors \X mDirectChannels
  /\ binder.call \in {"add", "disableEntry", "stop"} =>
       \A p, q \in binder.todo : p = q

CallInv ==
  /\ CallTypeOK
  /\ CallFollows
  /\ Views
  /\ Registry

HalInv == SensorInv /\ CallInv
=============================================================================
