---------------------------- MODULE SampleTiming ----------------------------
(***************************************************************************)
(* When a sensor of the multi-HAL's sub-HAL delivers its samples: the loop *)
(* of Sensor::run() with its two schedules, polling and direct report, and *)
(* the calls that change them (multihal/common/Sensor.cpp and              *)
(* SensorsSubHal.cpp).  Times and periods are integers, as in the code,    *)
(* except where the code computes in floating point (FloatOf).             *)
(*                                                                         *)
(* Actors: the run thread of one sensor, the binder thread and the clock.  *)
(* A call and a pass of the loop hold mRunMutex and are one step each.     *)
(* The run thread gets to run at most Late units after it should wake up.  *)
(* mChannelMutex is free whenever the loop tries it: what happens when it  *)
(* is not is the matter of SensorsHal.                                     *)
(*                                                                         *)
(* Bounds: Horizon units of time after Uptime.                             *)
(***************************************************************************)
EXTENDS Integers

CONSTANTS Channels,     \* direct channels
          MinDelay, MaxDelay,
          Periods,      \* sampling periods the framework asks for
          RateNs,       \* period of the rate levels NORMAL, FAST, VERY_FAST
          MaxRate,      \* the level AddSensors() puts in the sensor's flags
          MinWait,      \* the shortest wait of the run thread, a millisecond
          Uptime,       \* elapsedRealtimeNano() when the model starts
          Late, Horizon

Never == 2147483647     \* std::numeric_limits<int64_t>::max()
NoTime == -1            \* no sample since the schedule changed

ASSUME TimingAssumption ==
  /\ MinDelay \in Nat \ {0} /\ MaxDelay \in Nat /\ MinDelay =< MaxDelay
  /\ Periods \subseteq Nat
  /\ RateNs \in [1 .. 3 -> Nat \ {0}] /\ MaxRate \in 1 .. 3
  /\ MinWait \in Nat \ {0}
  /\ Uptime \in Nat /\ Late \in Nat /\ Horizon \in Nat
  /\ Uptime + Horizon + Late + MinWait + MaxDelay + RateNs[1] < Never

VARIABLES
  now,                  \* elapsedRealtimeNano()
  mIsEnabled, mSamplingPeriodNs, mNextSampleTimeNs,
  mDirectChannels,      \* the sensor's entry for each channel
  mDirectChannelRateNs, mDirectChannelEnabled, mNextDirectChannelNs,
  channels,             \* direct channels of the sub-HAL
  sensorHandles,        \* channels that list the sensor
  rateNs, sampleCount,  \* the channels' own fields for the sensor
  wakeAt,               \* end of the run thread's wait_for
  lastPost,             \* history: time of the last posted sample,
  postPeriod,           \* and the sampling period then
  lastWrite             \* history: last sample, or first chance, of each channel

polling == <<mIsEnabled, mSamplingPeriodNs, mNextSampleTimeNs>>
direct == <<mDirectChannels, mDirectChannelRateNs, mDirectChannelEnabled, mNextDirectChannelNs>>
registry == <<channels, sensorHandles, rateNs>>
posted == <<lastPost, postPeriod>>
vars == <<now, polling, direct, registry, sampleCount, wakeAt, posted, lastWrite>>

Entries == [known : BOOLEAN, enabled : BOOLEAN, samplingPeriodNs : Nat]
NoEntry == [known |-> FALSE, enabled |-> FALSE, samplingPeriodNs |-> 0]

Init ==
  /\ now = Uptime
  /\ mIsEnabled = FALSE /\ mSamplingPeriodNs = MinDelay /\ mNextSampleTimeNs = Never
  /\ mDirectChannels = [c \in Channels |-> NoEntry]
  /\ mDirectChannelRateNs = Never /\ mDirectChannelEnabled = FALSE
  /\ mNextDirectChannelNs = Never
  /\ channels = {} /\ sensorHandles = {}
  /\ rateNs = [c \in Channels |-> 0] /\ sampleCount = [c \in Channels |-> 0]
  /\ wakeAt = Uptime
  /\ lastPost = NoTime /\ postPeriod = MinDelay
  /\ lastWrite = [c \in Channels |-> NoTime]

Smaller(a, b) == IF a < b THEN a ELSE b
Larger(a, b) == IF a < b THEN b ELSE a

-----------------------------------------------------------------------------
(* The time of the next sample is an int64_t plus a float: the time of day  *)
(* is rounded to 24 significant bits, the period is added, and the sum is   *)
(* rounded again, each to the nearest, ties to even.  A unit of time of a   *)
(* power of two nanoseconds rounds as nanoseconds do.                       *)

UlpOf(x) == 2 ^ (CHOOSE e \in 0 .. 7 : x < 2 ^ (24 + e) /\ (e = 0 \/ x >= 2 ^ (23 + e)))

FloatOf(x) ==
  LET ulp == UlpOf(x)
      down == x \div ulp
      rest == 2 * (x % ulp)
      up == rest > ulp \/ (rest = ulp /\ down % 2 = 1)
  IN  ulp * (IF up THEN down + 1 ELSE down)

\* Mutant: every next sample is due one unit early
NextTime_Early(t, period) == FloatOf(FloatOf(t) + period) - 1

\* currentTime + period * POLL_TIME_REDUCTION_FACTOR
NextTime(t, period) == FloatOf(FloatOf(t) + period)

-----------------------------------------------------------------------------
(* The run thread                                                           *)

Active == mIsEnabled \/ mDirectChannelEnabled

\* Mutant: the run thread sleeps until the next polled sample only
WaitFor_PollingOnly(t, nextSample, nextDirect) ==
  Larger(MinWait, (IF nextSample = Never THEN nextDirect ELSE nextSample) - t)

\* Until the earlier of the two schedules, but never shorter than MinWait: the
\* thread may sleep past a sample that falls due before that.
WaitFor(t, nextSample, nextDirect) == Larger(MinWait, Smaller(nextSample, nextDirect) - t)

\* writeToDirectBuffer(): a channel with a slower rate than the fastest takes
\* one sample in several.
Served(c) == c \in channels /\ c \in sensorHandles /\ rateNs[c] # 0
FallsDue(c) == Served(c) /\ mDirectChannelRateNs * (sampleCount[c] + 1) >= rateNs[c]

WriteToDirectBuffer ==
  /\ sampleCount' = [c \in Channels |->
       IF FallsDue(c) THEN 0 ELSE IF Served(c) THEN sampleCount[c] + 1 ELSE sampleCount[c]]
  /\ lastWrite' = [c \in Channels |-> IF FallsDue(c) THEN now ELSE lastWrite[c]]

DirectDue == mDirectChannelEnabled /\ now >= mNextDirectChannelNs
SampleDue == mIsEnabled /\ now >= mNextSampleTimeNs

\* One pass of the loop, after a timeout, a notification or for no reason.
Run ==
  /\ Active
  /\ IF DirectDue
     THEN /\ mNextDirectChannelNs' = NextTime(now, mDirectChannelRateNs)
          /\ WriteToDirectBuffer
     ELSE UNCHANGED <<mNextDirectChannelNs, sampleCount, lastWrite>>
  /\ IF SampleDue
     THEN /\ mNextSampleTimeNs' = NextTime(now, mSamplingPeriodNs)
          /\ lastPost' = now /\ postPeriod' = mSamplingPeriodNs
     ELSE UNCHANGED <<mNextSampleTimeNs, posted>>
  /\ wakeAt' = now + WaitFor(now, mNextSampleTimeNs', mNextDirectChannelNs')
  /\ UNCHANGED <<now, mIsEnabled, mSamplingPeriodNs, mDirectChannels, mDirectChannelRateNs,
                 mDirectChannelEnabled, registry>>

\* mWaitCV.notify_all(): a thread that waits, or already should have run, runs
Notify == wakeAt' = IF Active THEN Smaller(wakeAt, now) ELSE now

Tick ==
  /\ now < Uptime + Horizon
  /\ Active => now < wakeAt + Late
  /\ now' = now + 1
  /\ UNCHANGED <<polling, direct, registry, sampleCount, wakeAt, posted, lastWrite>>

-----------------------------------------------------------------------------
(* Polling: activate(), batch()                                             *)

\* Mutant: an activated sensor keeps the schedule of its last activation
FirstSample_Kept(enable) == IF enable THEN now + mSamplingPeriodNs + 1 ELSE Never

FirstSample(enable) == IF enable THEN 0 ELSE Never

Activate(enable) ==
  /\ mIsEnabled # enable
  /\ mIsEnabled' = enable
  /\ mNextSampleTimeNs' = FirstSample(enable)
  /\ Notify
  /\ lastPost' = NoTime
  /\ postPeriod' = now       \* until the first sample: the time of the activation
  /\ UNCHANGED <<now, mSamplingPeriodNs, direct, registry, sampleCount, lastWrite>>

Clamp(period) == Larger(MinDelay, Smaller(MaxDelay, period))

Batch(period) ==
  /\ mSamplingPeriodNs # Clamp(period)
  /\ mSamplingPeriodNs' = Clamp(period)
  /\ Notify
  /\ UNCHANGED <<now, mIsEnabled, mNextSampleTimeNs, direct, registry, sampleCount, posted,
                 lastWrite>>

-----------------------------------------------------------------------------
(* Direct report                                                            *)

EnabledPeriods(entries) ==
  {entries[c].samplingPeriodNs : c \in {d \in Channels : entries[d].known /\ entries[d].enabled}}

\* updateDirectChannel(), after the sensor's entries have become `entries`
UpdateDirectChannel(entries) ==
  LET periods == EnabledPeriods(entries)
      any == periods # {}
  IN  /\ mDirectChannels' = entries
      /\ mDirectChannelRateNs' =
           IF any THEN CHOOSE p \in periods : \A q \in periods : p =< q ELSE Never
      /\ mDirectChannelEnabled' = any
      /\ mNextDirectChannelNs' = IF any = mDirectChannelEnabled THEN mNextDirectChannelNs
                                 ELSE IF any THEN 0 ELSE Never
      /\ Notify

RegisterDirectChannel(c) ==
  /\ c \notin channels
  /\ channels' = channels \cup {c}
  /\ sensorHandles' = sensorHandles \ {c}
  /\ rateNs' = [rateNs EXCEPT ![c] = 0] /\ sampleCount' = [sampleCount EXCEPT ![c] = 0]
  /\ UNCHANGED <<now, polling, direct, wakeAt, posted, lastWrite>>

\* A level above the sensor's is refused and changes nothing.
ConfigDirectReport(c, level) ==
  /\ c \in channels /\ level =< MaxRate
  /\ rateNs' = [rateNs EXCEPT ![c] = RateNs[level]]
  /\ sensorHandles' = sensorHandles \cup {c}
  /\ UpdateDirectChannel([mDirectChannels EXCEPT
       ![c] = [known |-> TRUE, enabled |-> TRUE, samplingPeriodNs |-> RateNs[level]]])
  /\ lastWrite' = [lastWrite EXCEPT ![c] = now]
  /\ UNCHANGED <<now, polling, channels, sampleCount, posted>>

ConfigStop(c) ==
  /\ c \in channels
  /\ rateNs' = [rateNs EXCEPT ![c] = 0]
  /\ sensorHandles' = sensorHandles \cup {c}
  /\ UpdateDirectChannel([mDirectChannels EXCEPT
       ![c] = [known |-> TRUE, enabled |-> FALSE, samplingPeriodNs |-> 0]])
  /\ UNCHANGED <<now, polling, channels, sampleCount, posted, lastWrite>>

Removed(entries, cs) == [c \in Channels |-> IF c \in cs THEN NoEntry ELSE entries[c]]

UnregisterDirectChannel(c) ==
  /\ c \in channels
  /\ channels' = channels \ {c}
  /\ UpdateDirectChannel(Removed(mDirectChannels, {c} \cap sensorHandles))
  /\ UNCHANGED <<now, polling, sensorHandles, rateNs, sampleCount, posted, lastWrite>>

\* The sub-HAL's initialize(): the channels go, the sensors stay as they are.
Initialize ==
  /\ channels # {}
  /\ channels' = {}
  /\ UpdateDirectChannel(Removed(mDirectChannels, channels \cap sensorHandles))
  /\ UNCHANGED <<now, polling, sensorHandles, rateNs, sampleCount, posted, lastWrite>>

Next ==
  \/ Run \/ Tick \/ Initialize
  \/ \E enable \in BOOLEAN : Activate(enable)
  \/ \E p \in Periods : Batch(p)
  \/ \E c \in Channels : RegisterDirectChannel(c) \/ ConfigStop(c) \/ UnregisterDirectChannel(c)
  \/ \E c \in Channels, level \in 1 .. 3 : ConfigDirectReport(c, level)

Spec == Init /\ [][Next]_vars

-----------------------------------------------------------------------------
(* Properties                                                               *)

\* Between two samples posted by an enabled sensor lies at least the sampling
\* period in force at the first: "1 means no reduction" (the comment of
\* POLL_TIME_REDUCTION_FACTOR).
NotReduced ==
  [][lastPost # NoTime /\ lastPost' \notin {NoTime, lastPost} => lastPost' >= lastPost + postPeriod]_vars

\* An enabled sensor's first sample comes within the run thread's delay of its
\* activation; every other is less than that delay and the shortest wait, the
\* code's millisecond, later than one sampling period after the last, whatever
\* else the run thread is woken for.
PolledOnTime ==
  mIsEnabled =>
    IF lastPost = NoTime THEN now =< postPeriod + Late
    ELSE now < lastPost + postPeriod + MinWait + Late

\* A channel with a direct report gets a sample once in every period of its rate,
\* again less than the delay and the shortest wait too late, from the call that
\* configured it on, whichever channels come and go.
DirectOnTime ==
  \A c \in Channels : Served(c) => now < lastWrite[c] + rateNs[c] + MinWait + Late

\* A hypothesis about the times the model reaches, not a property: the floats
\* near a time at which a sample is due are 2 R + 1 apart at most, so that what
\* is rounded is off by R at most.
SchedulePeriods == MinDelay .. MaxDelay \cup {RateNs[level] : level \in 1 .. MaxRate}

FloatsWithin(R) ==
  \A t \in Uptime .. Uptime + Horizon, period \in SchedulePeriods :
    UlpOf(t) \in 1 .. 2 * R + 1 /\ UlpOf(FloatOf(t) + period) \in 1 .. 2 * R + 1

=============================================================================
