# Verification of the Bosch MEMS Android sensors HAL

TLA+ models of the HAL in `src/sensors`, TLC runs that check them on small
instances, and TLAPS proofs of their main invariants for every size.

## 1. The system

The HAL reads Bosch inertial sensors (SMI230, SMI240, SMI330) through sysfs and
serves the Android sensor framework. It is built in several forms: a
stand-alone HIDL service (2.0, 2.1), a stand-alone AIDL service, and a sub-HAL
loaded by Google's multi-HAL proxy (HIDL and AIDL). All five services run a
binder thread pool of one thread, so the framework's calls are served one at a
time; everything concurrent happens between that thread and the HAL's own.

| Component | State | Operations | Hard behaviour | What makes it correct |
|---|---|---|---|---|
| Proxy, event path (`multihal/2.X/HalProxy`) | event FMQ, pending queue and its size, `mThreadsRun` | posts, pending-writes thread, `initialize` | unlocked blocking write, partial writes, timeouts, `initialize` without the mutex | order per poster, counter exact, nobody uses what is replaced, threads stop |
| Proxy, wake lock | `mWakelockRefCount`, ScopedWakelocks, timeout times, wake lock FMQ | increments, decrements, wake lock thread, reset | late acknowledgements, given-up writes, resets while threads are stopped | held iff counted, count exact, released once no more is posted |
| Proxy, configuration | sub-HAL list, sensor handles, operation mode, dynamic sensors | `setOperationMode`, connect/disconnect, routing, `initialize` | roll-back after a partial failure, mutex held across calls, map cleared without it | all sub-HALs in one mode, calls reach their owner, map and framework agree |
| Sensors HAL (`2.X/Sensors.h`, `multihal/common/SensorsSubHal`, `aidl/SensorsHalAidl`) | channels with their sensors and rates, event queue, wake lock counter | activate, batch, direct channels, `initialize`, wake lock thread | two mutexes in opposite orders, registry and sensors updated apart, acknowledgements that overtake the count | both views agree, calls return, queue replaced alone, no event forgotten, lock released once no more is written |
| Sensor (`2.X/Sensor`, and its copies) | enabled flags, periods, next times, its channels | run thread, batch, activate, direct report, destructor | waits against notifications, polling against direct report, one wait for two schedules | no missed wake-up, samples on time, chip powered and fast enough, destructor returns |
| Sensor cores, composites (`core`) | enable state and period by type, attitude filter | activate, batch by type, gravity | one core used by several sensors, one call through two cores, sign and order conventions | the minimum of the periods in use, a filter that converges to gravity |
| SMI330 (`sensors/SMI330`) | power of two halves, one rate | power, rate | two cores on one half without a count, halves sharing the rate, whole hertz | powered iff used, nobody slowed down |
| Direct channel buffer (`core/DirectChannel`) | lock-free ring in shared memory | write | readers without a lock | no torn sample is accepted, none skipped |
| Events (`readEvents`, `multihal/aidl/ConvertUtils`, `hwctl`) | none | read, convert, additional information | unions, tags and word counts by type | both HALs deliver the same values |
| Services | none | registration | - | - |
| VTS (`2.X/vts`, `aidl/vts`) | the environment's queues and polling thread, the callback's events and flush counts, the shared memory | the tests of both suites, `SetUp`, `TearDown` | a test killed in the middle, events on their way during a pause or a second `initialize`, joins | no test depends on the one before it, on timing or on the order of threads |

Interactions: framework -> proxy -> sub-HAL -> sensor -> core -> chip for calls;
run thread -> callback -> proxy -> FMQ -> framework for events; the framework
acknowledges wake-up events through a second FMQ; direct samples bypass the
queue through shared memory. `PROJECT.json` lists the hazards line by line.

## 2. Modules

| Module | Models |
|---|---|
| `HalProxyEvents` | the event path of the proxy: posters, pending-writes thread, FMQ, `initializeCommon`/`stopThreads` |
| `EventStream` | what that path promises: a lossy stream that keeps each poster's order |
| `HalProxyWakelock` | extends `HalProxyEvents` with the shared wake lock: every action of the event path is taken together with what it does to the count |
| `ProxyConfig` | the proxy as a router: the sub-HALs it loads, handles, operation mode, dynamic sensors, `initialize` |
| `SensorsHal` | `Sensors.h` and `Sensor.cpp`: run threads, binder calls, direct channels, chip requests |
| `SensorsHalAidl` | the AIDL HAL's posts, wake lock and `initialize`, driven by its VTS environment |
| `SampleTiming` | when the sub-HAL's run thread reads a sensor, for polling and direct report, in units of time |
| `DirectBuffer` | the lock-free ring in shared memory, its writers and the VTS's reader |
| `ImuArbitration` | cores, composite sensors and the SMI330 they share |
| `Fusion` | the gravity filter and the vector, matrix and quaternion templates under it |
| `SensorEvents` | readings, events and their conversions, additional information, the list of sensors |
| `DataSheets` | the sensors' data: types, flags, rates, the list a HAL returns |
| `TestSteps` | the steps the tests of the VTS are made of |
| `AidlTests`, `HidlTests` | the two suites, a test as the sequence of its steps |
| `VtsTests` | a test program running them against a HAL, with run threads and polling threads |
| `MC...` | instances for TLC; `MCHalProxy` runs the event path by itself or with the wake lock; `MCDirectReport` combines `DirectBuffer` and `SampleTiming`, `MCImuArbitration` `ImuArbitration` and `Fusion`, `MCSensorsHalAidl` `SensorsHalAidl` and `SensorEvents` |
| `...Proofs` | the theorems about the module of that name |

`X_Something` next to an operator `X` is a variant with one plausible slip; it
is not part of the specification and serves to show that a property depends on
the code being right.

### State and actions against the code

* **`HalProxyEvents`.** `writer` is the program counter of
  `handlePendingWrites()`: `ready` (mutex held, at the loop test), `sleep`
  (predicate false, still holding the mutex), `waiting` (in the condition
  variable), `writing` and `written` (outside and back from the blocking
  write), `done`. Every critical section of `mEventQueueWriteMutex` is one
  action. `binder` is the program counter of `initializeCommon()`. An event is
  its poster and a sequence number. `posting[p]` holds a batch between the test
  of `areThreadsRunning()` and the proxy's critical section. A sensor's run
  thread posts holding its `mRunMutex`, which is why `activate` waits for it.
* **`HalProxyWakelock`.** `wakelocker` is the program counter of
  `handleWakelocks()`. `scoped[p]` is the poster's ScopedWakelock, `stale` when
  it was created before the last `mWakelockTimeoutResetTime`; stale decrements
  do nothing, as in `decrementRefCountAndMaybeReleaseWakelock`. `unacked` and
  `mWakeLockQueue` are the framework's side. `history` only records whether an
  event was dropped or the count reset, so that `CountExact` can be stated.
* **`ProxyConfig`.** `mSubHalList`, `mSensors` and the sub-HAL with direct
  channels are operators over the constant `Libraries`, as the constructor sets
  them up once. `binder` is the call in progress with the sub-HAL it visits next
  or the sensors it has yet to disable; `forwarded` is what the last call passed
  on. `notifier[i]` is the handle a thread of sub-HAL `i` has entered in or
  removed from `mDynamicSensors` and not yet reported; `attached`, `active` and
  `subHalMode` are the sub-HALs' state, `known` is the framework's. A sub-HAL may
  refuse a mode it does not have, or any mode but NORMAL for a while.
  `overlapped` records that `initialize` cleared the map under a notification.
* **`SensorsHal`.** `run[s]` is the run thread: `waiting` (untimed wait),
  `timed` (timed wait), `direct` and `post` (with `mRunMutex`, on the way into
  the HAL's callbacks), `awake`, `ended`. `binder` is the call in progress with
  the (sensor, channel) pairs it has yet to visit; `mChannelMutex` is held while
  that call is one of the direct channel calls. Times are `now`, `later` or
  `never`: whether `mNext...Ns` has been reached. `reporting[c]` are the sensors
  whose `rateNs` is not 0 in channel `c`, `enabledChannels[s]` the enabled
  entries on the sensor's side. `chipActive` and `chipPeriod` are what the
  sensor last told its `ISensorHal`.
* **`SensorsHalAidl`.** `writer` holds `mWriteLock` in `postEvents()`, `stage`
  tells whether it is about to wake the reader or to count its events. `waker` is
  `readWakeLockFMQ()`, `reader` the environment's `pollingThread()`, `call` the
  framework's call: `disable`, `join`, `replace` of `initialize`, `start` of the
  polling thread, `post` of `activate` and `flush`, `wake` and `joinReader` of
  `TearDown`. Queues are numbers of events. `forgotten` counts what the automatic
  release dropped.
* **`SampleTiming`.** Variables have the code's names and hold numbers; `now` is
  `elapsedRealtimeNano()`, `wakeAt` the end of the run thread's wait. `lastPost`,
  `postPeriod` and `lastWrite` are histories. `FloatOf` rounds to 24 bits, as the
  conversion of an `int64_t` and the sum with a float do. `MinWait` is the millisecond
  the run thread waits at least, if need be past a sample that falls due.
* **`DirectBuffer`.** A slot has the parts `write()` fills one after the other:
  `before` and `behind` the counter, then the counter `reserved0`; each holds the
  number of the sample it is of. `reader` is `parseEvents()` with what it has read
  so far and whether a writer was at its slot meanwhile.
* **`ImuArbitration`.** `call` is the call in progress with the cores still to
  visit. A core that is switched on or off takes three steps: `EnableCore`
  (`activateByType` and `setPowerMode` as far as the rate it writes), `SwitchPower`
  (the power switch, before 200 ms of sleep) and `SetRate` (`updateSamplingRate`, which
  writes the rate again). `imuIsEnabled` and `imuSamplingPeriodNs` are the flag and the
  period of a half, which all its cores write. `odr` is the rate last written to sysfs,
  in whole hertz as it is written (`Hz`). `contended` has the halves on which a core
  has acted while another was enabled, until one is switched off or on alone.
* **`VtsTests`** composes the suites with the HAL at its interface. `script` is
  what the test has yet to do. A step that calls the HAL
  changes what the call changes (`mIsEnabled`, `mDirectChannels`, `mEventQueue`)
  and waits for the run threads' mutexes, `reading[s] # 0`; `initialize` is three
  steps, as it disables sensors, drops channels and replaces the queue one after
  the other. `Expect` records an assertion that fails. `queue`, `polling` and
  `mStopThread` are the environments (`Envs`: the suite's own and the `newEnv` of
  `CallInitializeTwice`), `callback` the `EventCallback`. `Killed` ends the test
  program between any two steps; the HAL keeps what it has.
* **`Fusion`**, **`SensorEvents`** and **`DataSheets`** have no variables; their
  operators are the functions of the code. The properties of the first two
  quantify over bounded inputs and are evaluated in the runs `imu` and `aidl`, at
  the states in which the code computes gravity or posts a sample; `DataSheets` is
  what the tests of `VtsTests` check.

### Abstractions

* `DrainEventQueue` empties the FMQ in one step (the framework may read less in
  the meantime; what it had read is delivered).
* Creating a ScopedWakelock is folded into the test that follows it; time
  advances in ticks of `kWakelockTimeoutNs` and never while a timeout is due.
* A run thread's `mNext...Ns` becomes due at any moment in `SensorsHal`; the
  millisecond floor of its wait only matters for fairness there. `SampleTiming`
  has the times, and takes `mChannelMutex` for free.
* All Bosch sensors are continuous and offer `RateLevel::NORMAL` only, so a
  channel's rate is 20 ms or none and `writeToDirectBuffer` writes each sample.
  `SampleTiming` has the code's counting for slower channels all the same. In
  `SensorsHal` an entry that is disabled and one that is erased are not
  distinguished.
* `SensorsHalAidl` has wake-up sensors only: the events of others use the same
  queue and touch nothing else. A blocking read of the wake lock FMQ times out
  only when there is nothing to read. The calls are those of `SetUp`, `resetHal` and
  `TearDown`: `ReplacedUnused` speaks of an environment that stops its reader before
  it initializes again, not of `CallInitializeTwice`, which initializes with a second
  environment while the first one's reader polls the queue it has (`VtsTests`).
* Memory accesses in `DirectBuffer` are taken in program order, as the fences of
  `write()` and the reader's atomic load are there to obtain.
* A file in `SensorEvents` holds what `isValidInteger` and `std::stoi` make of its
  text: no number, an integer, or a number `stoi` throws on. A reading is the integer
  times the resolution, exactly, where the code multiplies floats; the three words of a
  composite's reading stand for what `Fusion` computes.
* `Fusion` computes exactly: a unit quaternion is an integer vector divided by its
  length, an angle one of a Pythagorean triple, and results are integers scaled by
  the square of the length, so that the laws are equations and no tolerance is
  needed. Rounding, noise and gain are left out.
* In `VtsTests` a call is atomic (its insides are `SensorsHal` and
  `SensorsHalAidl`); readings are due when they are made; time is the number of
  sleeps, and a wait of a test ends without what it waits for only when nothing of
  the kind is on its way. Events of additional information are left out, although
  `collectEvents` counts them among the events it collects; so are the limits of
  the averages collected, which are about the physical sensor. A report token is told
  apart only from an error, and injection ends at its early return, as no sensor
  supports it.
* Calls that return an error before changing anything are left out (not in
  `VtsTests`, whose tests ask for errors).
* The Sensors HAL's copies differ from `2.X` in one line of control: the
  destructor (`DestructorKeepsMutex`).

## 3. Runs

| Run | Bounds | Shows |
|---|---|---|
| `proxy` | FMQ of 1, pending limit 3, batches of up to 2, 2 events each; two instances: 2 sensors and the binder thread without the wake lock, 1 wake-up sensor and the binder thread with it | order, safe clearing, exact counter, refinement of `EventStream`; wake lock held iff counted; count exact |
| `stop` (violated) | 1 sensor | the lost notification of `stopThreads()` |
| `proxy_live` | 1 wake-up sensor and the binder thread, same queues, 1 event each | pending events leave, wake lock released once no more wake-up events are posted |
| `proxy_config` | 5 libraries of which 3 load, one with a dynamic sensor, two with direct channels, all with the same local handles; 2 modes | calls reach their owner, roll-back, silence at the reset, dynamic sensors, calls return |
| `sensors` | 1 sensor, 3 channels, requests below and between the delays | both views agree, queue replaced alone, chip power and rate; calls return, direct reports go on |
| `destructor` (violated) | 1 sensor | the destructor that keeps the mutex |
| `aidl` | 1 wake-up sensor and the binder thread, FMQ of 2, 3 posts, 2 resets | events covered by the count, queues replaced unused, lock released once nothing more is written, calls return; events keep their values (every type, every set of drivers, every orientation) |
| `direct_report` | ring of 3 with 2 writers and 7 samples; 1 sensor with 2 channels, delays 2 to 5, rate 4, shortest wait 2, 9 units of time | whole samples in order; both schedules on time but for the run thread's delay and shortest wait, and none ahead |
| `rate` (violated) | 1 channel, units of 2^20 ns, from 2^29 of them (6.5 days) of uptime | a float's rounding of the next sample's time |
| `vts` | either suite; accelerometer and gravity of the SMI330; 3 tests in a row, in any order, any of them killed; 1 sample of a sensor in a queue; 2 events to collect for 20, 2 flushes for 5 | assertions hold, tests start clean, tests end |
| `imu` | the SMI330's part of the list of sensors: two sensors on each half, gravity on both; 5, 20, 120 ms and 1.28 s of the chip's 2.5 ms to 1.28 s | unused halves off, uncontended ones on and as fast as asked, not sped up by the unused; the filter's conventions agree |
| `imu_list` (violated) | the same | a calibrated sensor powered down by the uncalibrated one |

Why the bounds are enough: an FMQ of one event with batches of two produces every
case of the pending path - direct write, partial write, full queue, a batch longer
than the FMQ, and (with a limit of 3) an overflow of the pending queue. Two events
per poster are needed for two of them to be out of order, and two posters for
batches of different posters to mix. With one sensor in `SensorsHal`, three
channels make entries go while others stay, and a call visits several pairs with
the run thread in between; what several sensors add (loops over sensors that
interleave with their run threads) is covered by the proofs of the same invariants
for any number of them. `WriteTicks` is 2 instead of the code's 5: only that a
write outlives the wake lock's timeout matters. In `ImuArbitration` the
requested periods lie on the chip's rates (5 ms, 20 ms, 1.28 s) and between them (120 ms,
rounded to 80), and are written as whole hertz (200, 50), as truncated ones (12 for
12.5) and as 0 (for 0.78). Three
sub-HALs are the fewest in which one refuses a mode after two have taken it, and
in which the second direct-channel sub-HAL is not the last that loads. In
`SensorsHalAidl` an activation posts one event of additional information and a
flush two (`InfoFrames` is 1), which fills the queue with and without a sample
before them, and the second connection begins with the count of the first. Seven
samples go around a ring of three twice. In `SampleTiming` 9 units cover an
activation, two periods and a change of the schedule, and the shortest wait of two
units makes the run thread sleep past a sample by one. `rate` takes units of 2^20 ns
(1.05 ms) where the code has nanoseconds, as TLC's integers have 32 bits: scaled by a
power of two, the rounding to 24 bits stays the same. 2^29 units are 6.5 days, after
which a float's steps are 64 units (67 ms; 34 ms in the three days before), larger than
the period of 10 units (10.5 ms). In the trace an activated sensor is sampled, and again
one unit later.

`VtsTests` runs three tests in a row: one that leaves something behind, one that
meets it, and one after that; the accelerometer is a sensor with a core of its own
and gravity one made of two cores; more of them would take the same steps. What a
test does does not depend on how many events it collects beyond the first or on
the number of flushes beyond one that completes before another.

`MCDirectReport` explores two modules that share no state in one run: its variable
`half` chooses one and leaves the other as it is.

Deadlock checking is off for `SensorsHal` (after the destructors nothing is left to
run), `SensorsHalAidl` (after the last reset), `VtsTests` (after the last test),
`SampleTiming` and `MCDirectReport` (after `Horizon`): there the bound or the program
ends. The proxy never stops:
spurious wake-ups and `initialize` remain possible.

### Violated properties

Each is a statement of the repository's comments or documentation that the code does
not keep;
`PROJECT.json` quotes them under "findings".

* `ThreadsStop`: the thread's test of its predicate and its wait are not
  protected from the store and the notification in `stopThreads()`.
* `DestructorReturns`: `lock.release()` where `lock.unlock()` is meant.
* `NotReduced` in `rate`: `POLL_TIME_REDUCTION_FACTOR` is a float, and so is the
  uptime it is added to. The same property holds in `direct_report`, where times
  are small.
* `PoweredWhileUsed`: `src/README.md` has all sensors supported simultaneously, but the
  calibrated and the uncalibrated sensor of a half of the SMI330 write one power flag
  and one switch. Disabling one powers the other down. `PowerFollowsUse` in `imu` is
  what does hold of the same list.

### Observations without a run

Met while modelling; nothing in the repository states the contrary, or the property
above is stated around them.

* Proxy wake lock: `resetSharedWakelock()` in `initialize` comes after
  `mThreadsRun` is cleared, so that the decrement it makes does nothing; a partial
  batch that is given up takes back the wake-ups of the whole post; an
  acknowledgement that arrives after the timeout is subtracted from later posts.
* Stand-alone wake lock: an acknowledgement that overtakes the count of its events
  leaves them counted until the automatic release; `initialize` keeps the count.
  `Covered` is about the other direction, events that would be forgotten.
* Dynamic sensors: a connection being reported while `initialize` clears the map is
  announced and not in the map (`overlapped`).
* The two cores of a half of the SMI330 also share its period: the last to set it
  decides, so that a sensor can be slowed down by the other variant of itself.
  `ServedStayFast` and `NotSpedUpByUnused` are stated around it (`contended`).
* A period of 1.28 s, also that of a sensor that never called `batch()`, is written
  to the SMI330 as 0 Hz; every rate is cut to whole hertz.
* The wake locks' timeouts are put off by every wake-up event posted
  (`incrementRefCountAndMaybeAcquireWakelock`, `updateWakeLock`): a sensor that posts
  faster than the timeout to a framework that never acknowledges holds the lock for
  as long as it does.
* `isValidInteger` accepts numbers that are not integers: `std::stoi` truncates "1.9"
  and "1e3" to 1, and throws, unhandled, on ".5" and on more than an `int` holds. IIO
  drivers write integers.
* `scaleCovariance()` is `A*P*transpose(A)` for a diagonal `P` only.
* A composite sensor's `mLastTimestamp` survives its deactivation, so that the
  first step afterwards spans the pause.

### Fairness

* Proxy: the pending-writes thread, the wake lock thread and `initialize` run
  when they can and time passes (weak fairness: the scheduler and the clock); the wake
  lock's timeout fires when it stays due (weak), which it does not while posts renew
  it. The mutex and the write a thread keeps asking for are had in the end (strong).
  The framework owes nothing: it may never read or acknowledge. `WakelockReleased` has
  the end of the posts as a hypothesis of its own, and a bound of one event each only
  keeps the run finite.
* `ProxyConfig`: the binder thread runs (weak); the framework takes a callback only
  when it is not itself waiting for a call to return, so that a proxy which held
  `mDynamicSensorsMutex` during a callback would wait for ever.
* Sensors: run threads run (weak); time passes whatever they do (strong, for a
  sample that falls due); the binder thread gets an `mRunMutex` it keeps asking
  for (strong), because a run thread gives it up for at least a millisecond in
  every round.
* `VtsTests`: run threads and polling threads run (weak); the test program gets on
  (strong where a call needs an `mRunMutex`, for the reason above). Nobody has to be
  killed or to start another test.
* `SensorsHalAidl`: time passes, threads that can run do, a call under way goes on
  (weak). Nobody has to call, sample or acknowledge. `WakeLockReleased` supposes that
  events are written no more at some time, since each write puts the release off.

## 4. Proofs

`HalProxyProofs` has the theorems of `HalProxyEvents` and of `HalProxyWakelock`. Of
the event path it proves, for any number of sensors, FMQ size, batch size and pending
limit, from `EventsAssumption` only:

* `EventsInvariant` - the inductive invariant `EventsInv`: types; `Lifecycle`
  (who may be where while `initialize` is under way); `WriterHoldsFront` (the
  thread's front batch and `numToWrite` stay valid during the unlocked write);
  `FmqOrder`, `PendingOrder`, `PostingOrder` (an event is behind those ahead of
  it in the FMQ, the pending batches and its poster's hands). Order in the FMQ
  alone is not inductive: a batch may be written later, so its order relative to
  the FMQ, to other batches and to batches still being posted is needed. Between
  the write and the erase the front batch still holds events already written;
  `Unwritten` names those that are not.
* `TypeCorrect`, `OrderedDelivery`, `SafeClear`, `NoBatchMissed` follow.
* `PendingSizeIsExact` - `mSizePendingWriteEventsQueue` is the number of events
  in the batches. `PendingSizeExact` is inductive with `EventsInv`, but it is a
  sum over a queue. The model states that sum as the cardinality of a set of
  (batch, position) pairs, so that no recursion is needed, and the section
  "Counting" has what happens to such a set when a batch is appended
  (`CountAppend`), shortened at its front (`CountFirst`, `CountReplace`) and
  dropped (`CountTail`, which shifts every pair by one batch: `PairsShift`).
* `ImplementsStream` - every step produces, loses or delivers events of
  `EventStream`, with `inTransit` mapped to what is in the FMQ, unwritten in the
  pending batches and in the posters' hands.

Of the wake lock `HalProxyProofs` proves, from `EventsAssumption` and
`TicksAssumption`, that `EventsInv` still holds (`EventPath`: each step of the
composition is a step of the event path or leaves it alone), and
`LockInvariant`, `LockTypeCorrect` (the count never wraps), `HeldWhileCounted`,
`NoWakelockMissed`. The strengthening
needed is `ScopedForWakeups`: only posts of wake-up events carry a locked
ScopedWakelock, so that an increment that acquires is never by 0.

`CountIsExact` says that, while nothing has been dropped or reset, the reference
count is the number of `Outstanding` wake-up events (in the event FMQ, pending, not
acknowledged, or acknowledged and not yet processed) plus that of locked
ScopedWakelocks. It is not inductive alone; `CountGuards` adds that threads are
stopped only by a reset, that only a read not yet processed is in the wake lock
thread's hands, that wake-up events are posted under a ScopedWakelock, and that
nobody has one when `initialize` clears the queues.
Each step moves wake-up events from one place to another, and the lemmas say that
the places lose and gain the same number: a write takes a prefix of a batch
to the FMQ (`WriteKeepsWakeups`), the erase after it takes that prefix from
the batch (`EraseKeepsWakeups`), an acknowledgement moves a number from one queue to
the next (`AckAppended`, `AckTaken`), and a ScopedWakelock that ends gives up the one
it stands for.

`ProxyConfigProofs` proves, for any list of libraries that satisfies
`ConfigAssumption` (fewer than 128 of them, any sensors and modes), `ConfigInvariant`
and from it `ConfigTypeCorrect`, `CallsReachTheirOwner`, `ModesAgreeBetweenCalls`,
`SilentWhenInitialized` and `DynamicSensorsKnown`. `SubHalAssumption` says that
`SelectSeq` picks elements of its sequence: its definition is recursive, so that no
prover can derive it, and TLC evaluates the assumption for the run's list. The
arithmetic of handles (an index put into one comes out of it, and the local handle
is what was left) is proved, with the two directions of a roll-back (which sub-HALs
are in which mode at which point of the call) and what `initialize` has already
disabled while dynamic sensors come and go.

`SensorsHalProofs` proves, for any number of sensors and direct channels and any
periods that satisfy `SensorsAssumption`, `HalInvariant` and from it
`HalTypeCorrect`, `ViewsAgree`, `ResetIsAlone`, `ChipShared`, `ChipKeepsUp` and
`WaitsOnlyWhenIdle`. `SameView` speaks only of the moments between calls and is
far from inductive; `HalInv` has two halves.

* `SensorInv` is about each sensor alone: a run thread is in a callback only while
  it is wanted, the chip is on and fast enough, and the summary
  `mDirectChannelEnabled` is never smaller than the entries. Each critical section
  of `mRunMutex` keeps it (`UpdateKeeps`, `ActivateKeeps`, `BatchKeeps`).
* `CallInv` is about the call in progress: `Views` says that the registry and the
  sensors' lists differ in exactly the pairs the call has yet to visit, in the
  direction the call is going; `CallFollows` that the summary is too large only
  between `addDirectChannel(c, 0)` and `stopDirectChannel`, and that `initialize`
  has disabled the sensors it has visited; `Registry` that a call's pairs are of
  registered channels. An unregistered channel with a rate left in it would make
  a channel registered later start out reporting, so `Registry` excludes it.

`ReplacedAlone` follows since, when the reset has visited every pair, the lists are
empty, hence the summaries false, hence no run thread is on its way to either
callback.

`SensorsHalAidlProofs` proves, from `AidlAssumption`, `AidlInvariant` and from it
`AidlTypeCorrect`, `LockFollowsCount`, `EventsAreCovered` and
`QueuesReplacedUnused`. `Covered` alone is not inductive: that the queues are empty
of a previous connection when the new one begins needs the phases of the call (no
reader, no wake lock thread, no writer with `mWriteLock` once every sensor is
disabled), and that a writer at the stage `count` has events to count.

It also proves `SamplesKept`, for every sensor `AddSensors` can put in the list, every
set of drivers and every orientation. `ConversionsInvert` says that an event of any
type, handle, timestamp and contents comes back from `convertToAidlEvent` and
`convertToHidlEvent` as it was: the words copied for a type are those of the member
chosen for it, which the two conversions and the union must agree on. `HalsAgree` and
`Placements` do the same for the two `readEvents` and for the sixteen numbers of
`sendAdditionalInfoReport`. `SensorListAssumption` says that the list has the six
types of data sheet only: `SelectSeq` is recursive, so that TLC evaluates it, for
all sets of drivers.

`DirectReportProofs` has the theorems of `DirectBuffer` and of `SampleTiming`. It
proves, for any ring size and any sensors, `BufferInvariant` and
`NoTornSample`. The invariant relates each slot's three parts to the writer's
position: parts and counter agree everywhere except at the slot being written, and
a reader in the middle of a slot that nobody has been at holds parts of one sample.
`OrderInvariant`, and from it `OverwrittenOnlyByALap` and `SamplesInOrder`, rest on
the sample a slot must hold, as a function `Holds` of position and counter: a writer
leaves it alone or raises it by a lap, so that what a reader took from the slot is
that sample or a lap behind it, and the slot after holds the next one or is a lap
behind too, in which case its counter is too small to be read. `QuietReadersSeeAll`
adds that a reader nobody disturbs has exactly what the slots hold, ascending
(`QuietInv`): it stops where the samples stop ascending, which is at the writer's
position, since position and counter go round together (`Laps`).

`ImuArbitrationProofs` proves `PowerInvariant`, `PoweredAsUsed`, `RateInvariant`,
`ServedSensorsStayFast` and `SpedUpByUse` for any sensors, composites, periods and any
number of cores on a half, from `ImuAssumption` and, where rates matter,
`RatesAssumption` (the chip's fastest rate is its slowest one doubled some number of
times, as 2.5 ms and 1.28 s are). What the cores of a half do to each other is in the
state, as `contended`, and not excluded by a hypothesis; `OneCoreIsNotContended` is the
corollary that with one core per half nothing ever is contended, so that then all
three properties hold without the exception.

The power invariant says of the call in progress which of the sensor's cores have
already been told (`Pending`), that a half which is on has a core that is on, so that
nothing is left on for nobody, and that the switch follows the half's flag but for the
step in between (`PowerDue`); without contention a core that is on has its half on
(`Uncontended`). `RateInv` adds that the rate written is that of the flags and periods
(`OdrFollows`). Between the cores of a composite a `batch()` is half done, so it says
which cores have the new period already (`SamePeriods`) and which sensors their half
is fast enough for (`ServedIsIncluded`). A faster period is never a slower rate, by the
choice among the chip's (`RoundedIsMonotonic`) and in whole hertz (`HzIsAntitone`).
That the fastest of a set of periods is one of them is the well-foundedness of `<`.

Of `SampleTiming`, `DirectReportProofs` proves, for any channels, periods, levels, delay `Late` and
shortest wait `MinWait` of the run thread, that samples are as punctual as floats allow. The hypothesis
`FloatsWithin(R)` says how far apart floats are at the times the model reaches: a
conversion is then off by `R` at most (`Nearest`), and the time of the next sample,
rounded twice, by `2 R` (`NextTimeWithin`). `TimingInvariant` holds for every `R`, and
from it `PolledNearlyOnTime` (no sample is later than its period, `Late`, `MinWait` and `2 R`)
and `ReducedByRounding` (none is earlier by more than `2 R`). With `R = 0` these are
`SamplesOnTime` and `PeriodsNotReduced`, that is `PolledOnTime` and `NotReduced`; TLC
evaluates the hypothesis with `R = 0` for the constants of `direct_report`
(`FloatsAreExact`). At the times of `rate` it is true of `R = 32` units (33.5 ms) and of no
smaller one: no sample there is early by more than 67 ms. The invariant relates the end of the
wait, `wakeAt`, to the last sample (`PollingDue`) and holds the run thread to it
(`Awake`); a notification may only bring `wakeAt` forward (`Notified`), which is why
neither `batch` nor a channel that comes or goes delays a sample.
`ReportsInvariant`, `ReportedNearlyOnTime` and `ReportsOnTime` are the same for direct
reports, with the hypothesis `OneLevel`: `AddSensors()` gives every sensor the level
NORMAL, so that all its channels have one rate. With more levels `DirectOnTime` would
not hold: `updateDirectChannel` leaves the next sample where the old rate has put it
when a faster rate is asked for. `Reports` has what the calls that change the sensor's
entries have in common (`EntriesChanged`): a channel that is served has an enabled
entry, so that the sensor is not idle.

`VtsTestsProofs` proves `CleanInvariant` and from it `TestsStartClean`, that is
`StartsClean`, for any suites whose scripts satisfy `ScriptsReset`: `begin` is
preceded, in each, by the steps of `initialize()` and `SetUp()` that disable every
sensor, drop the channels and replace the queue. TLC evaluates it for the scripts of
both suites (`SuitesReset`). `StartsClean` itself speaks of one point of a script and
is far from inductive: the invariant says of every script position before `begin`
(`Ready`) that for whatever a killed client has left behind, an active sensor, a channel, an
event in the queue, the step that takes it back is still ahead, and that nothing
later in the script brings it about again; a run thread in the middle of a reading is
there for an active sensor or an enabled channel (`ReportsAreWanted`), so that with
those gone it is, too. The proof found two arms of a `CASE` of `VtsTests` that were
true together, of which TLA+ may choose either; they exclude each other now.

`FusionProofs` proves `GravityIsConsistent`, that is `FusionIsConsistent`, and more than
TLC evaluates: the five parts of `ConventionsAgree` hold beyond the run's inputs.

* `CorrectionsFollowTheError`: for any integer quaternion, reference and correction.
  `PredictionsTurnAlike`: for any quaternion, any axis of whole length and any cosine
  and sine. `ErrorsScale`: for any matrix and any diagonal covariance. Sums and products
  of matrices are first unrolled into their elements (`Apply3`, `Apply4`); what is left
  are identities of polynomials.
* `StartsAtAnyAcceleration`: for any acceleration such that its length and that of its
  orthogonal are whole. `initRodrParams` gives a rotation (`FrameRotates`), so that the
  products of the four numbers `matrixToQuat` takes roots of are squares of sums and
  differences of elements (`Squares`), with the signs `quatToMatrix` needs
  (`SignsFit`). For a half turn these signs are those of float zeros: there the choice
  of `getOrthogonal` makes the two products 0 that gravity depends on (`NoSignIsLost`).
* `InverseOfAnyMatrix`: for every matrix of integers whose determinant is not 0. At
  every step of `invert()` a row is one of integers over a common denominator, `tmp` is
  `inverse` times the source, and the determinant of `tmp` is not 0, so that `SwapWith`
  finds a pivot that is not 0. At the end `inverse` is the adjugate over the determinant.

The type invariants of `HalProxyEvents`, `ProxyConfig`, `SensorsHal` and
`DirectBuffer` are proved and belong to no run.

Only model-checked: `AssertionsHold` of `VtsTests` (what each test asserts depends on
every step before it; an invariant would have to give the expected state at each
position of some hundred scripts, which is what TLC computes), that floats are exact or within `R` for given constants (powers of
2 are recursive), and all liveness properties, which are out of the prover's reach as
is anything with `ENABLED`.

## 5. Not modelled

The rounding, gain and noise of the attitude filter and the `Phi10` block of its
prediction; the VTS's tests of streaming, batching and direct report rates, which
call helpers outside the repository, its event injection and the CTS
configuration; `HalProxy::configDirectReport` with the handle -1 and the
forwarding of channel registrations, `debug()`; operation mode and injection of
the stand-alone HALs, which no Bosch sensor supports; the temperature branch of
`readEvents`, which no sensor in the list takes; the search of sysfs directories
and writes to them, the mapping of shared memory, the parsing of configuration
files, the loading of libraries by name, the services' registration.

## 6. Plan

1. The composition of `SampleTiming` with `ImuArbitration`: samples read faster than
   the chip renews them.
2. `SensorsHal` with an AIDL variant of `initialize` (queue first, channels after).
3. The rate an active core keeps when a second sensor is activated on it
   (`SensorCore::activateByType`), once a document says what rate is expected.
