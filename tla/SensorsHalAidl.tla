--------------------------- MODULE SensorsHalAidl ---------------------------
(***************************************************************************)
(* The stand-alone AIDL HAL (src/sensors/aidl) with wake-up sensors, and   *)
(* the test environment that drives it (aidl/vts/SensorsAidlEnvironment):  *)
(* the sensors' run threads and the binder thread post wake-up events, a   *)
(* thread of the HAL reads from the wake lock FMQ how many the framework   *)
(* has handled, and the kernel's wake lock is held while some are not.     *)
(*                                                                         *)
(* Actors: one run thread for every sensor; the caller's thread together   *)
(* with the only binder thread, which runs its calls; the HAL's wake lock  *)
(* thread; the environment's polling thread; the framework, which          *)
(* acknowledges what was read whenever it likes, or never.  Every sensor   *)
(* here is a wake-up sensor: the events of others use the same queue and   *)
(* touch nothing else.  A queue is the number of events in it or, for the  *)
(* wake lock FMQ, the number of events its entries acknowledge: the order  *)
(* of events is the matter of HalProxyEvents.  A step is what a thread     *)
(* does between two points where another can observe it.                   *)
(*                                                                         *)
(* Bounds: MaxPosts calls of postEvents, MaxResets of resetHal().          *)
(***************************************************************************)
EXTENDS Integers, Sequences

CONSTANTS Sensors,      \* handles of the wake-up sensors
          Binder,       \* the thread of the framework's calls
          Nobody,       \* no sensor and no thread
          QueueSize,    \* capacity of the event FMQ
          InfoFrames,   \* events of one additional information report
          Timeout,      \* WAKE_LOCK_TIMEOUT_SECONDS, in ticks
          MaxPosts, MaxResets

ASSUME AidlAssumption ==
  /\ Binder \notin Sensors /\ Nobody \notin Sensors /\ Binder # Nobody
  /\ QueueSize \in Nat \ {0} /\ InfoFrames \in Nat \ {0}
  /\ Timeout \in Nat /\ MaxPosts \in Nat /\ MaxResets \in Nat

VARIABLES
  mIsEnabled,     \* the sensors the framework has activated
  mEventQueue,    \* number of events in the event FMQ
  eventFlag,      \* bit READ_AND_PROCESS of the event queue's flag
  writer,         \* who holds mWriteLock, in postEvents()
  stage,          \* of the writer: "wake" the reader, then "count" the events
  uncounted,      \* events the writer has queued and not yet counted
  mOutstandingWakeUpEvents, mHasWakeLock,
  age,            \* ticks since mAutoReleaseWakeLockTime was set
  mWakeLockQueue, \* number of events acknowledged in the wake lock FMQ
  mReadWakeLockQueueRun,
  waker,          \* the wake lock thread
  eventsHandled,  \* acknowledgement it has read
  reader,         \* the environment's polling thread
  mStopThread,    \* tells it to end
  unhandled,      \* events it has read that are not acknowledged
  call,           \* what the caller is doing
  arg,            \* the sensor whose mRunMutex the call holds
  todo,           \* sensors initialize() has yet to disable
  work,           \* sizes of the posts the call has yet to make
  forgotten,      \* history: outstanding events the automatic release dropped
  posts, resets

hal == <<mOutstandingWakeUpEvents, mHasWakeLock, age, forgotten>>
queues == <<mEventQueue, eventFlag, mWakeLockQueue>>
wakerVars == <<mReadWakeLockQueueRun, waker, eventsHandled>>
env == <<reader, mStopThread, unhandled>>
caller == <<call, arg, todo, work>>
writing == <<writer, stage, uncounted>>
bounds == <<posts, resets>>
vars == <<mIsEnabled, hal, queues, wakerVars, env, caller, writing, bounds>>

Init ==
  /\ mIsEnabled = {}
  /\ mEventQueue = 0 /\ eventFlag = FALSE /\ mWakeLockQueue = 0
  /\ writer = Nobody /\ stage = "wake" /\ uncounted = 0
  /\ mOutstandingWakeUpEvents = 0 /\ mHasWakeLock = FALSE /\ age = 0
  /\ mReadWakeLockQueueRun = FALSE /\ waker = "none" /\ eventsHandled = 0
  /\ reader = "none" /\ mStopThread = FALSE /\ unhandled = 0
  /\ call = "down" /\ arg = Nobody /\ todo = {} /\ work = <<>>
  /\ forgotten = 0 /\ posts = 0 /\ resets = 0

-----------------------------------------------------------------------------
(* updateWakeLock(), under mWakeLockLock                                    *)

\* Mutant: the difference is stored without the test for a negative value
Counted_Unclamped(written, handled) == mOutstandingWakeUpEvents + written - handled

\* Mutant: an acknowledgement restarts the count instead of lowering it
Counted_Restarts(written, handled) ==
  IF handled > 0 THEN written ELSE mOutstandingWakeUpEvents + written

Counted(written, handled) ==
  LET newVal == mOutstandingWakeUpEvents + written - handled
  IN  IF newVal < 0 THEN 0 ELSE newVal

\* Mutant: the release happens only with an acknowledgement
Expired_Never(written) == FALSE

\* mAutoReleaseWakeLockTime has passed, and no event was written just now
Expired(written) == mHasWakeLock /\ written = 0 /\ age > Timeout

UpdateWakeLock(written, handled) ==
  LET count == Counted(written, handled)
      kept == IF Expired(written) THEN 0 ELSE count
  IN  /\ mOutstandingWakeUpEvents' = kept
      /\ mHasWakeLock' = IF mHasWakeLock THEN kept # 0 ELSE count > 0
      /\ age' = IF written > 0 THEN 0 ELSE age
      /\ forgotten' = forgotten + (count - kept)

Tick ==
  /\ mHasWakeLock /\ age =< Timeout
  /\ age' = age + 1
  /\ UNCHANGED <<mIsEnabled, mOutstandingWakeUpEvents, mHasWakeLock, forgotten,
                 queues, wakerVars, env, caller, writing, bounds>>

-----------------------------------------------------------------------------
(* postEvents(): queue the events, wake the reader, count the events, all   *)
(* under mWriteLock.  A write that does not fit leaves everything as it is. *)

WriteLockFree == writer = Nobody

Post(thread, n) ==
  /\ WriteLockFree /\ posts < MaxPosts
  /\ posts' = posts + 1
  /\ IF mEventQueue + n =< QueueSize
     THEN /\ mEventQueue' = mEventQueue + n
          /\ writer' = thread /\ stage' = "wake" /\ uncounted' = n
     ELSE UNCHANGED <<mEventQueue, writing>>

\* Mutant: activate() does not take mRunMutex
RunMutexFree_Unlocked(s) == TRUE

\* mRunMutex of a sensor: its run thread keeps it while it posts, activate()
\* while it sends the additional information
RunMutexFree(s) == writer # s /\ arg # s

RunPosts(s) ==
  /\ s \in mIsEnabled /\ RunMutexFree(s)
  /\ Post(s, 1)
  /\ UNCHANGED <<mIsEnabled, hal, eventFlag, mWakeLockQueue, wakerVars, env, caller,
                 resets>>

WakeFlag ==
  /\ ~WriteLockFree /\ stage = "wake"
  /\ eventFlag' = TRUE
  /\ stage' = "count"
  /\ UNCHANGED <<mIsEnabled, hal, mEventQueue, mWakeLockQueue, wakerVars, env, caller,
                 writer, uncounted, bounds>>

CountWritten ==
  /\ ~WriteLockFree /\ stage = "count"
  /\ UpdateWakeLock(uncounted, 0)
  /\ writer' = Nobody /\ stage' = "wake" /\ uncounted' = 0
  /\ UNCHANGED <<mIsEnabled, queues, wakerVars, env, caller, bounds>>

-----------------------------------------------------------------------------
(* The wake lock thread: readWakeLockFMQ()                                  *)

WakerTests ==
  /\ waker = "test"
  /\ waker' = IF mReadWakeLockQueueRun THEN "read" ELSE "none"
  /\ UNCHANGED <<mIsEnabled, hal, queues, mReadWakeLockQueueRun, eventsHandled, env,
                 caller, writing, bounds>>

\* one acknowledgement, of as many events as the framework chose to put in it
WakerReads ==
  /\ waker = "read"
  /\ \E n \in 1 .. mWakeLockQueue :
       /\ eventsHandled' = n
       /\ mWakeLockQueue' = mWakeLockQueue - n
  /\ waker' = "update"
  /\ UNCHANGED <<mIsEnabled, hal, mEventQueue, eventFlag, mReadWakeLockQueueRun, env,
                 caller, writing, bounds>>

WakerTimesOut ==
  /\ waker = "read" /\ mWakeLockQueue = 0
  /\ waker' = "update"
  /\ UNCHANGED <<mIsEnabled, hal, queues, mReadWakeLockQueueRun, eventsHandled, env,
                 caller, writing, bounds>>

WakerUpdates ==
  /\ waker = "update"
  /\ UpdateWakeLock(0, eventsHandled)
  /\ eventsHandled' = 0 /\ waker' = "test"
  /\ UNCHANGED <<mIsEnabled, queues, mReadWakeLockQueueRun, env, caller, writing, bounds>>

-----------------------------------------------------------------------------
(* The environment's polling thread: pollingThread() and readEvents()       *)

ReaderStays == UNCHANGED <<mIsEnabled, hal, mWakeLockQueue, wakerVars, mStopThread, caller,
                           writing, bounds>>

ReaderTests ==
  /\ reader = "test"
  /\ reader' = IF mStopThread THEN "none" ELSE "look"
  /\ UNCHANGED <<mEventQueue, eventFlag, unhandled>> /\ ReaderStays

ReaderLooks ==
  /\ reader = "look"
  /\ reader' = IF mEventQueue = 0 THEN "wait" ELSE "read"
  /\ UNCHANGED <<mEventQueue, eventFlag, unhandled>> /\ ReaderStays

ReaderWakes ==
  /\ reader = "wait" /\ eventFlag
  /\ eventFlag' = FALSE
  /\ reader' = "read"
  /\ UNCHANGED <<mEventQueue, unhandled>> /\ ReaderStays

ReaderReads ==
  /\ reader = "read"
  /\ mEventQueue' = 0
  /\ unhandled' = unhandled + mEventQueue
  /\ reader' = "test"
  /\ UNCHANGED eventFlag /\ ReaderStays

\* The framework says it has handled some of the events it has read.
Acknowledge ==
  /\ reader # "none"
  /\ \E n \in 1 .. unhandled :
       /\ mWakeLockQueue' = mWakeLockQueue + n
       /\ unhandled' = unhandled - n
  /\ UNCHANGED <<mIsEnabled, hal, mEventQueue, eventFlag, wakerVars, reader, mStopThread,
                 caller, writing, bounds>>

-----------------------------------------------------------------------------
(* Calls: resetHal() with initialize(), activate(), flush(), TearDown()     *)

ResetHal ==
  /\ call = "down" /\ resets < MaxResets
  /\ resets' = resets + 1
  /\ call' = "disable" /\ todo' = Sensors
  /\ UNCHANGED <<mIsEnabled, hal, queues, wakerVars, env, arg, work, writing, posts>>

DisableNext(s) ==
  /\ call = "disable" /\ s \in todo /\ RunMutexFree(s)
  /\ mIsEnabled' = mIsEnabled \ {s}
  /\ todo' = todo \ {s}
  /\ UNCHANGED <<hal, queues, wakerVars, env, call, arg, work, writing, bounds>>

StopWaker ==
  /\ call = "disable" /\ todo = {}
  /\ call' = IF mReadWakeLockQueueRun THEN "join" ELSE "replace"
  /\ mReadWakeLockQueueRun' = FALSE
  /\ UNCHANGED <<mIsEnabled, hal, queues, waker, eventsHandled, env, arg, todo, work,
                 writing, bounds>>

JoinWaker ==
  /\ call = "join" /\ waker = "none"
  /\ call' = "replace"
  /\ UNCHANGED <<mIsEnabled, hal, queues, wakerVars, env, arg, todo, work, writing, bounds>>

\* The queues and the event flag are replaced and the wake lock thread started;
\* the count and the wake lock stay as they are.
ReplaceQueues ==
  /\ call = "replace"
  /\ mEventQueue' = 0 /\ eventFlag' = FALSE /\ mWakeLockQueue' = 0
  /\ mReadWakeLockQueueRun' = TRUE /\ waker' = "test"
  /\ unhandled' = 0
  /\ forgotten' = 0
  /\ call' = "start"
  /\ UNCHANGED <<mIsEnabled, mOutstandingWakeUpEvents, mHasWakeLock, age, eventsHandled,
                 reader, mStopThread, arg, todo, work, writing, bounds>>

StartPollingThread ==
  /\ call = "start"
  /\ mStopThread' = FALSE /\ reader' = "test"
  /\ call' = "up"
  /\ UNCHANGED <<mIsEnabled, hal, queues, wakerVars, unhandled, arg, todo, work, writing,
                 bounds>>

Activate(s) ==
  /\ call = "up" /\ s \notin mIsEnabled /\ RunMutexFree(s)
  /\ mIsEnabled' = mIsEnabled \cup {s}
  /\ call' = "post" /\ arg' = s /\ work' = <<InfoFrames>>
  /\ UNCHANGED <<hal, queues, wakerVars, env, todo, writing, bounds>>

Deactivate(s) ==
  /\ call = "up" /\ s \in mIsEnabled /\ RunMutexFree(s)
  /\ mIsEnabled' = mIsEnabled \ {s}
  /\ UNCHANGED <<hal, queues, wakerVars, env, caller, writing, bounds>>

Flush(s) ==
  /\ call = "up" /\ s \in mIsEnabled
  /\ call' = "post" /\ work' = <<1, InfoFrames>>
  /\ UNCHANGED <<mIsEnabled, hal, queues, wakerVars, env, arg, todo, writing, bounds>>

BinderPosts ==
  /\ call = "post" /\ work # <<>>
  /\ Post(Binder, Head(work))
  /\ work' = Tail(work)
  /\ UNCHANGED <<mIsEnabled, hal, eventFlag, mWakeLockQueue, wakerVars, env, call, arg,
                 todo, resets>>

BinderReturns ==
  /\ call = "post" /\ writer # Binder
  /\ work = <<>> \/ posts = MaxPosts   \* the bound, not the code
  /\ call' = "up" /\ arg' = Nobody /\ work' = <<>>
  /\ UNCHANGED <<mIsEnabled, hal, queues, wakerVars, env, todo, writing, bounds>>

TearDown ==
  /\ call = "up"
  /\ mStopThread' = TRUE
  /\ call' = "wake"
  /\ UNCHANGED <<mIsEnabled, hal, queues, wakerVars, reader, unhandled, arg, todo, work,
                 writing, bounds>>

\* Mutant: TearDown() joins the polling thread without waking it
WakeReader_NotWoken ==
  /\ call = "wake"
  /\ call' = "joinReader"
  /\ UNCHANGED <<mIsEnabled, hal, queues, wakerVars, env, arg, todo, work, writing, bounds>>

\* wakes the polling thread, so that it can exit
WakeReader ==
  /\ call = "wake"
  /\ eventFlag' = TRUE
  /\ call' = "joinReader"
  /\ UNCHANGED <<mIsEnabled, hal, mEventQueue, mWakeLockQueue, wakerVars, env, arg, todo,
                 work, writing, bounds>>

JoinReader ==
  /\ call = "joinReader" /\ reader = "none"
  /\ call' = "down"
  /\ UNCHANGED <<mIsEnabled, hal, queues, wakerVars, env, arg, todo, work, writing, bounds>>

-----------------------------------------------------------------------------
HalSteps == Tick \/ WakeFlag \/ CountWritten
WakerSteps == WakerTests \/ WakerReads \/ WakerTimesOut \/ WakerUpdates
ReaderSteps == ReaderTests \/ ReaderLooks \/ ReaderWakes \/ ReaderReads
Initialize ==
  \/ \E s \in Sensors : DisableNext(s)
  \/ StopWaker \/ JoinWaker \/ ReplaceQueues \/ StartPollingThread
Continue == Initialize \/ BinderPosts \/ BinderReturns \/ WakeReader \/ JoinReader
Calls == ResetHal \/ TearDown \/ \E s \in Sensors : Activate(s) \/ Deactivate(s) \/ Flush(s)

Next ==
  \/ HalSteps \/ WakerSteps \/ ReaderSteps \/ Continue \/ Calls \/ Acknowledge
  \/ \E s \in Sensors : RunPosts(s)

Spec == Init /\ [][Next]_vars

\* Time passes, threads that can run do, and a call that is under way goes on.
\* Nobody has to call, to sample or to acknowledge.
Fairness ==
  /\ WF_vars(Tick) /\ WF_vars(WakeFlag) /\ WF_vars(CountWritten)
  /\ WF_vars(WakerSteps) /\ WF_vars(ReaderSteps) /\ WF_vars(Continue)

FairSpec == Spec /\ Fairness

-----------------------------------------------------------------------------
(* Properties                                                               *)

Threads == Sensors \cup {Binder, Nobody}

\* Types of every variable: mOutstandingWakeUpEvents, a uint32_t computed in an
\* int32_t, never wraps below 0, and the event FMQ never holds more than it can.
TypeOK ==
  /\ mIsEnabled \subseteq Sensors
  /\ mEventQueue \in 0 .. QueueSize /\ eventFlag \in BOOLEAN
  /\ mWakeLockQueue \in Nat
  /\ writer \in Threads /\ stage \in {"wake", "count"} /\ uncounted \in Nat
  /\ mOutstandingWakeUpEvents \in Nat /\ mHasWakeLock \in BOOLEAN /\ age \in Nat
  /\ mReadWakeLockQueueRun \in BOOLEAN /\ eventsHandled \in Nat
  /\ waker \in {"none", "test", "read", "update"}
  /\ reader \in {"none", "test", "look", "wait", "read"}
  /\ mStopThread \in BOOLEAN /\ unhandled \in Nat
  /\ call \in {"down", "disable", "join", "replace", "start", "up", "post", "wake",
               "joinReader"}
  /\ arg \in Sensors \cup {Nobody} /\ todo \subseteq Sensors /\ work \in Seq(Nat)
  /\ forgotten \in Nat /\ posts \in Nat /\ resets \in Nat

\* The wake lock is held exactly while an event is counted as outstanding
\* (updateWakeLock() acquires and releases it).
HeldIffOutstanding == mHasWakeLock <=> mOutstandingWakeUpEvents > 0

\* Wake-up events on their way: in the event FMQ, read and not acknowledged,
\* acknowledged in the wake lock FMQ, or in the hands of the wake lock thread.
InFlight == mEventQueue + unhandled + mWakeLockQueue + eventsHandled

\* A wake-up event that is on its way is counted, about to be counted by the
\* thread that wrote it, or was dropped by an automatic release since
\* initialize(): no acknowledgement, however early or late, and no restart
\* makes the HAL forget another one and let the device fall asleep on it.
Covered == mOutstandingWakeUpEvents + uncounted + forgotten >= InFlight

\* initialize() replaces the queues and the event flag while no thread posts, the
\* wake lock thread has ended and nobody polls the old queue.
ReplacedUnused == call = "replace" => WriteLockFree /\ waker = "none" /\ reader = "none"

\* Once no more wake-up events are written, a framework that does not acknowledge
\* does not keep the device awake: the wake lock is released (the automatic
\* release).  Every event written sets mAutoReleaseWakeLockTime anew
\* (updateWakeLock()): a sensor that posts faster than the timeout may keep it.
WakeLockReleased ==
  <>[][~(mEventQueue' > mEventQueue)]_vars => (mHasWakeLock ~> ~mHasWakeLock)

\* resetHal(), activate(), flush() and TearDown() return: neither the join of the
\* wake lock thread nor that of the polling thread waits for ever.
CallsReturn == call \notin {"down", "up"} ~> call \in {"down", "up"}

=============================================================================
