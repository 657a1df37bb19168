-------------------------- MODULE HalProxyWakelock --------------------------
(***************************************************************************)
(* The shared wake lock of the multi-HAL proxy, on top of its event path:  *)
(* a reference count of the ScopedWakelocks and of the wake-up events that *)
(* the framework has yet to handle, kept by the posters, the pending-      *)
(* writes thread and the wake lock thread, which also gives the lock up    *)
(* when nobody has renewed it for kWakelockTimeoutNs.                      *)
(*                                                                         *)
(* Time passes in ticks of kWakelockTimeoutNs, and never while a timeout   *)
(* is due.  Of mCreatedAtTimeNs and mWakelockTimeoutResetTime only their   *)
(* order is kept: a lock created before the last reset is "stale".         *)
(***************************************************************************)
EXTENDS HalProxyEvents

CONSTANT WriteTicks   (* kPendingWriteTimeoutNs in ticks: 5 in the code     *)

ASSUME TicksAssumption == WriteTicks \in Nat \ {0}

VARIABLES
  mWakelockRefCount,
  wakelockHeld,            (* acquire_wake_lock / release_wake_lock         *)
  wakelocker,              (* where handleWakelocks() is                    *)
  numWakeLocksProcessed,   (* its local variable                            *)
  mWakeLockQueue,          (* the wake lock FMQ                             *)
  scoped,                  (* the ScopedWakelock of each poster             *)
  unacked,                 (* wake-up events read but not acknowledged      *)
  lockAge,                 (* ticks since mWakelockTimeoutStartTime, 1 at most *)
  writeAge,                (* ticks since the blocking write began          *)
  history                  (* what has happened since the count was exact   *)

countVars == <<mWakelockRefCount, wakelockHeld>>
threadVars == <<wakelocker, numWakeLocksProcessed>>
frameworkVars == <<mWakeLockQueue, unacked>>
timeVars == <<lockAge, writeAge>>
lockVars == <<countVars, threadVars, frameworkVars, timeVars, scoped, history>>
allVars == <<vars, lockVars>>

(* mWakelockMutex: as for the other mutex, only the wait takes two steps.  *)
WakelockMutexFree == wakelocker # "sleep"

NotifyWakelocker_Forgotten(w) == w

(* mWakelockCV.notify_one() when the wake lock is acquired.                *)
NotifyWakelocker(w) == NotifyWriter(w)

IncrementRefCount_ByOne(delta) ==
  IF ~mThreadsRun THEN UNCHANGED <<countVars, wakelocker, lockAge>>
  ELSE /\ WakelockMutexFree
       /\ lockAge' = 0
       /\ mWakelockRefCount' = mWakelockRefCount + 1
       /\ wakelockHeld' = (wakelockHeld \/ mWakelockRefCount = 0)
       /\ wakelocker' = IF mWakelockRefCount = 0 THEN NotifyWakelocker(wakelocker)
                                                 ELSE wakelocker

IncrementRefCount(delta) ==
  IF ~mThreadsRun THEN UNCHANGED <<countVars, wakelocker, lockAge>>
  ELSE /\ WakelockMutexFree
       /\ lockAge' = 0
       /\ mWakelockRefCount' = mWakelockRefCount + delta
       /\ wakelockHeld' = (wakelockHeld \/ mWakelockRefCount = 0)
       /\ wakelocker' = IF mWakelockRefCount = 0 THEN NotifyWakelocker(wakelocker)
                                                 ELSE wakelocker

CountAfter_Unclamped(delta, isStale) ==
  IF isStale THEN mWakelockRefCount ELSE mWakelockRefCount - delta

(* A stale decrement (timeoutStart < mWakelockTimeoutResetTime) does nothing. *)
CountAfter(delta, isStale) ==
  IF isStale THEN mWakelockRefCount
             ELSE mWakelockRefCount - SmallerOf(mWakelockRefCount, delta)

HeldAfter_StaleToo(delta, isStale) == wakelockHeld /\ mWakelockRefCount > delta

(* release_wake_lock when an effective decrement reaches 0.                *)
HeldAfter(delta, isStale) ==
  wakelockHeld /\ (isStale \/ mWakelockRefCount = 0 \/ CountAfter(delta, isStale) > 0)

DecrementRefCount(delta, isStale) ==
  IF ~mThreadsRun THEN UNCHANGED countVars
  ELSE /\ WakelockMutexFree
       /\ mWakelockRefCount' = CountAfter(delta, isStale)
       /\ wakelockHeld' = HeldAfter(delta, isStale)

(* mWakelockTimeoutResetTime = getTimeNow()                                *)
Aged(locks) == [p \in Posters |-> IF locks[p] = "locked" THEN "stale" ELSE locks[p]]

-----------------------------------------------------------------------------
(* Posting.                                                                *)

(* SensorsSubHal::postEvents: createScopedWakelock(wakeup), then the post. *)
CreateScopedWakelock(p) ==
  /\ scoped[p] = "none"
  /\ IF p \in WakeupSources
     THEN /\ IncrementRefCount(1)
          /\ scoped' = [scoped EXCEPT ![p] = IF mThreadsRun THEN "locked" ELSE "none"]
     ELSE UNCHANGED <<countVars, wakelocker, lockAge, scoped>>
  /\ UNCHANGED <<numWakeLocksProcessed, frameworkVars, writeAge, history>>

LockedSensorPosts(s) == SensorPosts(s) /\ CreateScopedWakelock(s)

LockedBinderPosts == BinderPosts /\ CreateScopedWakelock(Binder)

(* The events a post loses because the pending queue is full.              *)
Overflows(p) ==
  LET numLeft == Len(posting[p]) - NumWrittenNow(posting[p])
  IN numLeft > 0 /\ ~FitsPending(numLeft)

(* The whole post is counted, whatever becomes of its events.              *)
CountedPost(p) ==
  /\ PostEventsToMessageQueue(p)
  /\ IF scoped[p] # "none" THEN IncrementRefCount(NumWakeupEvents(posting[p]))
                           ELSE UNCHANGED <<countVars, wakelocker, lockAge>>
  /\ history' = IF Overflows(p) THEN history \union {"dropped"} ELSE history
  /\ UNCHANGED <<numWakeLocksProcessed, frameworkVars, writeAge, scoped>>

(* ~ScopedWakelock, when the post has returned.                            *)
ReleaseScopedWakelock(p) ==
  /\ scoped[p] # "none"
  /\ posting[p] = <<>>
  /\ DecrementRefCount(1, scoped[p] = "stale")
  /\ scoped' = [scoped EXCEPT ![p] = "none"]
  /\ UNCHANGED <<vars, threadVars, frameworkVars, timeVars, history>>

-----------------------------------------------------------------------------
(* The pending-writes thread: a write that timed out gives its wake-ups up. *)

DroppedWakeups ==
  IF Len(FrontBatch.first) > QueueSize
  THEN NumWakeupEvents(SubSeq(FrontBatch.first, 1, QueueSize))
  ELSE FrontBatch.second

WriterGivesUp ==
  /\ WriterTimesOut
  /\ writeAge = WriteTicks
  /\ writeAge' = 0
  /\ IF FrontBatch.second > 0 THEN DecrementRefCount(DroppedWakeups, FALSE)
                              ELSE UNCHANGED countVars
  /\ history' = history \union {"dropped"}
  /\ UNCHANGED <<threadVars, frameworkVars, lockAge, scoped>>

WriterRuns ==
  /\ WriterLoop \/ WriterSleeps \/ WriterWrites \/ WriterErases
  /\ writeAge' = 0
  /\ UNCHANGED <<countVars, threadVars, frameworkVars, lockAge, scoped, history>>

-----------------------------------------------------------------------------
(* handleWakelocks: the wake lock thread.                                  *)

(* The thread ends; its last resetSharedWakelock() finds mThreadsRun false. *)
WakelockThreadEnds ==
  /\ wakelocker = "ready"
  /\ ~mThreadsRun
  /\ scoped' = Aged(scoped)
  /\ wakelocker' = "done"
  /\ UNCHANGED <<vars, countVars, numWakeLocksProcessed, frameworkVars, timeVars, history>>

WakelockTestsCount ==
  /\ wakelocker = "ready"
  /\ mThreadsRun
  /\ \/ mWakelockRefCount = 0 /\ wakelocker' = "sleep"
     \/ mWakelockRefCount > 0 /\ lockAge = 0 /\ wakelocker' = "reading"
  /\ UNCHANGED <<vars, countVars, numWakeLocksProcessed, frameworkVars, timeVars, scoped, history>>

(* sharedWakelockDidTimeout: resetSharedWakelock().                        *)
WakelockTimesOut ==
  /\ wakelocker = "ready"
  /\ mThreadsRun
  /\ mWakelockRefCount > 0
  /\ lockAge = 1
  /\ DecrementRefCount(mWakelockRefCount, FALSE)
  /\ scoped' = Aged(scoped)
  /\ history' = history \union {"reset"}
  /\ UNCHANGED <<vars, threadVars, frameworkVars, timeVars>>

WakelockSleeps ==
  /\ wakelocker = "sleep"
  /\ wakelocker' = "waiting"
  /\ UNCHANGED <<vars, countVars, numWakeLocksProcessed, frameworkVars, timeVars, scoped, history>>

WakelockWakesSpuriously ==
  /\ wakelocker = "waiting"
  /\ wakelocker' = "ready"
  /\ UNCHANGED <<vars, countVars, numWakeLocksProcessed, frameworkVars, timeVars, scoped, history>>

(* readBlocking, without the mutex.                                        *)
WakelockReads ==
  /\ wakelocker = "reading"
  /\ mWakeLockQueue # <<>>
  /\ numWakeLocksProcessed' = Head(mWakeLockQueue)
  /\ mWakeLockQueue' = Tail(mWakeLockQueue)
  /\ wakelocker' = "read"
  /\ UNCHANGED <<vars, countVars, unacked, timeVars, scoped, history>>

WakelockReadTimesOut ==
  /\ wakelocker = "reading"
  /\ mWakeLockQueue = <<>>
  /\ wakelocker' = "ready"
  /\ UNCHANGED <<vars, countVars, numWakeLocksProcessed, frameworkVars, timeVars, scoped, history>>

WakelockProcesses ==
  /\ wakelocker = "read"
  /\ DecrementRefCount(numWakeLocksProcessed, FALSE)
  /\ numWakeLocksProcessed' = 0
  /\ wakelocker' = "ready"
  /\ UNCHANGED <<vars, frameworkVars, timeVars, scoped, history>>

WakelockThread ==
  WakelockThreadEnds \/ WakelockTestsCount \/ WakelockSleeps \/ WakelockReads
    \/ WakelockReadTimesOut \/ WakelockProcesses

-----------------------------------------------------------------------------
(* The framework.                                                          *)

FrameworkReadsWakeup ==
  /\ FrameworkReads
  /\ unacked' = unacked + NumWakeupEvents(<<Head(mEventQueue)>>)
  /\ UNCHANGED <<countVars, threadVars, mWakeLockQueue, timeVars, scoped, history>>

(* It reports through the wake lock FMQ how many events it has handled.    *)
FrameworkAcknowledges ==
  /\ \E n \in 1..unacked :
       /\ mWakeLockQueue' = Append(mWakeLockQueue, n)
       /\ unacked' = unacked - n
  /\ UNCHANGED <<vars, countVars, threadVars, timeVars, scoped, history>>

LockedActivate(s, on) == scoped[s] = "none" /\ scoped[Binder] = "none" /\ Activate(s, on) /\ UNCHANGED lockVars

(* From here on the count no longer moves: the threads do not run.         *)
StopBoth ==
  /\ scoped[Binder] = "none"
  /\ StopThreads
  /\ history' = history \union {"reset"}
  /\ UNCHANGED <<countVars, threadVars, frameworkVars, timeVars, scoped>>

(* Make room in the FMQ, and make a wake lock thread that reads return.    *)
DrainBoth ==
  /\ DrainEventQueue
  /\ mWakeLockQueue' = Append(mWakeLockQueue, 0)
  /\ UNCHANGED <<countVars, threadVars, unacked, timeVars, scoped, history>>

NotifyBoth ==
  /\ NotifyThreads
  /\ wakelocker' = NotifyWakelocker(wakelocker)
  /\ UNCHANGED <<countVars, numWakeLocksProcessed, frameworkVars, timeVars, scoped, history>>

(* Both joins return; then resetSharedWakelock(), with mThreadsRun false.  *)
JoinBoth ==
  /\ JoinPendingWritesThread
  /\ wakelocker \in {"none", "done"}
  /\ wakelocker' = "none"
  /\ scoped' = Aged(scoped)
  /\ UNCHANGED <<countVars, numWakeLocksProcessed, frameworkVars, timeVars, history>>

LockedDisable(s) == scoped[s] = "none" /\ DisableSensor(s) /\ UNCHANGED lockVars

(* New queues, new threads; a count of 0 is exact again.                   *)
RestartBoth ==
  /\ Restart
  /\ wakelocker' = "ready"
  /\ mWakeLockQueue' = <<>>
  /\ unacked' = 0
  /\ history' = IF mWakelockRefCount = 0 THEN {} ELSE history
  /\ UNCHANGED <<countVars, numWakeLocksProcessed, timeVars, scoped>>

Reinitialize ==
  \/ StopBoth \/ DrainBoth \/ NotifyBoth \/ JoinBoth
  \/ (\E s \in Sensors : LockedDisable(s))
  \/ (AllSensorsDisabled /\ UNCHANGED lockVars)
  \/ RestartBoth

-----------------------------------------------------------------------------
(* Time waits for the threads whose timeouts are due.                      *)
LockDue == mThreadsRun /\ mWakelockRefCount > 0 /\ lockAge = 1
WriteDue == writer = "writing" /\ writeAge = WriteTicks

Tick ==
  /\ ~LockDue
  /\ ~WriteDue
  /\ mWakelockRefCount > 0 \/ writer = "writing"
  /\ lockAge' = 1
  /\ writeAge' = IF writer = "writing" THEN writeAge + 1 ELSE 0
  /\ UNCHANGED <<vars, countVars, threadVars, frameworkVars, scoped, history>>

-----------------------------------------------------------------------------
LockInit ==
  /\ Init
  /\ mWakelockRefCount = 0
  /\ wakelockHeld = FALSE
  /\ wakelocker = "none"
  /\ numWakeLocksProcessed = 0
  /\ mWakeLockQueue = <<>>
  /\ scoped = [p \in Posters |-> "none"]
  /\ unacked = 0
  /\ lockAge = 0
  /\ writeAge = 0
  /\ history = {}

LockNext ==
  \/ \E s \in Sensors : LockedSensorPosts(s)
  \/ LockedBinderPosts
  \/ \E p \in Posters : CountedPost(p) \/ ReleaseScopedWakelock(p)
  \/ WriterGivesUp
  \/ WriterRuns
  \/ SpuriousWakeup /\ UNCHANGED lockVars
  \/ WakelockThread
  \/ WakelockTimesOut
  \/ WakelockWakesSpuriously
  \/ FrameworkReadsWakeup
  \/ FrameworkAcknowledges
  \/ \E s \in Sensors, on \in BOOLEAN : LockedActivate(s, on)
  \/ Reinitialize
  \/ Tick

LockSpec == LockInit /\ [][LockNext]_allVars

(* As for the event path; a thread that competes for a mutex gets it, and  *)
(* time passes.  No timeout has to fall due that posts keep renewing.      *)
LockFairness ==
  /\ SF_allVars(WriterRuns \/ WriterGivesUp)
  /\ WF_allVars(WakelockThread)
  /\ WF_allVars(WakelockTimesOut)
  /\ WF_allVars(Tick)
  /\ WF_allVars(Reinitialize /\ binder # "idle" /\ binder # "uninitialized")
  /\ \A p \in Posters : SF_allVars(CountedPost(p)) /\ SF_allVars(ReleaseScopedWakelock(p))

FairLockSpec == LockSpec /\ LockFairness

-----------------------------------------------------------------------------
LockTypeOK ==
  /\ mWakelockRefCount \in Nat
  /\ wakelockHeld \in BOOLEAN
  /\ wakelocker \in {"none", "ready", "sleep", "waiting", "reading", "read", "done"}
  /\ numWakeLocksProcessed \in Nat
  /\ mWakeLockQueue \in Seq(Nat)
  /\ scoped \in [Posters -> {"none", "locked", "stale"}]
  /\ unacked \in Nat
  /\ lockAge \in 0..1
  /\ writeAge \in 0..WriteTicks
  /\ history \subseteq {"dropped", "reset"}

(* The kernel's wake lock is held exactly while something is counted: no   *)
(* order of posts, acknowledgements, timeouts and restarts leaves it held  *)
(* with nobody to release it, or released while it is still counted.       *)
HeldIffCounted == wakelockHeld <=> mWakelockRefCount > 0

(* A wake lock thread that waits has nothing to time out: the notification *)
(* of an acquisition is never missed.                                      *)
NoMissedWakelock == wakelocker \in {"sleep", "waiting"} => mWakelockRefCount = 0

(* Only posts of wake-up events carry a locked ScopedWakelock (asserted in *)
(* HalProxyCallbackBase::postEvents), so a counted post counts something.  *)
ScopedForWakeups == \A p \in Posters : scoped[p] # "none" => p \in WakeupSources

LockInv ==
  /\ LockTypeOK
  /\ HeldIffCounted
  /\ NoMissedWakelock
  /\ ScopedForWakeups

(* Wake-up events on their way to the framework, and acknowledgements on   *)
(* their way back.                                                         *)
PendingWakeups ==
  UNION {{b} \X {i \in DOMAIN Unwritten(b) : Unwritten(b)[i].source \in WakeupSources} :
           b \in DOMAIN mPendingWriteEventsQueue}

Acknowledged == UNION {{i} \X (1..mWakeLockQueue[i]) : i \in DOMAIN mWakeLockQueue}

Outstanding ==
  NumWakeupEvents(mEventQueue) + Cardinality(PendingWakeups)
    + unacked + Cardinality(Acknowledged) + numWakeLocksProcessed

Scopes == {p \in Posters : scoped[p] = "locked"}

LockedScopes == Cardinality(Scopes)

(* "The refcount of how many ScopedWakelocks and pending wakeup events are *)
(* active" (HalProxy.h): exactly that, as long as no event was dropped and *)
(* no timeout or restart has reset the count.                              *)
CountExact == history = {} => mWakelockRefCount = LockedScopes + Outstanding

(* What keeps it exact: while it is, the threads run; only a read not yet  *)
(* processed is in the thread's hands; wake-up events are posted under a   *)
(* ScopedWakelock; and when the queues are cleared nobody counts.          *)
CountGuards ==
  /\ IsFiniteSet(Scopes)
  /\ ~mThreadsRun => "reset" \in history
  /\ wakelocker # "read" => numWakeLocksProcessed = 0
  /\ \A p \in WakeupSources : posting[p] # <<>> => scoped[p] # "none"
  /\ binder \in {"disable", "restart"} => wakelocker = "none" /\ Scopes = {}

CountInv == CountExact /\ CountGuards

(* A wake-up sensor enters or leaves postEvents, which renews the timeout. *)
RenewsTimeout == \E p \in WakeupSources : posting'[p] # posting[p]

(* Once no more wake-up events are posted, the wake lock is not held for   *)
(* ever: acknowledged, dropped or timed out, it is released, or the        *)
(* threads are stopped.  Every post renews mWakelockTimeoutStartTime       *)
(* (incrementRefCountAndMaybeAcquireWakelock): a sensor that posts faster  *)
(* than the timeout, to a framework that does not acknowledge, may keep    *)
(* the device awake.                                                       *)
WakelockReleased ==
  <>[][~RenewsTimeout]_allVars => (wakelockHeld ~> ~wakelockHeld \/ ~mThreadsRun)
=============================================================================
