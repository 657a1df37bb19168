------------------------ MODULE SensorsHalAidlProofs ------------------------
(***************************************************************************)
(* The stand-alone AIDL HAL, for any sensors, queue size, timeout and      *)
(* bounds.  The invariant AidlInv adds to the properties what each stage   *)
(* of a call has already achieved (Stopped), and what the threads hold     *)
(* when they are idle (Idle).  The last part is about the samples          *)
(* themselves (SensorEvents): conversions, readings and placements.        *)
(***************************************************************************)
EXTENDS MCSensorsHalAidl, TLAPS, FiniteSetTheorems, SequenceTheorems

(* Between postEvents() calls nothing is uncounted, and the wake lock      *)
(* thread has an acknowledgement in hand only on its way to updateWakeLock.*)
Idle ==
  /\ writer = Nobody => uncounted = 0
  /\ waker # "update" => eventsHandled = 0
  /\ ~mReadWakeLockQueueRun /\ call # "join" => waker = "none"

(* Before initialize() is done nobody polls the queue; a sensor it has     *)
(* disabled neither is enabled nor posts; the binder thread posts only in  *)
(* activate() and flush().                                                 *)
Stopped ==
  /\ call \in {"down", "disable", "join", "replace", "start"} => reader = "none"
  /\ writer = Binder => call = "post"
  /\ call = "disable" => \A s \in Sensors \ todo : s \notin mIsEnabled /\ writer # s
  /\ call \in {"join", "replace", "start"} => mIsEnabled = {} /\ writer \notin Sensors
  /\ call \in {"join", "replace"} => ~mReadWakeLockQueueRun

AidlInv == TypeOK /\ HeldIffOutstanding /\ Covered /\ Idle /\ Stopped

(* updateWakeLock(): the count follows, never below zero; what the         *)
(* automatic release drops is remembered in forgotten.                     *)
LEMMA UpdateCounts ==
  ASSUME TypeOK, HeldIffOutstanding, NEW written \in Nat, NEW handled \in Nat,
         UpdateWakeLock(written, handled)
  PROVE  /\ mOutstandingWakeUpEvents' \in Nat /\ mHasWakeLock' \in BOOLEAN /\ age' \in Nat
         /\ forgotten' \in Nat
         /\ HeldIffOutstanding'
         /\ \E count, kept \in Nat :
              /\ count >= mOutstandingWakeUpEvents + written - handled
              /\ mOutstandingWakeUpEvents' = kept
              /\ forgotten' = forgotten + (count - kept)
<1> DEFINE count == Counted(written, handled)
           kept == IF Expired(written) THEN 0 ELSE count
<1>1. count \in Nat /\ count >= mOutstandingWakeUpEvents + written - handled
  BY DEF Counted, TypeOK
<1>2. /\ mOutstandingWakeUpEvents' = kept
      /\ age' = IF written > 0 THEN 0 ELSE age
      /\ forgotten' = forgotten + (count - kept)
  BY DEF UpdateWakeLock
<1>3. mHasWakeLock' = IF mHasWakeLock THEN kept # 0 ELSE count > 0
  BY DEF UpdateWakeLock
<1>4. kept \in Nat /\ kept =< count /\ (~mHasWakeLock => kept = count)
  BY <1>1 DEF Expired
<1> HIDE DEF count, kept
<1>5. mOutstandingWakeUpEvents' \in Nat /\ age' \in Nat /\ forgotten' \in Nat
  BY <1>1, <1>2, <1>4 DEF TypeOK
<1>6. mHasWakeLock' \in BOOLEAN /\ (mHasWakeLock' <=> kept > 0)
  <2>1. (kept # 0 <=> kept > 0) /\ (~mHasWakeLock => (count > 0 <=> kept > 0))
    BY <1>4
  <2>2. CASE mHasWakeLock
    <3>1. mHasWakeLock' = (kept # 0)
      BY <1>3, <2>2
    <3>2. mHasWakeLock' \in BOOLEAN /\ (mHasWakeLock' <=> kept # 0)
      BY <3>1, Zenon
    <3> QED BY <3>2, <2>1, Zenon
  <2>3. CASE ~mHasWakeLock
    <3>1. mHasWakeLock' = (kept # 0)
      BY <1>3, <1>4, <2>1, <2>3
    <3>2. mHasWakeLock' \in BOOLEAN /\ (mHasWakeLock' <=> kept # 0)
      BY <3>1, Zenon
    <3> QED BY <3>2, <2>1, <2>3, Zenon
  <2> QED BY <2>2, <2>3
<1>7. HeldIffOutstanding'
  BY <1>2, <1>6, Zenon DEF HeldIffOutstanding
<1> QED BY <1>1, <1>2, <1>4, <1>5, <1>6, <1>7

(* postEvents(): what is queued is uncounted, and what is not queued leaves *)
(* everything alone.                                                       *)
LEMMA PostQueues ==
  ASSUME AidlAssumption, AidlInv, NEW thread \in Sensors \cup {Binder}, NEW n \in Nat, Post(thread, n)
  PROVE  /\ posts' \in Nat /\ mEventQueue' \in 0 .. QueueSize /\ stage' \in {"wake", "count"}
         /\ writer' \in {thread, Nobody} /\ uncounted' \in Nat
         /\ writer' = Nobody => uncounted' = 0
         /\ writer = Nobody
         /\ \/ mEventQueue' = mEventQueue + n /\ uncounted' = n /\ uncounted = 0
            \/ UNCHANGED <<mEventQueue, uncounted>>
BY DEF AidlAssumption, AidlInv, TypeOK, Idle, Post, WriteLockFree, writing

LEMMA EmptyFits == ASSUME AidlAssumption PROVE 0 \in 0 .. QueueSize /\ 0 \in Nat
<1>1. QueueSize \in Nat
  BY DEF AidlAssumption
<1> QED BY <1>1

LEMMA InitHolds == AidlAssumption /\ Init => AidlInv
<1> SUFFICES ASSUME AidlAssumption, Init PROVE AidlInv
  OBVIOUS
<1> USE DEF Init
<1>1. TypeOK
  <2>1. /\ mEventQueue \in 0 .. QueueSize /\ eventFlag \in BOOLEAN /\ mHasWakeLock \in BOOLEAN
        /\ mReadWakeLockQueueRun \in BOOLEAN /\ mStopThread \in BOOLEAN
    BY EmptyFits, Zenon
  <2>2. /\ mWakeLockQueue \in Nat /\ uncounted \in Nat /\ mOutstandingWakeUpEvents \in Nat /\ age \in Nat
        /\ eventsHandled \in Nat /\ unhandled \in Nat /\ forgotten \in Nat /\ posts \in Nat /\ resets \in Nat
        /\ work \in Seq(Nat)
    OBVIOUS
  <2> QED BY <2>1, <2>2 DEF TypeOK, Threads
<1>2. HeldIffOutstanding /\ Covered /\ Idle
  BY DEF HeldIffOutstanding, Covered, InFlight, Idle
<1>3. Stopped
  BY DEF AidlAssumption, Stopped
<1> QED BY <1>1, <1>2, <1>3 DEF AidlInv

LEMMA TickKeeps == ASSUME AidlAssumption, AidlInv, Tick PROVE AidlInv'
<1> USE DEF Tick, hal, queues, wakerVars, env, caller, writing, bounds, ReaderStays, WriteLockFree, AidlInv
<1>3. TypeOK'
  BY DEF TypeOK, Threads, AidlAssumption
<1>4. HeldIffOutstanding'
  BY DEF HeldIffOutstanding
<1>5. Covered'
  BY DEF Covered, InFlight, Idle, Stopped, TypeOK
<1>6. Idle'
  BY DEF Idle, Stopped, TypeOK, AidlAssumption
<1>7. Stopped'
  BY DEF Stopped, Idle, RunMutexFree, TypeOK, Threads, AidlAssumption
<1> QED BY <1>3, <1>4, <1>5, <1>6, <1>7

LEMMA WakeFlagKeeps == ASSUME AidlAssumption, AidlInv, WakeFlag PROVE AidlInv'
<1> USE DEF WakeFlag, hal, queues, wakerVars, env, caller, writing, bounds, ReaderStays, WriteLockFree, AidlInv
<1>3. TypeOK'
  BY DEF TypeOK, Threads, AidlAssumption
<1>4. HeldIffOutstanding'
  BY DEF HeldIffOutstanding
<1>5. Covered'
  BY DEF Covered, InFlight, Idle, Stopped, TypeOK
<1>6. Idle'
  BY DEF Idle, Stopped, TypeOK, AidlAssumption
<1>7. Stopped'
  BY DEF Stopped, Idle, RunMutexFree, TypeOK, Threads, AidlAssumption
<1> QED BY <1>3, <1>4, <1>5, <1>6, <1>7

LEMMA CountWrittenKeeps == ASSUME AidlAssumption, AidlInv, CountWritten PROVE AidlInv'
<1> USE DEF CountWritten, hal, queues, wakerVars, env, caller, writing, bounds, ReaderStays, WriteLockFree, AidlInv
<1>1. UpdateWakeLock(uncounted, 0) /\ uncounted \in Nat /\ 0 \in Nat
  BY DEF TypeOK
<1>2. /\ mOutstandingWakeUpEvents' \in Nat /\ mHasWakeLock' \in BOOLEAN /\ age' \in Nat
      /\ forgotten' \in Nat
      /\ HeldIffOutstanding'
      /\ \E count, kept \in Nat :
           /\ count >= mOutstandingWakeUpEvents + uncounted - 0
           /\ mOutstandingWakeUpEvents' = kept
           /\ forgotten' = forgotten + (count - kept)
  BY <1>1, UpdateCounts
<1>3. TypeOK'
  BY <1>2 DEF TypeOK, Threads, AidlAssumption
<1>4. HeldIffOutstanding'
  BY <1>2
<1>5. Covered'
  <2>1. /\ uncounted' = 0
        /\ UNCHANGED <<mEventQueue, unhandled, mWakeLockQueue, eventsHandled>>
    OBVIOUS
  <2>2. /\ mEventQueue \in Nat /\ unhandled \in Nat /\ mWakeLockQueue \in Nat /\ eventsHandled \in Nat
        /\ uncounted \in Nat /\ mOutstandingWakeUpEvents \in Nat /\ forgotten \in Nat
        /\ QueueSize \in Nat
        /\ mOutstandingWakeUpEvents + uncounted + forgotten
             >= mEventQueue + unhandled + mWakeLockQueue + eventsHandled
    BY DEF AidlAssumption, TypeOK, Covered, InFlight
  <2>3. PICK count \in Nat, kept \in Nat :
          /\ count >= mOutstandingWakeUpEvents + uncounted - 0
          /\ mOutstandingWakeUpEvents' = kept
          /\ forgotten' = forgotten + (count - kept)
    BY <1>2
  <2> HIDE DEF AidlInv, CountWritten
  <2> QED BY <2>1, <2>2, <2>3 DEF Covered, InFlight
<1>6. Idle'
  BY <1>2 DEF Idle, Stopped, TypeOK, AidlAssumption
<1>7. Stopped'
  BY <1>2 DEF Stopped, Idle, RunMutexFree, TypeOK, Threads, AidlAssumption
<1> QED BY <1>3, <1>4, <1>5, <1>6, <1>7

LEMMA WakerTestsKeeps == ASSUME AidlAssumption, AidlInv, WakerTests PROVE AidlInv'
<1> USE DEF WakerTests, hal, queues, wakerVars, env, caller, writing, bounds, ReaderStays, WriteLockFree, AidlInv
<1>3. TypeOK'
  BY DEF TypeOK, Threads, AidlAssumption
<1>4. HeldIffOutstanding'
  BY DEF HeldIffOutstanding
<1>5. Covered'
  BY DEF Covered, InFlight, Idle, Stopped, TypeOK
<1>6. Idle'
  BY DEF Idle, Stopped, TypeOK, AidlAssumption
<1>7. Stopped'
  BY DEF Stopped, Idle, RunMutexFree, TypeOK, Threads, AidlAssumption
<1> QED BY <1>3, <1>4, <1>5, <1>6, <1>7

LEMMA WakerReadsKeeps == ASSUME AidlAssumption, AidlInv, WakerReads PROVE AidlInv'
<1> USE DEF WakerReads, hal, queues, wakerVars, env, caller, writing, bounds, ReaderStays, WriteLockFree, AidlInv
<1>3. TypeOK'
  BY DEF TypeOK, Threads, AidlAssumption
<1>4. HeldIffOutstanding'
  BY DEF HeldIffOutstanding
<1>5. Covered'
  BY DEF Covered, InFlight, Idle, Stopped, TypeOK
<1>6. Idle'
  BY DEF Idle, Stopped, TypeOK, AidlAssumption
<1>7. Stopped'
  BY DEF Stopped, Idle, RunMutexFree, TypeOK, Threads, AidlAssumption
<1> QED BY <1>3, <1>4, <1>5, <1>6, <1>7

LEMMA WakerTimesOutKeeps == ASSUME AidlAssumption, AidlInv, WakerTimesOut PROVE AidlInv'
<1> USE DEF WakerTimesOut, hal, queues, wakerVars, env, caller, writing, bounds, ReaderStays, WriteLockFree, AidlInv
<1>3. TypeOK'
  BY DEF TypeOK, Threads, AidlAssumption
<1>4. HeldIffOutstanding'
  BY DEF HeldIffOutstanding
<1>5. Covered'
  BY DEF Covered, InFlight, Idle, Stopped, TypeOK
<1>6. Idle'
  BY DEF Idle, Stopped, TypeOK, AidlAssumption
<1>7. Stopped'
  BY DEF Stopped, Idle, RunMutexFree, TypeOK, Threads, AidlAssumption
<1> QED BY <1>3, <1>4, <1>5, <1>6, <1>7

LEMMA WakerUpdatesKeeps == ASSUME AidlAssumption, AidlInv, WakerUpdates PROVE AidlInv'
<1> USE DEF WakerUpdates, hal, queues, wakerVars, env, caller, writing, bounds, ReaderStays, WriteLockFree, AidlInv
<1>1. UpdateWakeLock(0, eventsHandled) /\ 0 \in Nat /\ eventsHandled \in Nat
  BY DEF TypeOK
<1>2. /\ mOutstandingWakeUpEvents' \in Nat /\ mHasWakeLock' \in BOOLEAN /\ age' \in Nat
      /\ forgotten' \in Nat
      /\ HeldIffOutstanding'
      /\ \E count, kept \in Nat :
           /\ count >= mOutstandingWakeUpEvents + 0 - eventsHandled
           /\ mOutstandingWakeUpEvents' = kept
           /\ forgotten' = forgotten + (count - kept)
  BY <1>1, UpdateCounts
<1>3. TypeOK'
  BY <1>2 DEF TypeOK, Threads, AidlAssumption
<1>4. HeldIffOutstanding'
  BY <1>2
<1>5. Covered'
  <2>1. /\ eventsHandled' = 0
        /\ UNCHANGED <<mEventQueue, unhandled, mWakeLockQueue, uncounted>>
    OBVIOUS
  <2>2. /\ mEventQueue \in Nat /\ unhandled \in Nat /\ mWakeLockQueue \in Nat /\ eventsHandled \in Nat
        /\ uncounted \in Nat /\ mOutstandingWakeUpEvents \in Nat /\ forgotten \in Nat
        /\ QueueSize \in Nat
        /\ mOutstandingWakeUpEvents + uncounted + forgotten
             >= mEventQueue + unhandled + mWakeLockQueue + eventsHandled
    BY DEF AidlAssumption, TypeOK, Covered, InFlight
  <2>3. PICK count \in Nat, kept \in Nat :
          /\ count >= mOutstandingWakeUpEvents + 0 - eventsHandled
          /\ mOutstandingWakeUpEvents' = kept
          /\ forgotten' = forgotten + (count - kept)
    BY <1>2
  <2> HIDE DEF AidlInv, WakerUpdates
  <2> QED BY <2>1, <2>2, <2>3 DEF Covered, InFlight
<1>6. Idle'
  BY <1>2 DEF Idle, Stopped, TypeOK, AidlAssumption
<1>7. Stopped'
  BY <1>2 DEF Stopped, Idle, RunMutexFree, TypeOK, Threads, AidlAssumption
<1> QED BY <1>3, <1>4, <1>5, <1>6, <1>7

LEMMA ReaderTestsKeeps == ASSUME AidlAssumption, AidlInv, ReaderTests PROVE AidlInv'
<1> USE DEF ReaderTests, hal, queues, wakerVars, env, caller, writing, bounds, ReaderStays, WriteLockFree, AidlInv
<1>3. TypeOK'
  BY DEF TypeOK, Threads, AidlAssumption
<1>4. HeldIffOutstanding'
  BY DEF HeldIffOutstanding
<1>5. Covered'
  BY DEF Covered, InFlight, Idle, Stopped, TypeOK
<1>6. Idle'
  BY DEF Idle, Stopped, TypeOK, AidlAssumption
<1>7. Stopped'
  BY DEF Stopped, Idle, RunMutexFree, TypeOK, Threads, AidlAssumption
<1> QED BY <1>3, <1>4, <1>5, <1>6, <1>7

LEMMA ReaderLooksKeeps == ASSUME AidlAssumption, AidlInv, ReaderLooks PROVE AidlInv'
<1> USE DEF ReaderLooks, hal, queues, wakerVars, env, caller, writing, bounds, ReaderStays, WriteLockFree, AidlInv
<1>3. TypeOK'
  BY DEF TypeOK, Threads, AidlAssumption
<1>4. HeldIffOutstanding'
  BY DEF HeldIffOutstanding
<1>5. Covered'
  BY DEF Covered, InFlight, Idle, Stopped, TypeOK
<1>6. Idle'
  BY DEF Idle, Stopped, TypeOK, AidlAssumption
<1>7. Stopped'
  BY DEF Stopped, Idle, RunMutexFree, TypeOK, Threads, AidlAssumption
<1> QED BY <1>3, <1>4, <1>5, <1>6, <1>7

LEMMA ReaderWakesKeeps == ASSUME AidlAssumption, AidlInv, ReaderWakes PROVE AidlInv'
<1> USE DEF ReaderWakes, hal, queues, wakerVars, env, caller, writing, bounds, ReaderStays, WriteLockFree, AidlInv
<1>3. TypeOK'
  <2>1. eventFlag' \in BOOLEAN /\ reader' \in {"none", "test", "look", "wait", "read"}
    BY Zenon
  <2>2. /\ UNCHANGED <<mEventQueue, unhandled, mIsEnabled, mWakeLockQueue, mStopThread>>
        /\ UNCHANGED <<hal, wakerVars, caller, writing, bounds>>
    BY Zenon
  <2>3. TypeOK
    BY Zenon
  <2> HIDE DEF AidlInv, ReaderWakes
  <2> QED BY <2>1, <2>2, <2>3 DEF TypeOK, Threads
<1>4. HeldIffOutstanding'
  BY DEF HeldIffOutstanding
<1>5. Covered'
  BY DEF Covered, InFlight, Idle, Stopped, TypeOK
<1>6. Idle'
  BY DEF Idle, Stopped, TypeOK, AidlAssumption
<1>7. Stopped'
  BY DEF Stopped, Idle, RunMutexFree, TypeOK, Threads, AidlAssumption
<1> QED BY <1>3, <1>4, <1>5, <1>6, <1>7

LEMMA ReaderReadsKeeps == ASSUME AidlAssumption, AidlInv, ReaderReads PROVE AidlInv'
<1> USE DEF ReaderReads, hal, queues, wakerVars, env, caller, writing, bounds, ReaderStays, WriteLockFree, AidlInv
<1>3. TypeOK'
  BY DEF TypeOK, Threads, AidlAssumption
<1>4. HeldIffOutstanding'
  BY DEF HeldIffOutstanding
<1>5. Covered'
  BY DEF Covered, InFlight, Idle, Stopped, TypeOK
<1>6. Idle'
  BY DEF Idle, Stopped, TypeOK, AidlAssumption
<1>7. Stopped'
  BY DEF Stopped, Idle, RunMutexFree, TypeOK, Threads, AidlAssumption
<1> QED BY <1>3, <1>4, <1>5, <1>6, <1>7

LEMMA AcknowledgeKeeps == ASSUME AidlAssumption, AidlInv, Acknowledge PROVE AidlInv'
<1> USE DEF Acknowledge, hal, queues, wakerVars, env, caller, writing, bounds, ReaderStays, WriteLockFree, AidlInv
<1>3. TypeOK'
  BY DEF TypeOK, Threads, AidlAssumption
<1>4. HeldIffOutstanding'
  BY DEF HeldIffOutstanding
<1>5. Covered'
  BY DEF Covered, InFlight, Idle, Stopped, TypeOK
<1>6. Idle'
  BY DEF Idle, Stopped, TypeOK, AidlAssumption
<1>7. Stopped'
  BY DEF Stopped, Idle, RunMutexFree, TypeOK, Threads, AidlAssumption
<1> QED BY <1>3, <1>4, <1>5, <1>6, <1>7

LEMMA ResetHalKeeps == ASSUME AidlAssumption, AidlInv, ResetHal PROVE AidlInv'
<1> USE DEF ResetHal, hal, queues, wakerVars, env, caller, writing, bounds, ReaderStays, WriteLockFree, AidlInv
<1>3. TypeOK'
  BY DEF TypeOK, Threads, AidlAssumption
<1>4. HeldIffOutstanding'
  BY DEF HeldIffOutstanding
<1>5. Covered'
  BY DEF Covered, InFlight, Idle, Stopped, TypeOK
<1>6. Idle'
  BY DEF Idle, Stopped, TypeOK, AidlAssumption
<1>7. Stopped'
  BY DEF Stopped, Idle, RunMutexFree, TypeOK, Threads, AidlAssumption
<1> QED BY <1>3, <1>4, <1>5, <1>6, <1>7

LEMMA StopWakerKeeps == ASSUME AidlAssumption, AidlInv, StopWaker PROVE AidlInv'
<1> USE DEF StopWaker, hal, queues, wakerVars, env, caller, writing, bounds, ReaderStays, WriteLockFree, AidlInv
<1>3. TypeOK'
  <2>1. mReadWakeLockQueueRun' \in BOOLEAN
    BY Zenon
  <2>2. call' \in {"join", "replace"}
    BY Zenon
  <2>3. /\ UNCHANGED <<mIsEnabled, hal, queues, waker, eventsHandled, env, arg, todo, work>>
        /\ UNCHANGED <<writing, bounds>>
    BY Zenon
  <2>4. TypeOK
    BY Zenon
  <2> HIDE DEF AidlInv, StopWaker
  <2> QED BY <2>1, <2>2, <2>3, <2>4 DEF TypeOK, Threads
<1>4. HeldIffOutstanding'
  BY DEF HeldIffOutstanding
<1>5. Covered'
  BY DEF Covered, InFlight, Idle, Stopped, TypeOK
<1>6. Idle'
  BY DEF Idle, Stopped, TypeOK, AidlAssumption
<1>7. Stopped'
  BY DEF Stopped, Idle, RunMutexFree, TypeOK, Threads, AidlAssumption
<1> QED BY <1>3, <1>4, <1>5, <1>6, <1>7

LEMMA JoinWakerKeeps == ASSUME AidlAssumption, AidlInv, JoinWaker PROVE AidlInv'
<1> USE DEF JoinWaker, hal, queues, wakerVars, env, caller, writing, bounds, ReaderStays, WriteLockFree, AidlInv
<1>3. TypeOK'
  BY DEF TypeOK, Threads, AidlAssumption
<1>4. HeldIffOutstanding'
  BY DEF HeldIffOutstanding
<1>5. Covered'
  BY DEF Covered, InFlight, Idle, Stopped, TypeOK
<1>6. Idle'
  BY DEF Idle, Stopped, TypeOK, AidlAssumption
<1>7. Stopped'
  BY DEF Stopped, Idle, RunMutexFree, TypeOK, Threads, AidlAssumption
<1> QED BY <1>3, <1>4, <1>5, <1>6, <1>7

LEMMA ReplaceQueuesKeeps == ASSUME AidlAssumption, AidlInv, ReplaceQueues PROVE AidlInv'
<1> USE DEF ReplaceQueues, hal, queues, wakerVars, env, caller, writing, bounds, ReaderStays, WriteLockFree, AidlInv
<1>3. TypeOK'
  <2>1. /\ mEventQueue' \in 0 .. QueueSize /\ eventFlag' \in BOOLEAN /\ mWakeLockQueue' \in Nat
        /\ mReadWakeLockQueueRun' \in BOOLEAN /\ waker' \in {"none", "test", "read", "update"}
        /\ unhandled' \in Nat /\ forgotten' \in Nat /\ call' = "start"
    BY EmptyFits, Zenon
  <2> QED BY <2>1 DEF TypeOK, Threads
<1>4. HeldIffOutstanding'
  BY DEF HeldIffOutstanding
<1>5. Covered'
  BY DEF Covered, InFlight, Idle, Stopped, TypeOK
<1>6. Idle'
  BY DEF Idle, Stopped, TypeOK, AidlAssumption
<1>7. Stopped'
  BY DEF Stopped, Idle, RunMutexFree, TypeOK, Threads, AidlAssumption
<1> QED BY <1>3, <1>4, <1>5, <1>6, <1>7

LEMMA StartPollingThreadKeeps == ASSUME AidlAssumption, AidlInv, StartPollingThread PROVE AidlInv'
<1> USE DEF StartPollingThread, hal, queues, wakerVars, env, caller, writing, bounds, ReaderStays, WriteLockFree, AidlInv
<1>3. TypeOK'
  BY DEF TypeOK, Threads, AidlAssumption
<1>4. HeldIffOutstanding'
  BY DEF HeldIffOutstanding
<1>5. Covered'
  BY DEF Covered, InFlight, Idle, Stopped, TypeOK
<1>6. Idle'
  BY DEF Idle, Stopped, TypeOK, AidlAssumption
<1>7. Stopped'
  BY DEF Stopped, Idle, RunMutexFree, TypeOK, Threads, AidlAssumption
<1> QED BY <1>3, <1>4, <1>5, <1>6, <1>7

LEMMA BinderPostsKeeps == ASSUME AidlAssumption, AidlInv, BinderPosts PROVE AidlInv'
<1> USE DEF BinderPosts, hal, queues, wakerVars, env, caller, writing, bounds, ReaderStays, WriteLockFree, AidlInv
<1>1. Head(work) \in Nat /\ Binder \in Sensors \cup {Binder} /\ Post(Binder, Head(work))
  BY DEF TypeOK
<1>2. /\ posts' \in Nat /\ mEventQueue' \in 0 .. QueueSize /\ stage' \in {"wake", "count"}
      /\ writer' \in {Binder, Nobody} /\ uncounted' \in Nat
      /\ writer' = Nobody => uncounted' = 0
      /\ writer = Nobody
      /\ \/ mEventQueue' = mEventQueue + Head(work) /\ uncounted' = Head(work) /\ uncounted = 0
         \/ UNCHANGED <<mEventQueue, uncounted>>
  BY <1>1, PostQueues
<1>3. TypeOK'
  BY <1>2 DEF TypeOK, Threads, AidlAssumption
<1>4. HeldIffOutstanding'
  BY Zenon DEF HeldIffOutstanding
<1>5. Covered'
  <2>1. /\ UNCHANGED <<mOutstandingWakeUpEvents, forgotten, unhandled, mWakeLockQueue, eventsHandled>>
    OBVIOUS
  <2>2. /\ mEventQueue \in Nat /\ unhandled \in Nat /\ mWakeLockQueue \in Nat /\ eventsHandled \in Nat
        /\ uncounted \in Nat /\ mOutstandingWakeUpEvents \in Nat /\ forgotten \in Nat
        /\ QueueSize \in Nat
        /\ mOutstandingWakeUpEvents + uncounted + forgotten
             >= mEventQueue + unhandled + mWakeLockQueue + eventsHandled
    BY DEF AidlAssumption, TypeOK, Covered, InFlight
  <2> HIDE DEF AidlInv, BinderPosts
  <2>3. CASE mEventQueue' = mEventQueue + Head(work) /\ uncounted' = Head(work) /\ uncounted = 0
    BY <1>1, <2>1, <2>2, <2>3 DEF Covered, InFlight
  <2>4. CASE UNCHANGED <<mEventQueue, uncounted>>
    BY <2>1, <2>2, <2>4 DEF Covered, InFlight
  <2> QED BY <1>2, <2>3, <2>4
<1>6. Idle'
  BY <1>2 DEF Idle, Stopped, TypeOK, AidlAssumption
<1>7. Stopped'
  BY <1>2 DEF Stopped, Idle, RunMutexFree, TypeOK, Threads, AidlAssumption
<1> QED BY <1>3, <1>4, <1>5, <1>6, <1>7

LEMMA BinderReturnsKeeps == ASSUME AidlAssumption, AidlInv, BinderReturns PROVE AidlInv'
<1> USE DEF BinderReturns, hal, queues, wakerVars, env, caller, writing, bounds, ReaderStays, WriteLockFree, AidlInv
<1>3. TypeOK'
  BY DEF TypeOK, Threads, AidlAssumption
<1>4. HeldIffOutstanding'
  BY DEF HeldIffOutstanding
<1>5. Covered'
  BY DEF Covered, InFlight, Idle, Stopped, TypeOK
<1>6. Idle'
  BY DEF Idle, Stopped, TypeOK, AidlAssumption
<1>7. Stopped'
  BY DEF Stopped, Idle, RunMutexFree, TypeOK, Threads, AidlAssumption
<1> QED BY <1>3, <1>4, <1>5, <1>6, <1>7

LEMMA TearDownKeeps == ASSUME AidlAssumption, AidlInv, TearDown PROVE AidlInv'
<1> USE DEF TearDown, hal, queues, wakerVars, env, caller, writing, bounds, ReaderStays, WriteLockFree, AidlInv
<1>3. TypeOK'
  BY DEF TypeOK, Threads, AidlAssumption
<1>4. HeldIffOutstanding'
  BY DEF HeldIffOutstanding
<1>5. Covered'
  BY DEF Covered, InFlight, Idle, Stopped, TypeOK
<1>6. Idle'
  BY DEF Idle, Stopped, TypeOK, AidlAssumption
<1>7. Stopped'
  BY DEF Stopped, Idle, RunMutexFree, TypeOK, Threads, AidlAssumption
<1> QED BY <1>3, <1>4, <1>5, <1>6, <1>7

LEMMA WakeReaderKeeps == ASSUME AidlAssumption, AidlInv, WakeReader PROVE AidlInv'
<1> USE DEF WakeReader, hal, queues, wakerVars, env, caller, writing, bounds, ReaderStays, WriteLockFree, AidlInv
<1>3. TypeOK'
  BY DEF TypeOK, Threads, AidlAssumption
<1>4. HeldIffOutstanding'
  BY DEF HeldIffOutstanding
<1>5. Covered'
  BY DEF Covered, InFlight, Idle, Stopped, TypeOK
<1>6. Idle'
  BY DEF Idle, Stopped, TypeOK, AidlAssumption
<1>7. Stopped'
  BY DEF Stopped, Idle, RunMutexFree, TypeOK, Threads, AidlAssumption
<1> QED BY <1>3, <1>4, <1>5, <1>6, <1>7

LEMMA JoinReaderKeeps == ASSUME AidlAssumption, AidlInv, JoinReader PROVE AidlInv'
<1> USE DEF JoinReader, hal, queues, wakerVars, env, caller, writing, bounds, ReaderStays, WriteLockFree, AidlInv
<1>3. TypeOK'
  BY DEF TypeOK, Threads, AidlAssumption
<1>4. HeldIffOutstanding'
  BY DEF HeldIffOutstanding
<1>5. Covered'
  BY DEF Covered, InFlight, Idle, Stopped, TypeOK
<1>6. Idle'
  BY DEF Idle, Stopped, TypeOK, AidlAssumption
<1>7. Stopped'
  BY DEF Stopped, Idle, RunMutexFree, TypeOK, Threads, AidlAssumption
<1> QED BY <1>3, <1>4, <1>5, <1>6, <1>7

LEMMA RunPostsKeeps == ASSUME AidlAssumption, AidlInv, NEW s \in Sensors, RunPosts(s) PROVE AidlInv'
<1> USE DEF RunPosts, hal, queues, wakerVars, env, caller, writing, bounds, ReaderStays, WriteLockFree, AidlInv
<1>1. 1 \in Nat /\ s \in Sensors \cup {Binder} /\ Post(s, 1)
  BY DEF TypeOK
<1>2. /\ posts' \in Nat /\ mEventQueue' \in 0 .. QueueSize /\ stage' \in {"wake", "count"}
      /\ writer' \in {s, Nobody} /\ uncounted' \in Nat
      /\ writer' = Nobody => uncounted' = 0
      /\ writer = Nobody
      /\ \/ mEventQueue' = mEventQueue + 1 /\ uncounted' = 1 /\ uncounted = 0
         \/ UNCHANGED <<mEventQueue, uncounted>>
  BY <1>1, PostQueues
<1>3. TypeOK'
  BY <1>2 DEF TypeOK, Threads, AidlAssumption
<1>4. HeldIffOutstanding'
  BY Zenon DEF HeldIffOutstanding
<1>5. Covered'
  <2>1. /\ UNCHANGED <<mOutstandingWakeUpEvents, forgotten, unhandled, mWakeLockQueue, eventsHandled>>
    OBVIOUS
  <2>2. /\ mEventQueue \in Nat /\ unhandled \in Nat /\ mWakeLockQueue \in Nat /\ eventsHandled \in Nat
        /\ uncounted \in Nat /\ mOutstandingWakeUpEvents \in Nat /\ forgotten \in Nat
        /\ QueueSize \in Nat
        /\ mOutstandingWakeUpEvents + uncounted + forgotten
             >= mEventQueue + unhandled + mWakeLockQueue + eventsHandled
    BY DEF AidlAssumption, TypeOK, Covered, InFlight
  <2> HIDE DEF AidlInv, RunPosts
  <2>3. CASE mEventQueue' = mEventQueue + 1 /\ uncounted' = 1 /\ uncounted = 0
    BY <1>1, <2>1, <2>2, <2>3 DEF Covered, InFlight
  <2>4. CASE UNCHANGED <<mEventQueue, uncounted>>
    BY <2>1, <2>2, <2>4 DEF Covered, InFlight
  <2> QED BY <1>2, <2>3, <2>4
<1>6. Idle'
  BY <1>2 DEF Idle, Stopped, TypeOK, AidlAssumption
<1>7. Stopped'
  BY <1>2 DEF Stopped, Idle, RunMutexFree, TypeOK, Threads, AidlAssumption
<1> QED BY <1>3, <1>4, <1>5, <1>6, <1>7

LEMMA DisableNextKeeps == ASSUME AidlAssumption, AidlInv, NEW s \in Sensors, DisableNext(s) PROVE AidlInv'
<1> USE DEF DisableNext, hal, queues, wakerVars, env, caller, writing, bounds, ReaderStays, WriteLockFree, AidlInv
<1>3. TypeOK'
  BY DEF TypeOK, Threads, AidlAssumption
<1>4. HeldIffOutstanding'
  BY DEF HeldIffOutstanding
<1>5. Covered'
  BY DEF Covered, InFlight, Idle, Stopped, TypeOK
<1>6. Idle'
  BY DEF Idle, Stopped, TypeOK, AidlAssumption
<1>7. Stopped'
  BY DEF Stopped, Idle, RunMutexFree, TypeOK, Threads, AidlAssumption
<1> QED BY <1>3, <1>4, <1>5, <1>6, <1>7

LEMMA ActivateKeeps == ASSUME AidlAssumption, AidlInv, NEW s \in Sensors, Activate(s) PROVE AidlInv'
<1> USE DEF Activate, hal, queues, wakerVars, env, caller, writing, bounds, ReaderStays, WriteLockFree, AidlInv
<1>3. TypeOK'
  BY DEF TypeOK, Threads, AidlAssumption
<1>4. HeldIffOutstanding'
  BY DEF HeldIffOutstanding
<1>5. Covered'
  BY DEF Covered, InFlight, Idle, Stopped, TypeOK
<1>6. Idle'
  BY DEF Idle, Stopped, TypeOK, AidlAssumption
<1>7. Stopped'
  BY DEF Stopped, Idle, RunMutexFree, TypeOK, Threads, AidlAssumption
<1> QED BY <1>3, <1>4, <1>5, <1>6, <1>7

LEMMA DeactivateKeeps == ASSUME AidlAssumption, AidlInv, NEW s \in Sensors, Deactivate(s) PROVE AidlInv'
<1> USE DEF Deactivate, hal, queues, wakerVars, env, caller, writing, bounds, ReaderStays, WriteLockFree, AidlInv
<1>3. TypeOK'
  BY DEF TypeOK, Threads, AidlAssumption
<1>4. HeldIffOutstanding'
  BY DEF HeldIffOutstanding
<1>5. Covered'
  BY DEF Covered, InFlight, Idle, Stopped, TypeOK
<1>6. Idle'
  BY DEF Idle, Stopped, TypeOK, AidlAssumption
<1>7. Stopped'
  BY DEF Stopped, Idle, RunMutexFree, TypeOK, Threads, AidlAssumption
<1> QED BY <1>3, <1>4, <1>5, <1>6, <1>7

LEMMA FlushKeeps == ASSUME AidlAssumption, AidlInv, NEW s \in Sensors, Flush(s) PROVE AidlInv'
<1> USE DEF Flush, hal, queues, wakerVars, env, caller, writing, bounds, ReaderStays, WriteLockFree, AidlInv
<1>3. TypeOK'
  BY DEF TypeOK, Threads, AidlAssumption
<1>4. HeldIffOutstanding'
  BY DEF HeldIffOutstanding
<1>5. Covered'
  BY DEF Covered, InFlight, Idle, Stopped, TypeOK
<1>6. Idle'
  BY DEF Idle, Stopped, TypeOK, AidlAssumption
<1>7. Stopped'
  BY DEF Stopped, Idle, RunMutexFree, TypeOK, Threads, AidlAssumption
<1> QED BY <1>3, <1>4, <1>5, <1>6, <1>7

(* Every step of every thread keeps the invariant.                         *)
LEMMA NextKeeps == ASSUME AidlAssumption, AidlInv, [Next]_vars PROVE AidlInv'
<1>1. CASE HalSteps
  BY <1>1, TickKeeps, WakeFlagKeeps, CountWrittenKeeps DEF HalSteps
<1>2. CASE WakerSteps
  BY <1>2, WakerTestsKeeps, WakerReadsKeeps, WakerTimesOutKeeps, WakerUpdatesKeeps DEF WakerSteps
<1>3. CASE ReaderSteps
  BY <1>3, ReaderTestsKeeps, ReaderLooksKeeps, ReaderWakesKeeps, ReaderReadsKeeps DEF ReaderSteps
<1>4. CASE Continue
  BY <1>4, DisableNextKeeps, StopWakerKeeps, JoinWakerKeeps, ReplaceQueuesKeeps, StartPollingThreadKeeps,
     BinderPostsKeeps, BinderReturnsKeeps, WakeReaderKeeps, JoinReaderKeeps DEF Continue, Initialize
<1>5. CASE Calls
  BY <1>5, ResetHalKeeps, TearDownKeeps, ActivateKeeps, DeactivateKeeps, FlushKeeps DEF Calls
<1>6. CASE Acknowledge
  BY <1>6, AcknowledgeKeeps
<1>7. CASE \E s \in Sensors : RunPosts(s)
  BY <1>7, RunPostsKeeps
<1>8. CASE UNCHANGED vars
  BY <1>8 DEF vars, hal, queues, wakerVars, env, caller, writing, bounds, AidlInv, TypeOK, HeldIffOutstanding,
     Covered, InFlight, Idle, Stopped
<1> QED BY <1>1, <1>2, <1>3, <1>4, <1>5, <1>6, <1>7, <1>8 DEF Next

(* The invariant holds whatever the sensors, the queue and the timeout     *)
(* (SensorsHalAidl, Sensor and the environment that drives them).          *)
THEOREM AidlInvariant == Spec => []AidlInv
BY AidlAssumption, InitHolds, NextKeeps, PTL DEF Spec

(* Type correctness; the count never falls below zero (updateWakeLock).    *)
THEOREM AidlTypeCorrect == Spec => []TypeOK
<1>1. AidlInv => TypeOK
  BY DEF AidlInv
<1> QED BY <1>1, AidlInvariant, PTL

(* The kernel's wake lock is held exactly while an event is counted        *)
(* (updateWakeLock).                                                       *)
THEOREM LockFollowsCount == Spec => []HeldIffOutstanding
<1>1. AidlInv => HeldIffOutstanding
  BY DEF AidlInv
<1> QED BY <1>1, AidlInvariant, PTL

(* No order of posts, acknowledgements, releases and restarts makes the    *)
(* HAL forget a wake-up event that is on its way (postEvents,              *)
(* readWakeLockFMQ, initialize).                                           *)
THEOREM EventsAreCovered == Spec => []Covered
<1>1. AidlInv => Covered
  BY DEF AidlInv
<1> QED BY <1>1, AidlInvariant, PTL

(* initialize() replaces the queues when no thread uses them.              *)
THEOREM QueuesReplacedUnused == Spec => []ReplacedUnused
<1>1. AidlInv => ReplacedUnused
  BY DEF AidlInv, ReplacedUnused, Stopped, Idle, TypeOK, Threads, WriteLockFree
<1> QED BY <1>1, AidlInvariant, PTL

-----------------------------------------------------------------------------
(* Samples                                                                 *)

(* The switch of the conversions has one case for every type they know.    *)
LEMMA MemberTypes ==
  ASSUME NEW type \in Types
  PROVE  /\ MemberOf(type) \in DOMAIN TypesOf /\ type \in TypesOf[MemberOf(type)]
         /\ Copied[MemberOf(type)] \in Words
<1>1. PICK m \in DOMAIN TypesOf : type \in TypesOf[m]
  BY DEF Types
<1>2. MemberOf(type) \in DOMAIN TypesOf /\ type \in TypesOf[MemberOf(type)]
  BY <1>1 DEF MemberOf
<1>3. DOMAIN TypesOf = DOMAIN Copied
  BY DEF TypesOf, Copied
<1>4. \A name \in DOMAIN Copied : Copied[name] \in 1..16
  BY DEF Copied
<1> QED BY <1>2, <1>3, <1>4 DEF Words

(* Copying the first words of a union leaves the others zero.              *)
LEMMA FirstWords ==
  ASSUME NEW u, NEW n \in Words
  PROVE  \A k \in Words : Padded(SubSeq(u, 1, n))[k] = IF k <= n THEN u[k] ELSE 0
<1> DEFINE S == {u[k] : k \in Words}
           w == SubSeq(u, 1, n)
<1>1. n \in Int /\ 1 <= n /\ n <= 16
  BY DEF Words
<1>2. \A k \in 1..n : u[k] \in S
  BY <1>1 DEF Words
<1>3. Len(w) = n /\ \A k \in 1..n : w[k] = u[k]
  <2> HIDE DEF S
  <2>1. /\ Len(w) = IF 1 <= n THEN n - 1 + 1 ELSE 0
        /\ \A k \in 1 .. n - 1 + 1 : w[k] = u[1 + k - 1]
    BY <1>1, <1>2, SubSeqProperties
  <2> HIDE DEF w
  <2> QED BY <1>1, <2>1
<1> HIDE DEF w
<1> QED BY <1>1, <1>3 DEF Padded, Words

(* convertToHidlEvent() takes an event of any type, handle, timestamp and  *)
(* contents back from what convertToAidlEvent() has made of it.            *)
THEOREM ConversionsInvert ==
  ASSUME NEW type \in Types, NEW handle, NEW timestamp, NEW S, NEW u \in [Words -> S]
  PROVE  LET event == [type |-> type, handle |-> handle, timestamp |-> timestamp, u |-> u]
         IN ConvertToHidlEvent(ConvertToAidlEvent(event), u) = event
<1> DEFINE event == [type |-> type, handle |-> handle, timestamp |-> timestamp, u |-> u]
           n == Copied[MemberOf(type)]
           a == ConvertToAidlEvent(event)
<1>1. n \in Words
  BY MemberTypes
<1>2. /\ a.type = type /\ a.handle = handle /\ a.timestamp = timestamp /\ a.tag = TagOf(type)
      /\ a.words = Padded(SubSeq(u, 1, n))
  BY DEF ConvertToAidlEvent
<1> HIDE DEF a
<1>3. [k \in Words |-> IF k <= n THEN a.words[k] ELSE u[k]] = u
  BY <1>1, <1>2, FirstWords
<1>4. ConvertToHidlEvent(a, u)
        = [type |-> type, handle |-> handle, timestamp |-> timestamp,
           u |-> [k \in Words |-> IF k <= n THEN a.words[k] ELSE u[k]]]
  BY <1>2 DEF ConvertToHidlEvent
<1> QED BY <1>3, <1>4 DEF a

(* Of the types that are read, the uncalibrated ones have a member of      *)
(* their own.                                                              *)
LEMMA ReadTags ==
  ASSUME NEW type \in ReadTypes
  PROVE  /\ type \in Types
         /\ MemberOf(type) = IF type \in {"GYROSCOPE_UNCALIBRATED", "ACCELEROMETER_UNCALIBRATED"}
                             THEN "uncal" ELSE "vec3"
<1> DEFINE member == IF type \in {"GYROSCOPE_UNCALIBRATED", "ACCELEROMETER_UNCALIBRATED"}
                     THEN "uncal" ELSE "vec3"
<1>1. member \in DOMAIN TypesOf /\ type \in TypesOf[member]
  BY DEF ReadTypes, TypesOf
<1>2. \A m \in DOMAIN TypesOf : type \in TypesOf[m] => m = member
  BY DEF ReadTypes, TypesOf
<1> HIDE DEF member
<1> QED BY <1>1, <1>2 DEF MemberOf, Types, member

(* A reading of any words, or a failed one, reaches the framework the same *)
(* way from readEvents() of either HAL.                                    *)
LEMMA HalsAgree ==
  ASSUME NEW sensor, sensor.type \in ReadTypes, NEW contents, DOMAIN contents = 1..3,
         NEW timestamp
  PROVE  LET values == ReadPollingData(contents, sensor.resolution, timestamp).values
             posted == ReadHidlEvents(sensor, values)
         IN [k \in DOMAIN posted |-> ConvertToAidlEvent(posted[k])] = ReadAidlEvents(sensor, values)
<1> DEFINE values == ReadPollingData(contents, sensor.resolution, timestamp).values
           data == [k \in 1..3 |-> contents[k].integer * sensor.resolution]
           S == {data[k] : k \in 1..3}
           posted == ReadHidlEvents(sensor, values)
           uncal == sensor.type \in {"GYROSCOPE_UNCALIBRATED", "ACCELEROMETER_UNCALIBRATED"}
           n == Copied[MemberOf(sensor.type)]
<1>1. n = (IF uncal THEN 6 ELSE 4) /\ TagOf(sensor.type) = (IF uncal THEN "uncal" ELSE "vec3")
  BY ReadTags DEF Copied, TagOf
<1>2. \A k \in DOMAIN values : values[k].data = data
  BY DEF ReadPollingData
<1>3. Len(EventWords(sensor, data)) = n
  <2>1. data \in Seq(S \cup {ACCURACY_HIGH}) /\ Len(data) = 3
    <3>1. \A k \in 1..3 : data[k] \in S \cup {ACCURACY_HIGH}
      OBVIOUS
    <3>2. data = [k \in 1..3 |-> data[k]]
      OBVIOUS
    <3> HIDE DEF ACCURACY_HIGH
    <3> QED BY <3>1, <3>2, IsASeq
  <2>2. CASE uncal
    BY <2>2, <1>1 DEF EventWords
  <2>3. CASE ~uncal
    <3>1. EventWords(sensor, data) = Append(data, ACCURACY_HIGH)
      BY <2>3 DEF EventWords
    <3>3. Len(Append(data, ACCURACY_HIGH)) = Len(data) + 1
      <4> DEFINE T == S \cup {ACCURACY_HIGH}
      <4>1. data \in Seq(T) /\ ACCURACY_HIGH \in T
        BY <2>1
      <4> HIDE DEF T
      <4> QED BY <4>1, AppendProperties
    <3> QED BY <3>1, <3>3, <2>1, <2>3, <1>1
  <2> QED BY <2>2, <2>3
<1> DEFINE words == EventWords(sensor, data)
           u == Padded(words)
<1>4. Padded(SubSeq(u, 1, n)) = u
  <2>1. n \in Words
    BY <1>1 DEF Words
  <2> HIDE DEF words, n
  <2>2. \A k \in Words : u[k] = IF k <= n THEN words[k] ELSE 0
    <3>1. \A k \in Words : u[k] = IF k <= Len(words) THEN words[k] ELSE 0
      BY DEF Padded
    <3> QED BY <3>1, <1>3 DEF words
  <2>3. \A k \in Words : Padded(SubSeq(u, 1, n))[k] = u[k]
    <3> HIDE DEF u
    <3>1. \A k \in Words : Padded(SubSeq(u, 1, n))[k] = IF k <= n THEN u[k] ELSE 0
      BY <2>1, FirstWords
    <3> QED BY <2>2, <3>1
  <2> QED BY <2>3 DEF Padded
<1> HIDE DEF values
<1>5. \A k \in DOMAIN values :
        posted[k] = [type |-> sensor.type, handle |-> sensor.handle,
                     timestamp |-> values[k].timestamp, u |-> u]
  BY <1>2 DEF ReadHidlEvents
<1>6. DOMAIN posted = DOMAIN values
  BY DEF ReadHidlEvents
<1> HIDE DEF posted, n, u
<1>7. \A k \in DOMAIN values :
        ConvertToAidlEvent(posted[k])
          = [type |-> sensor.type, handle |-> sensor.handle, timestamp |-> values[k].timestamp,
             tag |-> IF uncal THEN "uncal" ELSE "vec3", words |-> u]
  <2> TAKE k \in DOMAIN values
  <2>1. /\ posted[k].type = sensor.type /\ posted[k].handle = sensor.handle
        /\ posted[k].timestamp = values[k].timestamp /\ posted[k].u = u
    <3>1. posted[k] = [type |-> sensor.type, handle |-> sensor.handle,
                       timestamp |-> values[k].timestamp, u |-> u]
      BY <1>5
    <3> QED BY <3>1
  <2>2. ConvertToAidlEvent(posted[k])
          = [type |-> sensor.type, handle |-> sensor.handle, timestamp |-> values[k].timestamp,
             tag |-> TagOf(sensor.type), words |-> Padded(SubSeq(u, 1, n))]
    BY <2>1 DEF ConvertToAidlEvent, n
  <2> QED BY <2>2, <1>1, <1>4
<1>8. ReadAidlEvents(sensor, values)
        = [k \in DOMAIN values |->
             [type |-> sensor.type, handle |-> sensor.handle, timestamp |-> values[k].timestamp,
              tag |-> IF uncal THEN "uncal" ELSE "vec3", words |-> u]]
  BY <1>2 DEF ReadAidlEvents, u
<1> QED BY <1>6, <1>7, <1>8 DEF posted, values

(* Distinct axes are all the axes.                                         *)
LEMMA Permutes ==
  ASSUME NEW p \in [1..3 -> 0..2], IsInjective(p)
  PROVE  /\ p[1] # p[2] /\ p[1] # p[3] /\ p[2] # p[3]
         /\ \A r \in 0..2 : p[1] = r \/ p[2] = r \/ p[3] = r
<1>1. p[1] # p[2] /\ p[1] # p[3] /\ p[2] # p[3]
  BY DEF IsInjective
<1>2. p[1] \in 0..2 /\ p[2] \in 0..2 /\ p[3] \in 0..2
  OBVIOUS
<1> QED BY <1>1, <1>2

(* An entry of the rotation is none of the location's, and none of another *)
(* axis.                                                                   *)
LEMMA Indices ==
  ASSUME NEW a \in 1..3, NEW b \in 1..3, NEW x \in 0..2, NEW y \in 0..2
  PROVE  /\ a - 1 + 4 * x \in 0..13
         /\ a - 1 + 4 * x # 4 * b - 1
         /\ a - 1 + 4 * x = b - 1 + 4 * y => a = b
<1>1. (a = 1 \/ a = 2 \/ a = 3) /\ (b = 1 \/ b = 2 \/ b = 3)
  OBVIOUS
<1>2. (x = 0 \/ x = 1 \/ x = 2) /\ (y = 0 \/ y = 1 \/ y = 2)
  OBVIOUS
<1>3. CASE a = 1
  BY <1>1, <1>2, <1>3
<1>4. CASE a = 2
  BY <1>1, <1>2, <1>4
<1>5. CASE a = 3
  BY <1>1, <1>2, <1>5
<1> QED BY <1>1, <1>3, <1>4, <1>5

(* The placement of a sensor at <<5, 6, 7>>.                               *)
Frame(map, negate, rotate) ==
  GetSensorPlacement([hasLocation |-> TRUE, hasOrientation |-> TRUE, location |-> <<5, 6, 7>>,
                      orientation |-> [map |-> map, negate |-> negate, rotate |-> rotate]])[1].values

(* getSensorPlacement(): the three location entries, one entry of the      *)
(* rotation for every axis, and otherwise zeros.                           *)
LEMMA FrameValues ==
  ASSUME NEW map \in [1..3 -> 0..2], IsInjective(map), NEW negate \in [1..3 -> BOOLEAN],
         NEW rotate \in BOOLEAN
  PROVE  \E p \in [1..3 -> 0..2], sign \in [1..3 -> {1, -1}] :
           /\ IsInjective(p)
           /\ \A axis \in 1..3 : /\ Frame(map, negate, rotate)[4 * axis - 1] = 4 + axis
                               /\ Frame(map, negate, rotate)[axis - 1 + 4 * p[axis]] = sign[axis]
           /\ \A i \in 0..13 : \/ \E axis \in 1..3 : i = 4 * axis - 1 \/ i = axis - 1 + 4 * p[axis]
                              \/ Frame(map, negate, rotate)[i] = 0
<1> DEFINE p == [axis \in 1..3 |-> IF rotate THEN axis - 1 ELSE map[axis]]
           sign == [axis \in 1..3 |-> IF ~rotate /\ negate[axis] THEN -1 ELSE 1]
           index(axis) == ROTATION[axis] + 4 * (IF rotate THEN axis - 1 ELSE map[axis])
           signOf(axis) == IF ~rotate /\ negate[axis] THEN -1 ELSE 1
           value(i) == IF \E axis \in 1..3 : LOCATION[axis] = i
                       THEN <<5, 6, 7>>[CHOOSE axis \in 1..3 : LOCATION[axis] = i]
                       ELSE IF \E axis \in 1..3 : index(axis) = i
                       THEN signOf(CHOOSE axis \in 1..3 : index(axis) = i)
                       ELSE 0
           frame == Frame(map, negate, rotate)
<1>1. frame = [i \in 0..13 |-> value(i)]
  BY DEF Frame, GetSensorPlacement
<1>2. p \in [1..3 -> 0..2] /\ sign \in [1..3 -> {1, -1}]
  OBVIOUS
<1>3. IsInjective(p)
  BY DEF IsInjective
<1>4. \A axis \in 1..3 : /\ LOCATION[axis] = 4 * axis - 1 /\ <<5, 6, 7>>[axis] = 4 + axis
                         /\ index(axis) = axis - 1 + 4 * p[axis] /\ signOf(axis) = sign[axis]
  BY DEF LOCATION, ROTATION
<1> HIDE DEF p, sign, index, signOf, frame
<1>5. \A axis \in 1..3 : frame[4 * axis - 1] = 4 + axis
  <2> TAKE axis \in 1..3
  <2>1. 4 * axis - 1 \in 0..13
    OBVIOUS
  <2>2. (CHOOSE a \in 1..3 : LOCATION[a] = 4 * axis - 1) = axis
    <3>1. \A a \in 1..3 : LOCATION[a] = 4 * axis - 1 <=> a = axis
      BY <1>4
    <3> QED BY <3>1
  <2>3. value(4 * axis - 1) = <<5, 6, 7>>[axis]
    BY <2>2, <1>4
  <2> HIDE DEF value
  <2> QED BY <1>1, <2>1, <2>3, <1>4
<1>7. \A axis \in 1..3 : frame[axis - 1 + 4 * p[axis]] = sign[axis]
  <2> TAKE axis \in 1..3
  <2> DEFINE i == axis - 1 + 4 * p[axis]
  <2>1. i \in 0..13 /\ \A a \in 1..3 : i # 4 * a - 1 /\ (i = a - 1 + 4 * p[a] => a = axis)
    <3>1. p[axis] \in 0..2
      BY <1>2
    <3>2. i \in 0..13
      BY <3>1, Indices
    <3>3. ASSUME NEW a \in 1..3
          PROVE  i # 4 * a - 1 /\ (i = a - 1 + 4 * p[a] => a = axis)
      <4>1. p[a] \in 0..2
        BY <1>2
      <4> QED BY <3>1, <4>1, Indices
    <3> QED BY <3>2, <3>3
  <2>2. index(axis) = i
    BY <1>4
  <2> HIDE DEF i
  <2>3. \A a \in 1..3 : LOCATION[a] # i /\ (index(a) = i => a = axis)
    BY <1>4, <2>1
  <2>4. (CHOOSE a \in 1..3 : index(a) = i) = axis
    BY <2>2, <2>3
  <2>5. value(i) = signOf(axis)
    BY <2>2, <2>3, <2>4
  <2> HIDE DEF value
  <2> QED BY <1>1, <2>1, <2>5, <1>4 DEF i
<1>8. \A i \in 0..13 : \/ \E axis \in 1..3 : i = 4 * axis - 1 \/ i = axis - 1 + 4 * p[axis]
                      \/ frame[i] = 0
  BY <1>1, <1>4
<1> QED BY <1>2, <1>3, <1>5, <1>7, <1>8 DEF frame

(* getSensorPlacement() for any orientation: one axis in every row and     *)
(* column.                                                                 *)
LEMMA Placements ==
  ASSUME NEW map \in [1..3 -> 0..2], IsInjective(map), NEW negate \in [1..3 -> BOOLEAN],
         NEW rotate \in BOOLEAN
  PROVE  LET frame == GetSensorPlacement([hasLocation |-> TRUE, hasOrientation |-> TRUE, location |-> <<5, 6, 7>>,
                                          orientation |-> [map |-> map, negate |-> negate, rotate |-> rotate]])[1]
             entry(row, column) == frame.values[4 * (row - 1) + column - 1]
         IN /\ \A row \in 1..3 : entry(row, 4) = 4 + row
            /\ \A row \in 1..3 : Cardinality({column \in 1..3 : entry(row, column) \in {1, -1}}) = 1
            /\ \A column \in 1..3 : Cardinality({row \in 1..3 : entry(row, column) \in {1, -1}}) = 1
            /\ Cardinality({i \in 0..13 : frame.values[i] = 0}) = 8
<1> DEFINE values == Frame(map, negate, rotate)
           entry(row, column) == values[4 * (row - 1) + column - 1]
<1>1. PICK p \in [1..3 -> 0..2], sign \in [1..3 -> {1, -1}] :
        /\ IsInjective(p)
        /\ \A axis \in 1..3 : values[4 * axis - 1] = 4 + axis /\ values[axis - 1 + 4 * p[axis]] = sign[axis]
        /\ \A i \in 0..13 : \/ \E axis \in 1..3 : i = 4 * axis - 1 \/ i = axis - 1 + 4 * p[axis]
                           \/ values[i] = 0
  BY FrameValues
<1> HIDE DEF values
<1>2. \A axis \in 1..3 : p[axis] \in 0..2
  OBVIOUS
<1>3. \A row \in 1..3 : entry(row, 4) = 4 + row
  <2> TAKE row \in 1..3
  <2>1. 4 * (row - 1) + 4 - 1 = 4 * row - 1
    OBVIOUS
  <2> QED BY <2>1, <1>1
<1>4. \A row, column \in 1..3 : entry(row, column) \in {1, -1} <=> p[column] = row - 1
  <2> TAKE row, column \in 1..3
  <2>1. CASE p[column] = row - 1
    <3>1. 4 * (row - 1) + column - 1 = column - 1 + 4 * p[column]
      BY <2>1
    <3>2. values[column - 1 + 4 * p[column]] \in {1, -1}
      BY <1>1
    <3> QED BY <2>1, <3>1, <3>2
  <2>2. CASE p[column] # row - 1
    <3> DEFINE i == 4 * (row - 1) + column - 1
    <3>1. i \in 0..13
      OBVIOUS
    <3>2. \A axis \in 1..3 : i # 4 * axis - 1 /\ i # axis - 1 + 4 * p[axis]
      <4> TAKE axis \in 1..3
      <4>1. axis \in {1, 2, 3} /\ row \in {1, 2, 3} /\ column \in {1, 2, 3} /\ p[axis] \in 0..2
        BY <1>2
      <4> QED BY <4>1, <2>2
    <3>3. values[i] = 0
      <4> HIDE DEF i
      <4> QED BY <3>1, <3>2, <1>1
    <3> QED BY <2>2, <3>3
  <2> QED BY <2>1, <2>2
<1> HIDE DEF entry
<1>5. ASSUME NEW row \in 1..3
      PROVE  Cardinality({column \in 1..3 : entry(row, column) \in {1, -1}}) = 1
  <2>1. PICK column \in 1..3 : p[column] = row - 1
    <3>1. row - 1 \in 0..2
      OBVIOUS
    <3> QED BY <3>1, <1>1, Permutes
  <2>2. \A c \in 1..3 : p[c] = row - 1 <=> c = column
    BY <2>1, <1>1 DEF IsInjective
  <2>3. {c \in 1..3 : entry(row, c) \in {1, -1}} = {column}
    BY <2>2, <1>4
  <2> QED BY <2>3, FS_Singleton
<1>6. ASSUME NEW column \in 1..3
      PROVE  Cardinality({row \in 1..3 : entry(row, column) \in {1, -1}}) = 1
  <2>1. p[column] + 1 \in 1..3 /\ \A row \in 1..3 : p[column] = row - 1 <=> row = p[column] + 1
    BY <1>2
  <2>2. {row \in 1..3 : entry(row, column) \in {1, -1}} = {p[column] + 1}
    BY <2>1, <1>4
  <2> QED BY <2>2, FS_Singleton
<1>7. Cardinality({i \in 0..13 : values[i] = 0}) = 8
  <2> DEFINE nonzero == {3} \cup {7} \cup {11} \cup {4 * p[1]} \cup {1 + 4 * p[2]} \cup {2 + 4 * p[3]}
  <2>1. p[1] \in 0..2 /\ p[2] \in 0..2 /\ p[3] \in 0..2
    BY <1>2
  <2>2. IsFiniteSet(nonzero) /\ Cardinality(nonzero) = 6
    <3>1. /\ 7 \notin {3} /\ 11 \notin {3} \cup {7} /\ 4 * p[1] \notin {3} \cup {7} \cup {11}
          /\ 1 + 4 * p[2] \notin {3} \cup {7} \cup {11} \cup {4 * p[1]}
          /\ 2 + 4 * p[3] \notin {3} \cup {7} \cup {11} \cup {4 * p[1]} \cup {1 + 4 * p[2]}
      BY <2>1
    <3>2. ASSUME NEW T, NEW n \in Nat, NEW x, IsFiniteSet(T), Cardinality(T) = n, x \notin T
          PROVE  IsFiniteSet(T \cup {x}) /\ Cardinality(T \cup {x}) = n + 1
      BY <3>2, FS_AddElement
    <3>3. IsFiniteSet({3}) /\ Cardinality({3}) = 1
      BY FS_Singleton
    <3> DEFINE T1 == {3}
               T2 == T1 \cup {7}
               T3 == T2 \cup {11}
               T4 == T3 \cup {4 * p[1]}
               T5 == T4 \cup {1 + 4 * p[2]}
    <3>4. /\ IsFiniteSet(T1) /\ Cardinality(T1) = 1 /\ 7 \notin T1
      BY <3>1, <3>3
    <3>5. /\ 11 \notin T2 /\ 4 * p[1] \notin T3 /\ 1 + 4 * p[2] \notin T4 /\ 2 + 4 * p[3] \notin T5
          /\ nonzero = T5 \cup {2 + 4 * p[3]}
      BY <3>1
    <3> HIDE DEF nonzero, T1
    <3>6. IsFiniteSet(T2) /\ Cardinality(T2) = 1 + 1
      BY <3>2, <3>4
    <3> HIDE DEF T2
    <3>7. IsFiniteSet(T3) /\ Cardinality(T3) = 2 + 1
      BY <3>2, <3>5, <3>6
    <3> HIDE DEF T3
    <3>8. IsFiniteSet(T4) /\ Cardinality(T4) = 3 + 1
      BY <3>2, <3>5, <3>7
    <3> HIDE DEF T4
    <3>9. IsFiniteSet(T5) /\ Cardinality(T5) = 4 + 1
      BY <3>2, <3>5, <3>8
    <3> HIDE DEF T5
    <3>10. IsFiniteSet(T5 \cup {2 + 4 * p[3]}) /\ Cardinality(T5 \cup {2 + 4 * p[3]}) = 5 + 1
      BY <3>2, <3>5, <3>9
    <3> QED BY <3>5, <3>10
  <2>3. {i \in 0..13 : values[i] = 0} = (0..13) \ nonzero
    <3>1. \A i \in nonzero : values[i] # 0
      <4>1. /\ values[3] = 5 /\ values[7] = 6 /\ values[11] = 7
        BY <1>1
      <4>2. /\ values[4 * p[1]] \in {1, -1} /\ values[1 + 4 * p[2]] \in {1, -1}
            /\ values[2 + 4 * p[3]] \in {1, -1}
        <5>1. /\ 4 * p[1] = 1 - 1 + 4 * p[1] /\ 1 + 4 * p[2] = 2 - 1 + 4 * p[2]
              /\ 2 + 4 * p[3] = 3 - 1 + 4 * p[3]
          BY <2>1
        <5>2. 1 \in 1..3 /\ 2 \in 1..3 /\ 3 \in 1..3
          OBVIOUS
        <5> QED BY <5>1, <5>2, <1>1
      <4> QED BY <4>1, <4>2
    <3>2. \A i \in 0..13 : values[i] # 0 => i \in nonzero
      <4> TAKE i \in 0..13
      <4>1. HAVE values[i] # 0
      <4>2. PICK axis \in 1..3 : i = 4 * axis - 1 \/ i = axis - 1 + 4 * p[axis]
        BY <1>1, <4>1
      <4>3. axis \in {1, 2, 3}
        OBVIOUS
      <4> QED BY <4>2, <4>3, <2>1
    <3> HIDE DEF nonzero
    <3> QED BY <3>1, <3>2
  <2>4. nonzero \subseteq 0..13
    BY <2>1
  <2>5. IsFiniteSet(0..13) /\ Cardinality(0..13) = 14
    <3>1. 0 \in Int /\ 13 \in Int /\ (IF 0 > 13 THEN 0 ELSE 13 - 0 + 1) = 14
      OBVIOUS
    <3> QED BY <3>1, FS_Interval
  <2> HIDE DEF nonzero
  <2>6. (0..13) \cap nonzero = nonzero
    BY <2>4
  <2>7. Cardinality((0..13) \ nonzero) = 14 - 6
    <3> DEFINE all == 0..13
    <3>1. IsFiniteSet(all) /\ Cardinality(all) = 14 /\ Cardinality(all \cap nonzero) = 6
      BY <2>2, <2>5, <2>6
    <3> HIDE DEF all
    <3>2. Cardinality(all \ nonzero) = Cardinality(all) - Cardinality(all \cap nonzero)
      BY <3>1, FS_Difference
    <3> QED BY <3>1, <3>2 DEF all
  <2> QED BY <2>3, <2>7
<1> QED BY <1>3, <1>5, <1>6, <1>7 DEF Frame, values, entry

(* A reading and its placement keep their values on the way to the         *)
(* framework, for every type, set of drivers and orientation (readEvents,  *)
(* sendAdditionalInfoReport, convertToAidlEvent, convertToHidlEvent).      *)
THEOREM SamplesFaithful == SamplesAreFaithful
<1>1. ConversionsAreInverse
  <2> SUFFICES ASSUME NEW type \in Types
               PROVE  LET event == [type |-> type, handle |-> 1, timestamp |-> 7, u |-> [k \in Words |-> k]]
                      IN ConvertToHidlEvent(ConvertToAidlEvent(event), event.u) = event
    BY DEF ConversionsAreInverse
  <2>1. [k \in Words |-> k] \in [Words -> Words]
    OBVIOUS
  <2> QED BY <2>1, ConversionsInvert
<1>2. BothHalsAgree
  <2> SUFFICES ASSUME NEW drivers \in SUBSET DriverNames, NEW sensor \in ToSet(AddSensors(drivers)),
                      NEW contents \in [1..3 -> SampleTexts]
               PROVE  LET values == ReadPollingData(contents, sensor.resolution, 7).values
                          posted == ReadHidlEvents(sensor, values)
                      IN [k \in DOMAIN posted |-> ConvertToAidlEvent(posted[k])] = ReadAidlEvents(sensor, values)
    BY DEF BothHalsAgree
  <2>1. sensor.type \in ReadTypes
    BY SensorListAssumption
  <2>2. DOMAIN contents = 1..3
    OBVIOUS
  <2> QED BY <2>1, <2>2, HalsAgree
<1>3. PlacementIsARotation
  BY Placements DEF PlacementIsARotation
<1> QED BY <1>1, <1>2, <1>3 DEF SamplesAreFaithful

(* The same as an invariant of the HAL: what is posted for an enabled      *)
(* sensor is the reading itself (SamplesKeepTheirValues).                  *)
THEOREM SamplesKept == Spec => []SamplesKeepTheirValues
<1>1. SamplesKeepTheirValues
  BY SamplesFaithful DEF SamplesKeepTheirValues
<1> QED BY <1>1, PTL

=============================================================================
