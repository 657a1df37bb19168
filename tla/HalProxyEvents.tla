--------------------------- MODULE HalProxyEvents ---------------------------
(***************************************************************************)
(* The event path of the multi-HAL proxy (sensors/multihal/2.X/HalProxy):  *)
(* sub-HAL sensor threads post batches of events, which are written to the *)
(* event FMQ when there is room and queued for the pending-writes thread   *)
(* when there is not; the framework reads the FMQ; initialize() stops the  *)
(* thread, silences the sensors, empties the queues and starts again.      *)
(*                                                                         *)
(* Threads: one run thread per sensor, the binder thread that serves the   *)
(* framework's calls (the services configure exactly one), the             *)
(* pending-writes thread and the framework's reader.                       *)
(***************************************************************************)
EXTENDS Integers, Sequences, FiniteSets

CONSTANTS
  Sensors,         (* the sensors of all sub-HALs, each with a run thread   *)
  Binder,          (* the binder thread; posts flush and additional info     *)
  WakeupSources,   (* the posters whose events carry the WAKE_UP flag       *)
  QueueSize,       (* mEventQueue->getQuantumCount()                        *)
  MaxPending,      (* kMaxSizePendingWriteEventsQueue                       *)
  MaxBatch,        (* most events in one postEvents call (bound)            *)
  MaxSeq           (* events each poster generates (bound of the model)     *)

Posters == Sensors \union {Binder}

ASSUME EventsAssumption ==
  /\ Binder \notin Sensors
  /\ WakeupSources \subseteq Posters
  /\ QueueSize \in Nat \ {0}
  /\ MaxPending \in Nat
  /\ MaxBatch \in Nat \ {0}
  /\ MaxSeq \in Nat

VARIABLES
  mThreadsRun,
  mPendingWriteEventsQueue,     (* <<[first |-> events, second |-> wake-ups]>> *)
  mSizePendingWriteEventsQueue,
  mEventQueue,     (* the event FMQ                                         *)
  writer,          (* where handlePendingWrites() is                        *)
  numToWrite,      (* its local variable                                    *)
  binder,          (* where the framework's call is                         *)
  enabled,         (* the sensors that are active                           *)
  posting,         (* the events a poster carries into postEventsToMessageQueue *)
  produced,        (* events each poster has generated                      *)
  lastRead         (* the last event of each poster the framework has read  *)

queueVars == <<mPendingWriteEventsQueue, mSizePendingWriteEventsQueue, mEventQueue>>
posterVars == <<enabled, posting, produced>>
vars == <<mThreadsRun, queueVars, writer, numToWrite, binder, posterVars, lastRead>>

Event == [source : Posters, seq : Nat]
Batch == [first : Seq(Event), second : Nat]

SmallerOf(a, b) == IF a <= b THEN a ELSE b

(* The events of a vector that carry the WAKE_UP flag.                     *)
NumWakeupEvents(events) ==
  Cardinality({i \in DOMAIN events : events[i].source \in WakeupSources})

(* mEventQueueWriteMutex: every critical section is one step, except the   *)
(* pending-writes thread between the test of its predicate and the wait.   *)
QueueMutexFree == writer # "sleep"

(* Mutants for the runs follow the operators' names: one plausible slip each. *)
NotifyWriter_Forgotten(w) == w

(* mEventQueueWriteCV.notify_one(): without a waiter nothing is remembered. *)
NotifyWriter(w) == IF w = "waiting" THEN "ready" ELSE w

-----------------------------------------------------------------------------
(* Posting.                                                                *)

NewEvents(p, n) == [i \in 1..n |-> [source |-> p, seq |-> produced[p] + i]]

(* HalProxyCallbackBase::postEvents up to the call of the proxy: a test of *)
(* areThreadsRunning() outside every lock of the proxy.                    *)
BeginPost(p, n) ==
  /\ posting[p] = <<>>
  /\ produced[p] + n <= MaxSeq
  /\ produced' = [produced EXCEPT ![p] = @ + n]
  /\ posting' = [posting EXCEPT ![p] = IF mThreadsRun THEN NewEvents(p, n) ELSE <<>>]
  /\ UNCHANGED <<mThreadsRun, queueVars, writer, numToWrite, binder, enabled, lastRead>>

(* An enabled sensor's run thread posts, holding its mRunMutex.            *)
SensorPosts(s) == enabled[s] /\ \E n \in 1..MaxBatch : BeginPost(s, n)

(* flush() of an enabled sensor posts the flush-complete event, and both   *)
(* flush() and activate() the additional info, from the binder thread.     *)
BinderPosts ==
  /\ binder = "idle"
  /\ \E s \in Sensors : enabled[s]
  /\ \E n \in 1..MaxBatch : BeginPost(Binder, n)

AvailableToWrite == QueueSize - Len(mEventQueue)

NumWrittenNow_Overtaking(events) == SmallerOf(Len(events), AvailableToWrite)

(* How many of the events go to the FMQ at once: none while others wait.   *)
NumWrittenNow(events) ==
  IF mPendingWriteEventsQueue = <<>> THEN SmallerOf(Len(events), AvailableToWrite) ELSE 0

FitsPending_BeforeAdding(numLeft) == mSizePendingWriteEventsQueue < MaxPending

FitsPending(numLeft) == mSizePendingWriteEventsQueue + numLeft <= MaxPending

(* postEventsToMessageQueue: the critical section of mEventQueueWriteMutex. *)
PostEventsToMessageQueue(p) ==
  LET events == posting[p]
      n == NumWrittenNow(events)
      numLeft == Len(events) - n
      queued == n < Len(events) /\ FitsPending(numLeft)
      left == [first |-> SubSeq(events, n + 1, Len(events)), second |-> NumWakeupEvents(events)]
  IN /\ posting[p] # <<>>
     /\ QueueMutexFree
     /\ mEventQueue' = mEventQueue \o SubSeq(events, 1, n)
     /\ mPendingWriteEventsQueue' = IF queued THEN Append(mPendingWriteEventsQueue, left)
                                              ELSE mPendingWriteEventsQueue
     /\ mSizePendingWriteEventsQueue' = mSizePendingWriteEventsQueue + (IF queued THEN numLeft ELSE 0)
     /\ writer' = IF queued THEN NotifyWriter(writer) ELSE writer
     /\ posting' = [posting EXCEPT ![p] = <<>>]
     /\ UNCHANGED <<mThreadsRun, numToWrite, binder, enabled, produced, lastRead>>

-----------------------------------------------------------------------------
(* handlePendingWrites: the pending-writes thread.                         *)

FrontBatch == Head(mPendingWriteEventsQueue)

(* With the mutex held: leave the loop, decide to wait, or take the front  *)
(* of the queue and give the mutex up for the blocking write.              *)
WriterLoop ==
  /\ writer = "ready"
  /\ \/ ~mThreadsRun /\ writer' = "done" /\ UNCHANGED numToWrite
     \/ mThreadsRun /\ mPendingWriteEventsQueue = <<>> /\ writer' = "sleep" /\ UNCHANGED numToWrite
     \/ /\ mThreadsRun /\ mPendingWriteEventsQueue # <<>>
        /\ numToWrite' = SmallerOf(Len(FrontBatch.first), QueueSize)
        /\ writer' = "writing"
  /\ UNCHANGED <<mThreadsRun, queueVars, binder, posterVars, lastRead>>

(* condition_variable::wait releases the mutex and blocks ...              *)
WriterSleeps ==
  /\ writer = "sleep"
  /\ writer' = "waiting"
  /\ UNCHANGED <<mThreadsRun, queueVars, numToWrite, binder, posterVars, lastRead>>

(* ... and may return without a notification.                              *)
SpuriousWakeup ==
  /\ writer = "waiting"
  /\ writer' = "ready"
  /\ UNCHANGED <<mThreadsRun, queueVars, numToWrite, binder, posterVars, lastRead>>

(* writeBlocking, without the mutex: it writes all or nothing.             *)
WriterWrites ==
  /\ writer = "writing"
  /\ Len(mEventQueue) + numToWrite <= QueueSize
  /\ mEventQueue' = mEventQueue \o SubSeq(FrontBatch.first, 1, numToWrite)
  /\ writer' = "written"
  /\ UNCHANGED <<mThreadsRun, mPendingWriteEventsQueue, mSizePendingWriteEventsQueue,
                 numToWrite, binder, posterVars, lastRead>>

(* kPendingWriteTimeoutNs passes without room: the events are dropped.     *)
WriterTimesOut ==
  /\ writer = "writing"
  /\ Len(mEventQueue) + numToWrite > QueueSize
  /\ writer' = "written"
  /\ UNCHANGED <<mThreadsRun, queueVars, numToWrite, binder, posterVars, lastRead>>

EraseWritten_Forgotten(batch) == batch

(* eventQueue.erase(eventQueue.begin(), eventQueue.begin() + eventQueueSize) *)
EraseWritten(batch) ==
  [first |-> SubSeq(batch.first, QueueSize + 1, Len(batch.first)), second |-> batch.second]

(* With the mutex again: drop what was written from the front batch.       *)
WriterErases ==
  /\ writer = "written"
  /\ mSizePendingWriteEventsQueue' = mSizePendingWriteEventsQueue - numToWrite
  /\ mPendingWriteEventsQueue' =
       IF Len(FrontBatch.first) > QueueSize
       THEN [mPendingWriteEventsQueue EXCEPT ![1] = EraseWritten(@)]
       ELSE Tail(mPendingWriteEventsQueue)
  /\ writer' = "ready"
  /\ UNCHANGED <<mThreadsRun, mEventQueue, numToWrite, binder, posterVars, lastRead>>

Writer == WriterLoop \/ WriterSleeps \/ WriterWrites \/ WriterTimesOut \/ WriterErases

-----------------------------------------------------------------------------
(* The framework: it reads the FMQ and calls the HAL.                      *)

FrameworkReads ==
  /\ mEventQueue # <<>>
  /\ LET e == Head(mEventQueue) IN lastRead' = [lastRead EXCEPT ![e.source] = e.seq]
  /\ mEventQueue' = Tail(mEventQueue)
  /\ UNCHANGED <<mThreadsRun, mPendingWriteEventsQueue, mSizePendingWriteEventsQueue,
                 writer, numToWrite, binder, posterVars>>

BinderFree == binder = "idle" /\ posting[Binder] = <<>>

(* activate(): a change of state takes the sensor's mRunMutex, so it waits *)
(* for a post of its run thread.                                           *)
Activate(s, on) ==
  /\ BinderFree
  /\ enabled[s] # on
  /\ posting[s] = <<>>
  /\ enabled' = [enabled EXCEPT ![s] = on]
  /\ UNCHANGED <<mThreadsRun, queueVars, writer, numToWrite, binder, posting, produced, lastRead>>

(* initializeCommon -> stopThreads: the flag is cleared outside the mutex. *)
StopThreads ==
  /\ BinderFree \/ binder = "uninitialized"
  /\ mThreadsRun' = FALSE
  /\ binder' = "drain"
  /\ UNCHANGED <<queueVars, writer, numToWrite, posterVars, lastRead>>

(* Make room for a blocked write ...                                       *)
DrainEventQueue ==
  /\ binder = "drain"
  /\ mEventQueue' = <<>>
  /\ binder' = "notify"
  /\ UNCHANGED <<mThreadsRun, mPendingWriteEventsQueue, mSizePendingWriteEventsQueue,
                 writer, numToWrite, posterVars, lastRead>>

(* ... and wake a waiting thread, if there is one at this moment.          *)
NotifyThreads ==
  /\ binder = "notify"
  /\ writer' = NotifyWriter(writer)
  /\ binder' = "join"
  /\ UNCHANGED <<mThreadsRun, queueVars, numToWrite, posterVars, lastRead>>

JoinPendingWritesThread ==
  /\ binder = "join"
  /\ writer \in {"none", "done"}
  /\ writer' = "none"
  /\ binder' = "disable"
  /\ UNCHANGED <<mThreadsRun, queueVars, numToWrite, posterVars, lastRead>>

DisableSensor_Unlocked(s) ==
  /\ binder = "disable"
  /\ enabled[s]
  /\ enabled' = [enabled EXCEPT ![s] = FALSE]
  /\ UNCHANGED <<mThreadsRun, queueVars, writer, numToWrite, binder, posting, produced, lastRead>>

(* disableAllSensors: activate(s, false) for each of them.                 *)
DisableSensor(s) ==
  /\ binder = "disable"
  /\ enabled[s]
  /\ posting[s] = <<>>
  /\ enabled' = [enabled EXCEPT ![s] = FALSE]
  /\ UNCHANGED <<mThreadsRun, queueVars, writer, numToWrite, binder, posting, produced, lastRead>>

AllSensorsDisabled ==
  /\ binder = "disable"
  /\ \A s \in Sensors : ~enabled[s]
  /\ binder' = "restart"
  /\ UNCHANGED <<mThreadsRun, queueVars, writer, numToWrite, posterVars, lastRead>>

(* The rest of initializeCommon: clear the queues, adopt the new FMQ and   *)
(* start the threads (the sub-HALs are already silent).                    *)
Restart ==
  /\ binder = "restart"
  /\ mPendingWriteEventsQueue' = <<>>
  /\ mSizePendingWriteEventsQueue' = 0
  /\ mEventQueue' = <<>>
  /\ mThreadsRun' = TRUE
  /\ writer' = "ready"
  /\ binder' = "idle"
  /\ UNCHANGED <<numToWrite, posterVars, lastRead>>

InitializeCommon ==
  \/ StopThreads \/ DrainEventQueue \/ NotifyThreads \/ JoinPendingWritesThread
  \/ (\E s \in Sensors : DisableSensor(s)) \/ AllSensorsDisabled \/ Restart

-----------------------------------------------------------------------------
Init ==
  /\ mThreadsRun = TRUE
  /\ mPendingWriteEventsQueue = <<>>
  /\ mSizePendingWriteEventsQueue = 0
  /\ mEventQueue = <<>>
  /\ writer = "none"
  /\ numToWrite = 0
  /\ binder = "uninitialized"
  /\ enabled = [s \in Sensors |-> FALSE]
  /\ posting = [p \in Posters |-> <<>>]
  /\ produced = [p \in Posters |-> 0]
  /\ lastRead = [p \in Posters |-> 0]

Next ==
  \/ \E s \in Sensors : SensorPosts(s)
  \/ BinderPosts
  \/ \E p \in Posters : PostEventsToMessageQueue(p)
  \/ WriterLoop
  \/ WriterSleeps
  \/ SpuriousWakeup
  \/ WriterWrites
  \/ WriterTimesOut
  \/ WriterErases
  \/ FrameworkReads
  \/ \E s \in Sensors, on \in BOOLEAN : Activate(s, on)
  \/ InitializeCommon

Spec == Init /\ [][Next]_vars

(* The threads that are not blocked run: the pending-writes thread, the    *)
(* binder thread inside initialize() and the posters inside a post.  The   *)
(* framework owes nothing, and no sensor has to produce an event.          *)
Fairness ==
  /\ WF_vars(Writer)
  /\ WF_vars(InitializeCommon /\ binder # "idle" /\ binder # "uninitialized")
  /\ \A p \in Posters : SF_vars(PostEventsToMessageQueue(p))

FairSpec == Spec /\ Fairness

-----------------------------------------------------------------------------
TypeOK ==
  /\ mThreadsRun \in BOOLEAN
  /\ mPendingWriteEventsQueue \in Seq(Batch)
  /\ mSizePendingWriteEventsQueue \in Int
  /\ mEventQueue \in Seq(Event)
  /\ Len(mEventQueue) <= QueueSize
  /\ writer \in {"none", "ready", "sleep", "waiting", "writing", "written", "done"}
  /\ numToWrite \in 0..QueueSize
  /\ binder \in {"uninitialized", "idle", "drain", "notify", "join", "disable", "restart"}
  /\ enabled \in [Sensors -> BOOLEAN]
  /\ posting \in [Posters -> Seq(Event)]
  /\ produced \in [Posters -> Nat]
  /\ lastRead \in [Posters -> Nat]

(* Two events of one poster, in the order in which it generated them.      *)
Before(e, f) == e.source = f.source => e.seq < f.seq

Ordered(s) == \A i, j \in DOMAIN s : i < j => Before(s[i], s[j])

AllBefore(s, t) == \A i \in DOMAIN s, j \in DOMAIN t : Before(s[i], t[j])

(* What the framework finds in the FMQ continues, for every poster, the    *)
(* order in which that poster generated its events: whatever mix of direct *)
(* writes, pending batches, partial writes, timeouts and restarts the      *)
(* events took (postEventsToMessageQueue, handlePendingWrites), none       *)
(* overtakes an earlier one and none is delivered twice.                   *)
DeliveredInOrder ==
  /\ Ordered(mEventQueue)
  /\ \A i \in DOMAIN mEventQueue :
       lastRead[mEventQueue[i].source] < mEventQueue[i].seq

(* "So that the pending write events queue can be cleared safely" (comment *)
(* in initializeCommon): when it is cleared and the FMQ replaced, without  *)
(* the mutex, no poster is inside the proxy and the thread has ended.      *)
ClearedSafely ==
  binder = "restart" => writer = "none" /\ \A p \in Posters : posting[p] = <<>>

(* A waiting pending-writes thread has nothing to write: a batch queued    *)
(* around its test of the predicate never misses the notification.         *)
NoMissedBatch ==
  writer \in {"sleep", "waiting"} => mPendingWriteEventsQueue = <<>>

(* The counter that bounds the pending queue counts the events it holds    *)
(* and stays within the bound: every path that queues, writes, drops or    *)
(* clears a batch keeps them together.                                     *)
PendingSlots ==
  UNION {{b} \X DOMAIN mPendingWriteEventsQueue[b].first : b \in DOMAIN mPendingWriteEventsQueue}

PendingSizeExact ==
  /\ mSizePendingWriteEventsQueue = Cardinality(PendingSlots)
  /\ mSizePendingWriteEventsQueue <= MaxPending

(* An event that waits in the pending queue does not stay there while the  *)
(* threads run: it is written, or dropped after the timeout.               *)
Queued(p, n) ==
  \E b \in DOMAIN mPendingWriteEventsQueue :
    \E i \in DOMAIN mPendingWriteEventsQueue[b].first :
      mPendingWriteEventsQueue[b].first[i] = [source |-> p, seq |-> n]

PendingEventsLeave ==
  \A p \in Posters, n \in 1..MaxSeq : Queued(p, n) ~> ~Queued(p, n) \/ ~mThreadsRun

(* "Stops all threads by setting the threads running flag to false and     *)
(* joining to them." (HalProxy.h, stopThreads): the join returns.          *)
ThreadsStop == binder = "join" ~> binder = "disable"

-----------------------------------------------------------------------------
(* The proxy implements a lossy stream that keeps each poster's order.     *)

(* What of a pending batch is still to be written: between the write and   *)
(* the erase the front batch still holds events that are already out.      *)
Unwritten(b) ==
  LET events == mPendingWriteEventsQueue[b].first
  IN IF b = 1 /\ writer = "written" THEN SubSeq(events, numToWrite + 1, Len(events)) ELSE events

ElementsOf(s) == {s[i] : i \in DOMAIN s}

InTransit ==
  ElementsOf(mEventQueue)
    \union (UNION {ElementsOf(Unwritten(b)) : b \in DOMAIN mPendingWriteEventsQueue})
    \union (UNION {ElementsOf(posting[p]) : p \in Posters})

Stream == INSTANCE EventStream WITH inTransit <- InTransit

(* Every step of the proxy produces, loses or delivers events in order.    *)
StreamSpec == Stream!Spec

-----------------------------------------------------------------------------
(* The inductive invariant behind these properties.                        *)

(* Who may be where while initialize() is under way.                       *)
Lifecycle ==
  /\ mThreadsRun => binder \in {"uninitialized", "idle"}
  /\ binder = "idle" => mThreadsRun /\ writer # "none"
  /\ binder = "uninitialized" => writer = "none"
  /\ binder \in {"disable", "restart"} => writer = "none"
  /\ binder \in {"uninitialized", "restart"} => \A s \in Sensors : ~enabled[s]
  /\ \A s \in Sensors : posting[s] # <<>> => enabled[s]
  /\ posting[Binder] # <<>> => binder = "idle"

(* The thread's reference to the front batch and its numToWrite stay valid *)
(* while it writes without the mutex; a thread that waits has no work.     *)
WriterHoldsFront ==
  /\ NoMissedBatch
  /\ writer \in {"writing", "written"} =>
       /\ mPendingWriteEventsQueue # <<>>
       /\ numToWrite = SmallerOf(Len(FrontBatch.first), QueueSize)

Fresh(s) == \A i \in DOMAIN s : lastRead[s[i].source] < s[i].seq

Generated(s) == \A i \in DOMAIN s : s[i].seq <= produced[s[i].source]

(* Every event on its way is behind those ahead of it in the FMQ, in the   *)
(* pending batches and in its poster's hands.                              *)
FmqOrder ==
  /\ Ordered(mEventQueue) /\ Fresh(mEventQueue) /\ Generated(mEventQueue)
  /\ \A b \in DOMAIN mPendingWriteEventsQueue : AllBefore(mEventQueue, Unwritten(b))
  /\ \A p \in Posters : AllBefore(mEventQueue, posting[p])
  /\ \A p \in Posters : lastRead[p] <= produced[p]

PendingOrder ==
  /\ \A b \in DOMAIN mPendingWriteEventsQueue :
       /\ Ordered(mPendingWriteEventsQueue[b].first)
       /\ Generated(mPendingWriteEventsQueue[b].first)
       /\ Fresh(Unwritten(b))
       /\ \A p \in Posters : AllBefore(mPendingWriteEventsQueue[b].first, posting[p])
  /\ \A b, c \in DOMAIN mPendingWriteEventsQueue :
       b < c => AllBefore(mPendingWriteEventsQueue[b].first, mPendingWriteEventsQueue[c].first)

PostingOrder ==
  \A p \in Posters :
    /\ Ordered(posting[p]) /\ Fresh(posting[p]) /\ Generated(posting[p])
    /\ \A i \in DOMAIN posting[p] : posting[p][i].source = p

EventsInv ==
  /\ TypeOK
  /\ Lifecycle
  /\ WriterHoldsFront
  /\ FmqOrder
  /\ PendingOrder
  /\ PostingOrder
=============================================================================
