-------------------------- MODULE HalProxyProofs --------------------------
(***************************************************************************)
(* Proofs about HalProxyEvents and HalProxyWakelock, for any number of     *)
(* sensors and posters, queue sizes, batches and timeouts: first the event *)
(* path, then the wake lock composed with it.                              *)
(***************************************************************************)
EXTENDS HalProxyWakelock, FiniteSetTheorems, TLAPS

(* Sequences and the orders on them.                                       *)

LEMMA ConcatElement ==
  ASSUME NEW S, NEW s \in Seq(S), NEW t \in Seq(S), NEW i \in DOMAIN (s \o t)
  PROVE  \/ i \in DOMAIN s /\ (s \o t)[i] = s[i]
         \/ /\ i - Len(s) \in DOMAIN t /\ i > Len(s)
            /\ (s \o t)[i] = t[i - Len(s)]
OBVIOUS

LEMMA PrefixElement ==
  ASSUME NEW S, NEW s \in Seq(S), NEW n \in 0..Len(s), NEW i \in DOMAIN SubSeq(s, 1, n)
  PROVE  /\ SubSeq(s, 1, n) \in Seq(S)
         /\ i \in DOMAIN s /\ i <= n /\ SubSeq(s, 1, n)[i] = s[i]
OBVIOUS

LEMMA SuffixElement ==
  ASSUME NEW S, NEW s \in Seq(S), NEW n \in 0..Len(s), NEW i \in DOMAIN SubSeq(s, n + 1, Len(s))
  PROVE  /\ SubSeq(s, n + 1, Len(s)) \in Seq(S)
         /\ i + n \in DOMAIN s /\ i + n > n /\ SubSeq(s, n + 1, Len(s))[i] = s[i + n]
OBVIOUS

LEMMA TailElement ==
  ASSUME NEW S, NEW s \in Seq(S), s # <<>>, NEW i \in DOMAIN Tail(s)
  PROVE  /\ Tail(s) \in Seq(S) /\ i + 1 \in DOMAIN s /\ Tail(s)[i] = s[i + 1]
OBVIOUS

LEMMA ReplacedElement ==
  ASSUME NEW S, NEW s \in Seq(S), NEW i \in DOMAIN s, NEW x \in S
  PROVE  /\ [s EXCEPT ![i] = x] \in Seq(S)
         /\ DOMAIN [s EXCEPT ![i] = x] = DOMAIN s
         /\ [s EXCEPT ![i] = x][i] = x
         /\ \A j \in DOMAIN s \ {i} : [s EXCEPT ![i] = x][j] = s[j]
OBVIOUS

LEMMA OrderedConcat ==
  ASSUME NEW s \in Seq(Event), NEW t \in Seq(Event), Ordered(s), Ordered(t), AllBefore(s, t)
  PROVE  Ordered(s \o t)
<1> SUFFICES ASSUME NEW i \in DOMAIN (s \o t), NEW j \in DOMAIN (s \o t), i < j
             PROVE  Before((s \o t)[i], (s \o t)[j])
  BY DEF Ordered
<1> DOMAIN s \subseteq Int /\ DOMAIN t \subseteq Int /\ i \in Int /\ j \in Int /\ Len(s) \in Nat
  OBVIOUS
<1>1. CASE i \in DOMAIN s /\ (s \o t)[i] = s[i]
  <2>1. CASE j \in DOMAIN s /\ (s \o t)[j] = s[j]
    BY <1>1, <2>1 DEF Ordered
  <2>2. CASE j - Len(s) \in DOMAIN t /\ (s \o t)[j] = t[j - Len(s)]
    BY <1>1, <2>2 DEF AllBefore
  <2> QED BY <2>1, <2>2, ConcatElement
<1>2. CASE i - Len(s) \in DOMAIN t /\ i > Len(s) /\ (s \o t)[i] = t[i - Len(s)]
  <2>1. j - Len(s) \in DOMAIN t /\ (s \o t)[j] = t[j - Len(s)]
    BY <1>2, ConcatElement
  <2> QED BY <1>2, <2>1 DEF Ordered
<1> QED BY <1>1, <1>2, ConcatElement

LEMMA AllBeforeConcat ==
  ASSUME NEW s \in Seq(Event), NEW t \in Seq(Event), NEW u \in Seq(Event)
  PROVE  /\ AllBefore(s, u) /\ AllBefore(t, u) => AllBefore(s \o t, u)
         /\ AllBefore(u, s) /\ AllBefore(u, t) => AllBefore(u, s \o t)
BY ConcatElement DEF AllBefore

LEMMA OrderedParts ==
  ASSUME NEW s \in Seq(Event), Ordered(s), NEW n \in 0..Len(s)
  PROVE  /\ Ordered(SubSeq(s, 1, n))
         /\ Ordered(SubSeq(s, n + 1, Len(s)))
         /\ AllBefore(SubSeq(s, 1, n), SubSeq(s, n + 1, Len(s)))
<1> DEFINE a == SubSeq(s, 1, n)
           b == SubSeq(s, n + 1, Len(s))
<1>a. \A i \in DOMAIN a : i \in Int /\ i \in DOMAIN s /\ i <= n /\ a[i] = s[i]
  BY PrefixElement
<1>b. \A i \in DOMAIN b : i \in Int /\ i + n \in DOMAIN s /\ i + n > n /\ b[i] = s[i + n]
  BY SuffixElement
<1> HIDE DEF a, b
<1>1. Ordered(a) BY <1>a DEF Ordered
<1>2. Ordered(b) BY <1>b DEF Ordered
<1>3. AllBefore(a, b) BY <1>a, <1>b DEF Ordered, AllBefore
<1> QED BY <1>1, <1>2, <1>3 DEF a, b

LEMMA AllBeforeParts ==
  ASSUME NEW s \in Seq(Event), NEW t \in Seq(Event), NEW n \in 0..Len(s)
  PROVE  /\ AllBefore(s, t) => /\ AllBefore(SubSeq(s, 1, n), t)
                               /\ AllBefore(SubSeq(s, n + 1, Len(s)), t)
         /\ AllBefore(t, s) => /\ AllBefore(t, SubSeq(s, 1, n))
                               /\ AllBefore(t, SubSeq(s, n + 1, Len(s)))
BY PrefixElement, SuffixElement DEF AllBefore

LEMMA FreshParts ==
  ASSUME NEW s \in Seq(Event), NEW n \in 0..Len(s)
  PROVE  /\ Fresh(s) => Fresh(SubSeq(s, 1, n)) /\ Fresh(SubSeq(s, n + 1, Len(s)))
         /\ Generated(s) => Generated(SubSeq(s, 1, n)) /\ Generated(SubSeq(s, n + 1, Len(s)))
BY PrefixElement, SuffixElement DEF Fresh, Generated

LEMMA FreshConcat ==
  ASSUME NEW s \in Seq(Event), NEW t \in Seq(Event)
  PROVE  /\ Fresh(s) /\ Fresh(t) => Fresh(s \o t)
         /\ Generated(s) /\ Generated(t) => Generated(s \o t)
BY ConcatElement DEF Fresh, Generated

-----------------------------------------------------------------------------
(* The invariant holds initially and every step keeps it.                  *)

LEMMA InitInv == Init => EventsInv
BY EventsAssumption
   DEF Init, EventsInv, TypeOK, Lifecycle, WriterHoldsFront, NoMissedBatch, FmqOrder, PendingOrder,
       PostingOrder, Ordered, Fresh, Generated, AllBefore, Posters, Batch

(* The sizes and types that a step's local expressions rest on.            *)
LEMMA BatchTypes ==
  ASSUME TypeOK, NEW b \in DOMAIN mPendingWriteEventsQueue
  PROVE  /\ mPendingWriteEventsQueue[b] \in Batch
         /\ mPendingWriteEventsQueue[b].first \in Seq(Event)
         /\ mPendingWriteEventsQueue[b].second \in Nat
         /\ Len(mPendingWriteEventsQueue[b].first) \in Nat
<1>1. mPendingWriteEventsQueue[b] \in Batch
  BY DEF TypeOK
<1> QED BY <1>1 DEF Batch

LEMMA WakeupCount ==
  ASSUME NEW events \in Seq(Event)
  PROVE  NumWakeupEvents(events) \in Nat
<1>1. IsFiniteSet(1..Len(events))
  BY FS_Interval
<1>2. {i \in DOMAIN events : events[i].source \in WakeupSources} \subseteq 1..Len(events)
  OBVIOUS
<1> QED BY <1>1, <1>2, FS_Subset, FS_CardinalityType DEF NumWakeupEvents

LEMMA TypeStep == EventsInv /\ [Next]_vars => TypeOK'
<1> SUFFICES ASSUME EventsInv, [Next]_vars PROVE TypeOK'
  OBVIOUS
<1> USE EventsAssumption DEF EventsInv, TypeOK, queueVars, posterVars
<1>1. ASSUME NEW s \in Sensors, SensorPosts(s) PROVE TypeOK'
  <2> PICK n \in 1..MaxBatch : BeginPost(s, n)
    BY <1>1 DEF SensorPosts
  <2> s \in Posters /\ n \in Nat
    BY DEF Posters
  <2> NewEvents(s, n) \in Seq(Event)
    BY DEF NewEvents, Event
  <2> QED BY DEF BeginPost
<1>2. CASE BinderPosts
  <2> PICK n \in 1..MaxBatch : BeginPost(Binder, n)
    BY <1>2 DEF BinderPosts
  <2> Binder \in Posters /\ n \in Nat
    BY DEF Posters
  <2> NewEvents(Binder, n) \in Seq(Event)
    BY DEF NewEvents, Event
  <2> QED BY <1>2 DEF BinderPosts, BeginPost
<1>3. ASSUME NEW p \in Posters, PostEventsToMessageQueue(p) PROVE TypeOK'
  <2> DEFINE events == posting[p]
             n == IF mPendingWriteEventsQueue = <<>>
                  THEN SmallerOf(Len(events), QueueSize - Len(mEventQueue)) ELSE 0
             left == [first |-> SubSeq(events, n + 1, Len(events)), second |-> NumWakeupEvents(events)]
  <2>1. events \in Seq(Event) /\ Len(events) \in Nat /\ n \in 0..Len(events)
    BY DEF SmallerOf
  <2>2. n + Len(mEventQueue) <= QueueSize
    BY DEF SmallerOf
  <2>3. left \in Batch
    <3>1. SubSeq(events, n + 1, Len(events)) \in Seq(Event)
      BY <2>1
    <3> QED BY <2>1, <3>1, WakeupCount DEF Batch
  <2>4. mEventQueue \o SubSeq(events, 1, n) \in Seq(Event)
        /\ Len(mEventQueue \o SubSeq(events, 1, n)) = n + Len(mEventQueue)
    BY <2>1
  <2>5. /\ mEventQueue' = mEventQueue \o SubSeq(events, 1, n)
        /\ mPendingWriteEventsQueue' \in {mPendingWriteEventsQueue, Append(mPendingWriteEventsQueue, left)}
        /\ mSizePendingWriteEventsQueue' \in
             {mSizePendingWriteEventsQueue + 0, mSizePendingWriteEventsQueue + (Len(events) - n)}
        /\ writer' \in {writer, "ready"}
        /\ posting' = [posting EXCEPT ![p] = <<>>]
        /\ UNCHANGED <<mThreadsRun, numToWrite, binder, enabled, produced, lastRead>>
    BY <1>3 DEF PostEventsToMessageQueue, NumWrittenNow, AvailableToWrite, FitsPending, NotifyWriter
  <2> HIDE DEF n, left, events
  <2>6. mPendingWriteEventsQueue' \in Seq(Batch)
    <3>1. mPendingWriteEventsQueue \in Seq(Batch)
      OBVIOUS
    <3>2. Append(mPendingWriteEventsQueue, left) \in Seq(Batch)
      BY <3>1, <2>3
    <3> QED BY <3>1, <3>2, <2>5
  <2>7. mSizePendingWriteEventsQueue' \in Int
    BY <2>1, <2>5
  <2>8. mEventQueue' \in Seq(Event) /\ Len(mEventQueue') <= QueueSize
    BY <2>2, <2>4, <2>5
  <2>9. posting' \in [Posters -> Seq(Event)]
    BY <2>5
  <2>10. writer' \in {"none", "ready", "sleep", "waiting", "writing", "written", "done"}
    BY <2>5
  <2> QED BY <2>5, <2>6, <2>7, <2>8, <2>9, <2>10
<1>4. CASE WriterLoop
  <2>1. CASE numToWrite' = numToWrite
    BY <1>4, <2>1 DEF WriterLoop
  <2>2. CASE mPendingWriteEventsQueue # <<>> /\ numToWrite' = SmallerOf(Len(FrontBatch.first), QueueSize)
    <3>1. Len(FrontBatch.first) \in Nat
      BY <2>2, BatchTypes DEF FrontBatch
    <3>2. numToWrite' \in 0..QueueSize
      BY <2>2, <3>1 DEF SmallerOf
    <3> QED BY <1>4, <3>2 DEF WriterLoop
  <2> QED BY <1>4, <2>1, <2>2 DEF WriterLoop
<1>5. CASE WriterSleeps \/ SpuriousWakeup \/ WriterTimesOut
  BY <1>5 DEF WriterSleeps, SpuriousWakeup, WriterTimesOut
<1>6. CASE WriterWrites
  <2>1. /\ mPendingWriteEventsQueue # <<>>
        /\ numToWrite = SmallerOf(Len(FrontBatch.first), QueueSize)
    BY <1>6 DEF WriterWrites, WriterHoldsFront
  <2>2. FrontBatch.first \in Seq(Event) /\ numToWrite \in 0..Len(FrontBatch.first)
    BY <2>1, BatchTypes DEF FrontBatch, SmallerOf
  <2>3. mEventQueue \o SubSeq(FrontBatch.first, 1, numToWrite) \in Seq(Event)
        /\ Len(mEventQueue \o SubSeq(FrontBatch.first, 1, numToWrite)) = Len(mEventQueue) + numToWrite
    BY <2>2
  <2> QED BY <1>6, <2>3 DEF WriterWrites
<1>7. CASE WriterErases
  <2>1. mPendingWriteEventsQueue # <<>>
    BY <1>7 DEF WriterErases, EraseWritten, WriterHoldsFront
  <2>2. Tail(mPendingWriteEventsQueue) \in Seq(Batch)
    BY <2>1
  <2>3. ASSUME Len(FrontBatch.first) > QueueSize
        PROVE  mPendingWriteEventsQueue' \in Seq(Batch)
    <3> DEFINE rest == [first |-> SubSeq(FrontBatch.first, QueueSize + 1, Len(FrontBatch.first)),
                        second |-> FrontBatch.second]
    <3>1. /\ FrontBatch = mPendingWriteEventsQueue[1]
          /\ FrontBatch.first \in Seq(Event) /\ FrontBatch.second \in Nat
      BY <2>1, BatchTypes DEF FrontBatch
    <3>2. rest \in Batch
      BY <3>1 DEF Batch
    <3>3. mPendingWriteEventsQueue' = [mPendingWriteEventsQueue EXCEPT ![1] = rest]
      BY <1>7, <2>3, <3>1 DEF WriterErases, EraseWritten
    <3>4. mPendingWriteEventsQueue \in Seq(Batch) /\ 1 \in DOMAIN mPendingWriteEventsQueue
      BY <2>1
    <3> HIDE DEF rest
    <3>5. [mPendingWriteEventsQueue EXCEPT ![1] = rest] \in Seq(Batch)
      BY <3>2, <3>4, ReplacedElement
    <3> QED BY <3>3, <3>5
  <2>5. ~ (Len(FrontBatch.first) > QueueSize) => mPendingWriteEventsQueue' = Tail(mPendingWriteEventsQueue)
    BY <1>7, Zenon DEF WriterErases
  <2>4. mPendingWriteEventsQueue' \in Seq(Batch)
    BY <2>2, <2>3, <2>5, Zenon
  <2>6. /\ mSizePendingWriteEventsQueue' = mSizePendingWriteEventsQueue - numToWrite
        /\ writer' = "ready"
        /\ UNCHANGED <<mThreadsRun, mEventQueue, numToWrite, binder, posterVars, lastRead>>
    BY <1>7, Zenon DEF WriterErases
  <2> QED BY <2>4, <2>6
<1>8. CASE FrameworkReads
  <2>1. Head(mEventQueue) \in Event /\ Tail(mEventQueue) \in Seq(Event)
        /\ Len(Tail(mEventQueue)) <= QueueSize
    BY <1>8 DEF FrameworkReads
  <2> QED BY <1>8, <2>1 DEF FrameworkReads, Event
<1>9. ASSUME NEW s \in Sensors, NEW on \in BOOLEAN, Activate(s, on) PROVE TypeOK'
  BY <1>9 DEF Activate
<1>10. CASE InitializeCommon
  <2>1. CASE StopThreads BY <2>1 DEF StopThreads
  <2>2. CASE DrainEventQueue BY <2>2 DEF DrainEventQueue
  <2>3. CASE NotifyThreads BY <2>3 DEF NotifyThreads, NotifyWriter
  <2>4. CASE JoinPendingWritesThread BY <2>4 DEF JoinPendingWritesThread
  <2>5. ASSUME NEW s \in Sensors, DisableSensor(s) PROVE TypeOK' BY <2>5 DEF DisableSensor
  <2>6. CASE AllSensorsDisabled BY <2>6 DEF AllSensorsDisabled
  <2>7. CASE Restart BY <2>7 DEF Restart
  <2> QED BY <1>10, <2>1, <2>2, <2>3, <2>4, <2>5, <2>6, <2>7 DEF InitializeCommon
<1>11. CASE UNCHANGED vars
  BY <1>11 DEF vars
<1> QED BY <1>1, <1>2, <1>3, <1>4, <1>5, <1>6, <1>7, <1>8, <1>9, <1>10, <1>11 DEF Next

LEMMA LifecycleStep == EventsInv /\ [Next]_vars => Lifecycle' /\ WriterHoldsFront'
<1> SUFFICES ASSUME EventsInv, [Next]_vars PROVE Lifecycle' /\ WriterHoldsFront'
  OBVIOUS
<1> USE EventsAssumption DEF EventsInv, TypeOK, queueVars, posterVars, Lifecycle, WriterHoldsFront,
        NoMissedBatch, FrontBatch
<1>1. ASSUME NEW s \in Sensors, SensorPosts(s) PROVE Lifecycle' /\ WriterHoldsFront'
  BY <1>1 DEF SensorPosts, BeginPost, Posters
<1>2. CASE BinderPosts
  BY <1>2 DEF BinderPosts, BeginPost, Posters
<1>3. ASSUME NEW p \in Posters, PostEventsToMessageQueue(p)
      PROVE  Lifecycle' /\ WriterHoldsFront'
  <2>1. Lifecycle'
    BY <1>3 DEF PostEventsToMessageQueue, NumWrittenNow, AvailableToWrite, FitsPending, NotifyWriter, Posters
  <2>2. CASE mPendingWriteEventsQueue' = mPendingWriteEventsQueue
    BY <1>3, <2>2 DEF PostEventsToMessageQueue, NumWrittenNow, AvailableToWrite, FitsPending, NotifyWriter, QueueMutexFree
  <2>3. ASSUME NEW x, mPendingWriteEventsQueue' = Append(mPendingWriteEventsQueue, x),
               writer' = NotifyWriter(writer)
        PROVE  WriterHoldsFront'
    <3>1. writer' \notin {"sleep", "waiting"}
      BY <1>3, <2>3 DEF PostEventsToMessageQueue, NumWrittenNow, AvailableToWrite, FitsPending, NotifyWriter, QueueMutexFree
    <3>2. writer' \in {"writing", "written"} => writer' = writer
      BY <2>3 DEF NotifyWriter
    <3>3. mPendingWriteEventsQueue' # <<>>
      BY <2>3
    <3>4. mPendingWriteEventsQueue # <<>> => Head(mPendingWriteEventsQueue') = Head(mPendingWriteEventsQueue)
      BY <2>3
    <3>5. numToWrite' = numToWrite
      BY <1>3 DEF PostEventsToMessageQueue, NumWrittenNow, AvailableToWrite, FitsPending
    <3> QED BY <3>1, <3>2, <3>3, <3>4, <3>5
  <2> QED BY <1>3, <2>1, <2>2, <2>3 DEF PostEventsToMessageQueue, NumWrittenNow, AvailableToWrite, FitsPending
<1>4. CASE WriterLoop
  BY <1>4 DEF WriterLoop
<1>5. CASE WriterSleeps \/ SpuriousWakeup
  BY <1>5 DEF WriterSleeps, SpuriousWakeup
<1>6. CASE WriterWrites \/ WriterTimesOut
  BY <1>6 DEF WriterWrites, WriterTimesOut
<1>7. CASE WriterErases
  BY <1>7 DEF WriterErases, EraseWritten
<1>8. CASE FrameworkReads
  BY <1>8 DEF FrameworkReads
<1>9. ASSUME NEW s \in Sensors, NEW on \in BOOLEAN, Activate(s, on)
      PROVE  Lifecycle' /\ WriterHoldsFront'
  BY <1>9 DEF Activate, BinderFree, Posters
<1>10. CASE InitializeCommon
  <2>1. CASE StopThreads BY <2>1 DEF StopThreads, BinderFree
  <2>2. CASE DrainEventQueue BY <2>2 DEF DrainEventQueue
  <2>3. CASE NotifyThreads BY <2>3 DEF NotifyThreads, NotifyWriter
  <2>4. CASE JoinPendingWritesThread BY <2>4 DEF JoinPendingWritesThread
  <2>5. ASSUME NEW s \in Sensors, DisableSensor(s) PROVE Lifecycle' /\ WriterHoldsFront'
    BY <2>5 DEF DisableSensor
  <2>6. CASE AllSensorsDisabled BY <2>6 DEF AllSensorsDisabled
  <2>7. CASE Restart BY <2>7 DEF Restart
  <2> QED BY <1>10, <2>1, <2>2, <2>3, <2>4, <2>5, <2>6, <2>7 DEF InitializeCommon
<1>11. CASE UNCHANGED vars
  BY <1>11 DEF vars
<1> QED BY <1>1, <1>2, <1>3, <1>4, <1>5, <1>6, <1>7, <1>8, <1>9, <1>10, <1>11 DEF Next

OrderInv == FmqOrder /\ PendingOrder /\ PostingOrder

(* Steps that move no event: the order of the queues is as it was.         *)
LEMMA OrderUnchanged ==
  ASSUME OrderInv,
         UNCHANGED <<mPendingWriteEventsQueue, mEventQueue, posting, produced, lastRead>>,
         writer' = "written" <=> writer = "written",
         writer = "written" => numToWrite' = numToWrite
  PROVE  OrderInv'
<1>1. \A b \in DOMAIN mPendingWriteEventsQueue : Unwritten(b)' = Unwritten(b)
  BY DEF Unwritten
<1>2. FmqOrder'
  BY <1>1 DEF OrderInv, FmqOrder, Ordered, Fresh, Generated, AllBefore
<1>3. PendingOrder'
  BY <1>1 DEF OrderInv, PendingOrder, Ordered, Fresh, Generated, AllBefore
<1>4. PostingOrder'
  BY DEF OrderInv, PostingOrder, Ordered, Fresh, Generated, AllBefore
<1> QED BY <1>2, <1>3, <1>4 DEF OrderInv

LEMMA EventElement ==
  ASSUME NEW s \in Seq(Event), NEW i \in DOMAIN s
  PROVE  s[i] \in Event /\ s[i].source \in Posters /\ s[i].seq \in Nat
<1>1. s[i] \in Event
  OBVIOUS
<1> QED BY <1>1 DEF Event

(* New events are later than all that their poster generated before.       *)
LEMMA BeginPostOrder ==
  ASSUME TypeOK, OrderInv, NEW p \in Posters, NEW n \in 1..MaxBatch, BeginPost(p, n)
  PROVE  OrderInv'
<1> USE EventsAssumption DEF TypeOK, OrderInv, queueVars
<1> n \in Nat
  OBVIOUS
<1>1. UNCHANGED <<mPendingWriteEventsQueue, mEventQueue, writer, numToWrite, lastRead>>
  BY DEF BeginPost
<1>2. \A b \in DOMAIN mPendingWriteEventsQueue : Unwritten(b)' = Unwritten(b)
  BY <1>1 DEF Unwritten
<1>3. \A q \in Posters : produced'[q] \in Nat /\ produced[q] <= produced'[q]
  BY DEF BeginPost
<1>4. \A q \in Posters \ {p} : posting'[q] = posting[q]
  BY DEF BeginPost
<1>5. /\ posting'[p] \in Seq(Event)
      /\ \A i \in DOMAIN posting'[p] :
           /\ i \in Nat \ {0} /\ posting'[p][i].source = p
           /\ posting'[p][i].seq = produced[p] + i
           /\ produced[p] + i <= produced'[p]
  <2>1. NewEvents(p, n) \in Seq(Event)
    BY DEF NewEvents, Event
  <2>2. posting'[p] \in {<<>>, NewEvents(p, n)} /\ produced'[p] = produced[p] + n
    BY DEF BeginPost
  <2>3. DOMAIN NewEvents(p, n) = 1..n
        /\ \A i \in 1..n : NewEvents(p, n)[i] = [source |-> p, seq |-> produced[p] + i]
    BY DEF NewEvents
  <2>4. produced[p] \in Nat
    OBVIOUS
  <2>5. CASE posting'[p] = <<>>
    BY <2>5
  <2>6. CASE posting'[p] = NewEvents(p, n)
    BY <2>1, <2>2, <2>3, <2>4, <2>6
  <2> QED BY <2>2, <2>5, <2>6
<1>6. \A s \in Seq(Event) : Generated(s) =>
        /\ \A i \in DOMAIN s : s[i].seq <= produced'[s[i].source]
        /\ AllBefore(s, posting'[p])
  <2> SUFFICES ASSUME NEW s \in Seq(Event), Generated(s)
               PROVE  /\ \A i \in DOMAIN s : s[i].seq <= produced'[s[i].source]
                      /\ AllBefore(s, posting'[p])
    OBVIOUS
  <2>1. \A i \in DOMAIN s : s[i].source \in Posters /\ s[i].seq \in Nat
    BY EventElement
  <2>2. \A i \in DOMAIN s : s[i].seq <= produced'[s[i].source]
    BY <1>3, <2>1 DEF Generated
  <2>3. AllBefore(s, posting'[p])
    <3> SUFFICES ASSUME NEW i \in DOMAIN s, NEW j \in DOMAIN posting'[p], s[i].source = p
                 PROVE  s[i].seq < posting'[p][j].seq
      BY <1>5 DEF AllBefore, Before
    <3>1. s[i].seq <= produced[p] /\ s[i].seq \in Nat /\ produced[p] \in Nat /\ j \in Nat \ {0}
      BY <1>5, <2>1 DEF Generated
    <3> QED BY <1>5, <3>1
  <2> QED BY <2>2, <2>3
<1>7. FmqOrder'
  <2>1. Generated(mEventQueue)' /\ AllBefore(mEventQueue, posting'[p])
    BY <1>1, <1>6 DEF FmqOrder, Generated
  <2>2. \A q \in Posters : AllBefore(mEventQueue, posting[q])'
    BY <1>1, <1>4, <2>1 DEF FmqOrder, AllBefore
  <2>3. \A q \in Posters : lastRead'[q] <= produced'[q]
    <3> SUFFICES ASSUME NEW q \in Posters PROVE lastRead[q] <= produced'[q]
      BY <1>1
    <3>1. lastRead[q] \in Nat /\ produced[q] \in Nat /\ lastRead[q] <= produced[q]
      BY DEF FmqOrder
    <3> QED BY <1>3, <3>1
  <2>4. \A b \in DOMAIN mPendingWriteEventsQueue' : AllBefore(mEventQueue, Unwritten(b))'
    BY <1>1, <1>2 DEF FmqOrder, AllBefore
  <2> QED BY <1>1, <2>1, <2>2, <2>3, <2>4 DEF FmqOrder, Ordered, Fresh
<1>8. PendingOrder'
  <2> SUFFICES ASSUME NEW b \in DOMAIN mPendingWriteEventsQueue
               PROVE  /\ Generated(mPendingWriteEventsQueue[b].first)'
                      /\ \A q \in Posters : AllBefore(mPendingWriteEventsQueue[b].first, posting'[q])
    BY <1>1, <1>2 DEF PendingOrder, Ordered, Fresh, AllBefore
  <2>1. mPendingWriteEventsQueue[b].first \in Seq(Event)
    BY BatchTypes
  <2> QED BY <1>1, <1>4, <1>6, <2>1 DEF PendingOrder, Generated
<1>9. PostingOrder'
  <2>1. ASSUME NEW q \in Posters \ {p}
        PROVE  /\ Ordered(posting[q])' /\ Fresh(posting[q])' /\ Generated(posting[q])'
               /\ \A i \in DOMAIN posting'[q] : posting'[q][i].source = q
    BY <1>1, <1>4, <1>6, <2>1 DEF PostingOrder, Ordered, Fresh, Generated
  <2>2. Ordered(posting[p])'
    BY <1>5 DEF Ordered, Before
  <2>3. Fresh(posting[p])'
    BY <1>1, <1>5 DEF Fresh, FmqOrder
  <2>4. Generated(posting[p])'
    BY <1>5 DEF Generated
  <2> QED BY <1>5, <2>1, <2>2, <2>3, <2>4 DEF PostingOrder
<1> QED BY <1>7, <1>8, <1>9

(* The events of a post follow the FMQ when nothing is pending, and the    *)
(* last pending batch otherwise.                                           *)
LEMMA PostOrder ==
  ASSUME EventsInv, NEW p \in Posters, PostEventsToMessageQueue(p)
  PROVE  OrderInv'
<1> USE EventsAssumption DEF EventsInv, TypeOK
<1> DEFINE events == posting[p]
           n == IF mPendingWriteEventsQueue = <<>>
                THEN SmallerOf(Len(events), QueueSize - Len(mEventQueue)) ELSE 0
           out == SubSeq(events, 1, n)
           rest == SubSeq(events, n + 1, Len(events))
           left == [first |-> rest, second |-> NumWakeupEvents(events)]
           K == Len(mPendingWriteEventsQueue)
<1>1. events \in Seq(Event) /\ n \in 0..Len(events) /\ n \in Nat
  BY DEF SmallerOf
<1>2. /\ mEventQueue' = mEventQueue \o out
      /\ mPendingWriteEventsQueue' \in {mPendingWriteEventsQueue, Append(mPendingWriteEventsQueue, left)}
      /\ posting' = [posting EXCEPT ![p] = <<>>]
      /\ UNCHANGED <<numToWrite, produced, lastRead>>
      /\ writer' = "written" <=> writer = "written"
  BY DEF PostEventsToMessageQueue, NumWrittenNow, AvailableToWrite, FitsPending, NotifyWriter, QueueMutexFree
<1>3. /\ out \in Seq(Event) /\ rest \in Seq(Event)
      /\ mPendingWriteEventsQueue # <<>> => out = <<>>
  BY <1>1
<1>4. /\ Ordered(events) /\ Fresh(events) /\ Generated(events) /\ AllBefore(mEventQueue, events)
      /\ Ordered(mEventQueue) /\ Fresh(mEventQueue) /\ Generated(mEventQueue)
  BY DEF PostingOrder, FmqOrder
<1>5. \A q \in Posters \ {p} : posting[q] \in Seq(Event) /\ AllBefore(events, posting[q])
  <2> SUFFICES ASSUME NEW q \in Posters \ {p}
               PROVE  AllBefore(events, posting[q])
    OBVIOUS
  <2>1. /\ \A i \in DOMAIN events : events[i].source = p
        /\ \A i \in DOMAIN posting[q] : posting[q][i].source = q
    BY DEF PostingOrder
  <2> QED BY <2>1 DEF AllBefore, Before
<1>6. /\ Ordered(out) /\ Fresh(out) /\ Generated(out)
      /\ Ordered(rest) /\ Fresh(rest) /\ Generated(rest)
      /\ AllBefore(out, rest)
      /\ AllBefore(mEventQueue, out) /\ AllBefore(mEventQueue, rest)
      /\ \A q \in Posters \ {p} : AllBefore(out, posting[q]) /\ AllBefore(rest, posting[q])
  BY <1>1, <1>4, <1>5, OrderedParts, AllBeforeParts, FreshParts
<1> DEFINE newQueue == mEventQueue \o out
<1>7. newQueue \in Seq(Event) /\ Ordered(newQueue) /\ Fresh(newQueue) /\ Generated(newQueue)
  <2> HIDE DEF out
  <2>1. Ordered(newQueue)
    BY <1>3, <1>4, <1>6, OrderedConcat
  <2>2. Fresh(newQueue) /\ Generated(newQueue)
    BY <1>3, <1>4, <1>6, FreshConcat
  <2> QED BY <1>3, <2>1, <2>2
<1>8. \A q \in Posters \ {p} : AllBefore(newQueue, posting[q])
  BY <1>3, <1>5, <1>6, AllBeforeConcat DEF FmqOrder
<1>9. AllBefore(newQueue, rest)
  BY <1>3, <1>6, AllBeforeConcat
<1>10. \A b \in DOMAIN mPendingWriteEventsQueue :
         /\ mPendingWriteEventsQueue'[b] = mPendingWriteEventsQueue[b]
         /\ Unwritten(b)' = Unwritten(b)
         /\ newQueue = mEventQueue
         /\ AllBefore(mPendingWriteEventsQueue[b].first, rest)
  <2> SUFFICES ASSUME NEW b \in DOMAIN mPendingWriteEventsQueue
               PROVE  /\ mPendingWriteEventsQueue'[b] = mPendingWriteEventsQueue[b]
                      /\ Unwritten(b)' = Unwritten(b)
                      /\ newQueue = mEventQueue
                      /\ AllBefore(mPendingWriteEventsQueue[b].first, rest)
    OBVIOUS
  <2>1. mPendingWriteEventsQueue'[b] = mPendingWriteEventsQueue[b]
    <3> HIDE DEF left
    <3>1. mPendingWriteEventsQueue \in Seq(Batch)
      OBVIOUS
    <3>2. Append(mPendingWriteEventsQueue, left)[b] = mPendingWriteEventsQueue[b]
      BY <3>1
    <3> QED BY <1>2, <3>2
  <2>2. Unwritten(b)' = Unwritten(b)
    BY <1>2, <2>1 DEF Unwritten
  <2>3. newQueue = mEventQueue
    <3>1. mPendingWriteEventsQueue # <<>>
      OBVIOUS
    <3>2. out = <<>>
      BY <1>3, <3>1
    <3> HIDE DEF out
    <3> QED BY <3>2
  <2>4. mPendingWriteEventsQueue[b].first \in Seq(Event)
    BY BatchTypes
  <2>5. AllBefore(mPendingWriteEventsQueue[b].first, events)
    BY DEF PendingOrder
  <2> QED BY <1>1, <2>1, <2>2, <2>3, <2>4, <2>5, AllBeforeParts
<1>11. \A b \in DOMAIN mPendingWriteEventsQueue' \ DOMAIN mPendingWriteEventsQueue :
         /\ b = K + 1 /\ mPendingWriteEventsQueue'[b].first = rest
         /\ \A c \in DOMAIN mPendingWriteEventsQueue' : c <= b
  <2>1. left.first = rest
    OBVIOUS
  <2> HIDE DEF left
  <2> QED BY <1>2, <2>1
<1>12. \A b \in DOMAIN mPendingWriteEventsQueue' \ DOMAIN mPendingWriteEventsQueue :
         Unwritten(b)' = rest
  <2> SUFFICES ASSUME NEW b \in DOMAIN mPendingWriteEventsQueue' \ DOMAIN mPendingWriteEventsQueue
               PROVE  ~(b = 1 /\ writer' = "written")
    BY <1>11 DEF Unwritten
  <2>1. b = 1 => mPendingWriteEventsQueue = <<>>
    BY <1>11
  <2> QED BY <1>2, <2>1 DEF WriterHoldsFront
<1>13. posting'[p] = <<>> /\ \A q \in Posters \ {p} : posting'[q] = posting[q]
  BY <1>2
<1> HIDE DEF events, n, out, rest, left, newQueue, K
<1>14. mEventQueue' = newQueue /\ UNCHANGED <<produced, lastRead>>
  BY <1>2 DEF newQueue, out
<1>15. \A t : AllBefore(t, posting'[p])
  BY <1>13 DEF AllBefore
<1>16. FmqOrder'
  <2>1. Ordered(mEventQueue)' /\ Fresh(mEventQueue)' /\ Generated(mEventQueue)'
    BY <1>7, <1>14 DEF Ordered, Fresh, Generated
  <2>2. ASSUME NEW b \in DOMAIN mPendingWriteEventsQueue'
        PROVE  AllBefore(mEventQueue, Unwritten(b))'
    <3>1. CASE b \in DOMAIN mPendingWriteEventsQueue
      BY <1>10, <1>14, <3>1 DEF FmqOrder, AllBefore
    <3>2. CASE b \notin DOMAIN mPendingWriteEventsQueue
      BY <1>9, <1>12, <1>14, <3>2 DEF AllBefore
    <3> QED BY <3>1, <3>2
  <2>3. \A q \in Posters : AllBefore(mEventQueue, posting[q])'
    BY <1>8, <1>13, <1>14, <1>15 DEF AllBefore
  <2> QED BY <1>14, <2>1, <2>2, <2>3 DEF FmqOrder
<1>17. PendingOrder'
  <2>1. ASSUME NEW b \in DOMAIN mPendingWriteEventsQueue'
        PROVE  /\ Ordered(mPendingWriteEventsQueue'[b].first)
               /\ Generated(mPendingWriteEventsQueue[b].first)'
               /\ Fresh(Unwritten(b))'
               /\ \A q \in Posters : AllBefore(mPendingWriteEventsQueue'[b].first, posting'[q])
    <3>1. CASE b \in DOMAIN mPendingWriteEventsQueue
      BY <1>10, <1>13, <1>14, <1>15, <3>1 DEF PendingOrder, Fresh, Generated
    <3>2. CASE b \notin DOMAIN mPendingWriteEventsQueue
      BY <1>6, <1>11, <1>12, <1>13, <1>14, <1>15, <3>2 DEF Fresh, Generated
    <3> QED BY <3>1, <3>2
  <2>2. ASSUME NEW b \in DOMAIN mPendingWriteEventsQueue', NEW c \in DOMAIN mPendingWriteEventsQueue', b < c
        PROVE  AllBefore(mPendingWriteEventsQueue'[b].first, mPendingWriteEventsQueue'[c].first)
    <3>0. b \in Nat /\ c \in Nat
      BY <1>2
    <3>1. b \in DOMAIN mPendingWriteEventsQueue
      BY <1>11, <2>2, <3>0
    <3>2. CASE c \in DOMAIN mPendingWriteEventsQueue
      BY <1>10, <2>2, <3>1, <3>2 DEF PendingOrder
    <3>3. CASE c \notin DOMAIN mPendingWriteEventsQueue
      BY <1>10, <1>11, <3>1, <3>3
    <3> QED BY <3>2, <3>3
  <2> QED BY <2>1, <2>2 DEF PendingOrder, Ordered, AllBefore
<1>18. PostingOrder'
  <2>1. ASSUME NEW q \in Posters
        PROVE  /\ Ordered(posting[q])' /\ Fresh(posting[q])' /\ Generated(posting[q])'
               /\ \A i \in DOMAIN posting'[q] : posting'[q][i].source = q
    <3>1. CASE q = p
      BY <1>13, <3>1 DEF Ordered, Fresh, Generated
    <3>2. CASE q # p
      BY <1>13, <1>14, <3>2 DEF PostingOrder, Ordered, Fresh, Generated
    <3> QED BY <3>1, <3>2
  <2> QED BY <2>1 DEF PostingOrder
<1> QED BY <1>16, <1>17, <1>18 DEF OrderInv

(* The front batch while the thread writes it, and what is left of it.     *)
LEMMA FrontSplit ==
  ASSUME EventsInv, writer \in {"writing", "written"}
  PROVE  /\ 1 \in DOMAIN mPendingWriteEventsQueue /\ FrontBatch = mPendingWriteEventsQueue[1]
         /\ FrontBatch.first \in Seq(Event)
         /\ numToWrite \in 0..Len(FrontBatch.first)
         /\ Len(FrontBatch.first) > QueueSize => numToWrite = QueueSize
         /\ Len(FrontBatch.first) <= QueueSize => numToWrite = Len(FrontBatch.first)
<1> USE EventsAssumption DEF EventsInv, TypeOK
<1>1. mPendingWriteEventsQueue # <<>> /\ numToWrite = SmallerOf(Len(FrontBatch.first), QueueSize)
  BY DEF WriterHoldsFront
<1>2. 1 \in DOMAIN mPendingWriteEventsQueue /\ FrontBatch = mPendingWriteEventsQueue[1]
  BY <1>1 DEF FrontBatch
<1>3. FrontBatch.first \in Seq(Event) /\ Len(FrontBatch.first) \in Nat
  BY <1>2, BatchTypes
<1> QED BY <1>1, <1>2, <1>3 DEF SmallerOf

LEMMA UnwrittenTypes ==
  ASSUME EventsInv, NEW b \in DOMAIN mPendingWriteEventsQueue
  PROVE  /\ Unwritten(b) \in Seq(Event)
         /\ b # 1 \/ writer # "written" => Unwritten(b) = mPendingWriteEventsQueue[b].first
<1>1. mPendingWriteEventsQueue[b].first \in Seq(Event)
  BY BatchTypes DEF EventsInv
<1>2. CASE b = 1 /\ writer = "written"
  BY <1>1, <1>2, FrontSplit, SuffixElement DEF Unwritten
<1>3. CASE ~(b = 1 /\ writer = "written")
  BY <1>1, <1>3 DEF Unwritten
<1> QED BY <1>2, <1>3

(* A step that only takes events out of the front batch's unwritten part.  *)
LEMMA PendingKept ==
  ASSUME PendingOrder,
         UNCHANGED <<mPendingWriteEventsQueue, posting, produced, lastRead>>,
         \A b \in DOMAIN mPendingWriteEventsQueue : Fresh(Unwritten(b)')
  PROVE  PendingOrder'
<1>1. \A b \in DOMAIN mPendingWriteEventsQueue : Fresh(Unwritten(b))'
  BY DEF Fresh
<1>2. \A b \in DOMAIN mPendingWriteEventsQueue : Generated(mPendingWriteEventsQueue[b].first)'
  BY DEF PendingOrder, Generated
<1> QED BY <1>1, <1>2 DEF PendingOrder, Ordered, AllBefore

(* A write moves a prefix of the front batch behind all that is in the FMQ. *)
LEMMA WriteOrder ==
  ASSUME EventsInv, WriterWrites
  PROVE  OrderInv'
<1> USE EventsAssumption DEF EventsInv, TypeOK
<1> DEFINE first == FrontBatch.first
           out == SubSeq(first, 1, numToWrite)
           rest == SubSeq(first, numToWrite + 1, Len(first))
           newQueue == mEventQueue \o out
<1>1. writer = "writing" /\ writer' = "written" /\ mEventQueue' = newQueue
      /\ UNCHANGED <<mPendingWriteEventsQueue, numToWrite, posting, produced, lastRead>>
  BY DEF WriterWrites, posterVars
<1>2. /\ 1 \in DOMAIN mPendingWriteEventsQueue /\ FrontBatch = mPendingWriteEventsQueue[1]
      /\ first \in Seq(Event) /\ numToWrite \in 0..Len(first)
  BY <1>1, FrontSplit
<1>3. /\ Unwritten(1) = first /\ Unwritten(1)' = rest
      /\ \A b \in DOMAIN mPendingWriteEventsQueue \ {1} :
           /\ Unwritten(b) = mPendingWriteEventsQueue[b].first
           /\ Unwritten(b)' = Unwritten(b)
  BY <1>1, <1>2 DEF Unwritten
<1>4. /\ Ordered(first) /\ Generated(first) /\ Fresh(first) /\ AllBefore(mEventQueue, first)
      /\ \A p \in Posters : AllBefore(first, posting[p])
      /\ \A b \in DOMAIN mPendingWriteEventsQueue \ {1} : AllBefore(first, mPendingWriteEventsQueue[b].first)
  <2>1. \A b \in DOMAIN mPendingWriteEventsQueue \ {1} : 1 < b
    OBVIOUS
  <2> QED BY <1>2, <1>3, <2>1 DEF PendingOrder, FmqOrder
<1>5. /\ out \in Seq(Event) /\ rest \in Seq(Event)
      /\ Ordered(out) /\ Generated(out) /\ Fresh(out)
      /\ Fresh(rest) /\ AllBefore(out, rest)
      /\ AllBefore(mEventQueue, out) /\ AllBefore(mEventQueue, rest)
  BY <1>2, <1>4, OrderedParts, AllBeforeParts, FreshParts
<1>6. \A t \in Seq(Event) : AllBefore(first, t) => AllBefore(out, t)
  BY <1>2, AllBeforeParts
<1> HIDE DEF out, rest, first
<1>7. newQueue \in Seq(Event) /\ Ordered(newQueue) /\ Fresh(newQueue) /\ Generated(newQueue)
  BY <1>5, OrderedConcat, FreshConcat DEF FmqOrder
<1>8. AllBefore(newQueue, rest)
  BY <1>5, AllBeforeConcat
<1>9. \A p \in Posters : AllBefore(newQueue, posting[p])
  <2> SUFFICES ASSUME NEW p \in Posters PROVE AllBefore(newQueue, posting[p])
    OBVIOUS
  <2>1. posting[p] \in Seq(Event)
    OBVIOUS
  <2> QED BY <1>4, <1>5, <1>6, <2>1, AllBeforeConcat DEF FmqOrder
<1>10. \A b \in DOMAIN mPendingWriteEventsQueue \ {1} : AllBefore(newQueue, Unwritten(b))
  <2> SUFFICES ASSUME NEW b \in DOMAIN mPendingWriteEventsQueue \ {1}
               PROVE  AllBefore(newQueue, Unwritten(b))
    OBVIOUS
  <2>1. Unwritten(b) \in Seq(Event)
    BY UnwrittenTypes
  <2>2. AllBefore(out, Unwritten(b))
    BY <1>3, <1>4, <1>6, <2>1
  <2> QED BY <1>5, <2>1, <2>2, AllBeforeConcat DEF FmqOrder
<1> HIDE DEF newQueue
<1>11. FmqOrder'
  BY <1>1, <1>3, <1>7, <1>8, <1>9, <1>10 DEF FmqOrder, Ordered, Fresh, Generated, AllBefore
<1>12. PendingOrder'
  <2>1. PendingOrder
    BY DEF EventsInv
  <2>2. ASSUME NEW b \in DOMAIN mPendingWriteEventsQueue PROVE Fresh(Unwritten(b)')
    <3>1. CASE b = 1 BY <1>3, <1>5, <3>1
    <3>2. CASE b # 1 BY <1>3, <2>1, <3>2 DEF PendingOrder
    <3> QED BY <3>1, <3>2
  <2> QED BY <1>1, <2>1, <2>2, PendingKept
<1>13. PostingOrder'
  BY <1>1 DEF PostingOrder, Ordered, Fresh, Generated
<1> QED BY <1>11, <1>12, <1>13 DEF OrderInv

(* A timed-out write drops a prefix of the front batch.                    *)
LEMMA TimeoutOrder ==
  ASSUME EventsInv, WriterTimesOut
  PROVE  OrderInv'
<1> USE EventsAssumption DEF EventsInv, TypeOK
<1>1. writer = "writing" /\ writer' = "written"
      /\ UNCHANGED <<mPendingWriteEventsQueue, mEventQueue, numToWrite, posting, produced, lastRead>>
  BY DEF WriterTimesOut, posterVars, queueVars
<1>2. /\ 1 \in DOMAIN mPendingWriteEventsQueue /\ FrontBatch = mPendingWriteEventsQueue[1]
      /\ FrontBatch.first \in Seq(Event) /\ numToWrite \in 0..Len(FrontBatch.first)
  BY <1>1, FrontSplit
<1>3. /\ Unwritten(1) = FrontBatch.first
      /\ Unwritten(1)' = SubSeq(FrontBatch.first, numToWrite + 1, Len(FrontBatch.first))
      /\ \A b \in DOMAIN mPendingWriteEventsQueue \ {1} : Unwritten(b)' = Unwritten(b)
  BY <1>1, <1>2 DEF Unwritten
<1>4. AllBefore(mEventQueue, Unwritten(1)') /\ Fresh(Unwritten(1)')
  <2>1. AllBefore(mEventQueue, FrontBatch.first) /\ Fresh(FrontBatch.first)
    BY <1>2, <1>3 DEF FmqOrder, PendingOrder
  <2>2. mEventQueue \in Seq(Event)
    OBVIOUS
  <2>3. AllBefore(mEventQueue, SubSeq(FrontBatch.first, numToWrite + 1, Len(FrontBatch.first)))
    BY <1>2, <2>1, <2>2, AllBeforeParts
  <2>4. Fresh(SubSeq(FrontBatch.first, numToWrite + 1, Len(FrontBatch.first)))
    BY <1>2, <2>1, FreshParts
  <2> QED BY <1>3, <2>3, <2>4
<1>5. FmqOrder'
  BY <1>1, <1>3, <1>4 DEF FmqOrder, Ordered, Fresh, Generated, AllBefore
<1>6. PendingOrder'
  <2>1. PendingOrder
    BY DEF EventsInv
  <2>2. ASSUME NEW b \in DOMAIN mPendingWriteEventsQueue PROVE Fresh(Unwritten(b)')
    <3>1. CASE b = 1 BY <1>4, <3>1
    <3>2. CASE b # 1 BY <1>3, <2>1, <3>2 DEF PendingOrder
    <3> QED BY <3>1, <3>2
  <2> QED BY <1>1, <2>1, <2>2, PendingKept
<1>7. PostingOrder'
  BY <1>1 DEF PostingOrder, Ordered, Fresh, Generated
<1> QED BY <1>5, <1>6, <1>7 DEF OrderInv

(* The erase removes what was already out: what is unwritten stays.        *)
LEMMA EraseOrder ==
  ASSUME EventsInv, WriterErases
  PROVE  OrderInv'
<1> USE EventsAssumption DEF EventsInv, TypeOK
<1> DEFINE first == FrontBatch.first
           D == DOMAIN mPendingWriteEventsQueue
<1>1. writer = "written" /\ writer' = "ready"
      /\ UNCHANGED <<mEventQueue, posting, produced, lastRead>>
  BY DEF WriterErases, EraseWritten, posterVars
<1>2. /\ 1 \in D /\ FrontBatch = mPendingWriteEventsQueue[1]
      /\ first \in Seq(Event) /\ numToWrite \in 0..Len(first)
      /\ Len(first) > QueueSize => numToWrite = QueueSize
  BY <1>1, FrontSplit
<1>3. \A b \in DOMAIN mPendingWriteEventsQueue' :
        Unwritten(b)' = mPendingWriteEventsQueue'[b].first
  BY <1>1 DEF Unwritten
<1>4. \A b \in D \ {1} : Unwritten(b) = mPendingWriteEventsQueue[b].first
  BY DEF Unwritten
<1>5. Unwritten(1) = SubSeq(first, numToWrite + 1, Len(first))
  BY <1>1, <1>2 DEF Unwritten
<1>6. ASSUME Len(first) > QueueSize
      PROVE  /\ DOMAIN mPendingWriteEventsQueue' = D
             /\ \A b \in D : mPendingWriteEventsQueue'[b].first = Unwritten(b)
  <2>1. mPendingWriteEventsQueue' = [mPendingWriteEventsQueue EXCEPT ![1] =
          [first |-> SubSeq(first, QueueSize + 1, Len(first)), second |-> FrontBatch.second]]
    BY <1>2, <1>6 DEF WriterErases, EraseWritten
  <2>2. DOMAIN mPendingWriteEventsQueue' = D
    BY <2>1
  <2>3. mPendingWriteEventsQueue'[1].first = Unwritten(1)
    BY <1>2, <1>5, <1>6, <2>1
  <2>4. \A b \in D \ {1} : mPendingWriteEventsQueue'[b] = mPendingWriteEventsQueue[b]
    BY <2>1
  <2> QED BY <1>4, <2>2, <2>3, <2>4
<1>7. ASSUME ~(Len(first) > QueueSize)
      PROVE  \A b \in DOMAIN mPendingWriteEventsQueue' :
               b \in Nat /\ b + 1 \in D \ {1} /\ mPendingWriteEventsQueue'[b].first = Unwritten(b + 1)
  <2>1. mPendingWriteEventsQueue' = Tail(mPendingWriteEventsQueue) /\ mPendingWriteEventsQueue # <<>>
    BY <1>2, <1>7 DEF WriterErases, EraseWritten
  <2>2. \A b \in DOMAIN mPendingWriteEventsQueue' :
          b \in Nat /\ b + 1 \in D \ {1} /\ mPendingWriteEventsQueue'[b] = mPendingWriteEventsQueue[b + 1]
    BY <2>1
  <2> QED BY <1>4, <2>2
(* Every remaining batch was the unwritten part of one before, in order.   *)
<1>8. \E shift \in {0, 1} : \A b \in DOMAIN mPendingWriteEventsQueue' :
        b \in Nat /\ b + shift \in D /\ mPendingWriteEventsQueue'[b].first = Unwritten(b + shift)
  <2>1. CASE Len(first) > QueueSize
    <3>1. \A b \in DOMAIN mPendingWriteEventsQueue' :
            b \in Nat /\ b + 0 \in D /\ mPendingWriteEventsQueue'[b].first = Unwritten(b + 0)
      BY <1>6, <2>1
    <3> QED BY <3>1
  <2>2. CASE ~(Len(first) > QueueSize)
    BY <1>7, <2>2
  <2> QED BY <2>1, <2>2
<1>9. PICK shift \in {0, 1} : \A b \in DOMAIN mPendingWriteEventsQueue' :
        b \in Nat /\ b + shift \in D /\ mPendingWriteEventsQueue'[b].first = Unwritten(b + shift)
  BY <1>8
<1>10. ASSUME NEW b \in D
       PROVE  /\ Ordered(Unwritten(b)) /\ Generated(Unwritten(b)) /\ Fresh(Unwritten(b))
              /\ \A p \in Posters : AllBefore(Unwritten(b), posting[p])
  <2> DEFINE batch == mPendingWriteEventsQueue[b].first
  <2>1. /\ Ordered(batch) /\ Generated(batch) /\ Fresh(Unwritten(b)) /\ batch \in Seq(Event)
        /\ \A p \in Posters : posting[p] \in Seq(Event) /\ AllBefore(batch, posting[p])
    BY BatchTypes DEF PendingOrder
  <2> HIDE DEF batch
  <2>2. CASE b = 1
    <3>1. Unwritten(b) = SubSeq(batch, numToWrite + 1, Len(batch)) /\ numToWrite \in 0..Len(batch)
      BY <1>2, <1>5, <2>2 DEF batch
    <3> QED BY <2>1, <3>1, OrderedParts, FreshParts, AllBeforeParts
  <2>3. CASE b # 1
    <3>1. Unwritten(b) = batch
      BY <1>4, <2>3 DEF batch
    <3> QED BY <2>1, <3>1
  <2> QED BY <2>2, <2>3
<1>11. ASSUME NEW b \in D, NEW c \in D, b < c
       PROVE  AllBefore(Unwritten(b), Unwritten(c))
  <2> DEFINE batch == mPendingWriteEventsQueue[b].first
  <2>1. c # 1 /\ Unwritten(c) = mPendingWriteEventsQueue[c].first
    BY <1>4, <1>11
  <2>2. AllBefore(batch, Unwritten(c)) /\ Unwritten(c) \in Seq(Event) /\ batch \in Seq(Event)
    BY <1>11, <2>1, BatchTypes, UnwrittenTypes DEF PendingOrder
  <2> HIDE DEF batch
  <2>3. CASE b = 1
    <3>1. Unwritten(b) = SubSeq(batch, numToWrite + 1, Len(batch)) /\ numToWrite \in 0..Len(batch)
      BY <1>2, <1>5, <2>3 DEF batch
    <3> QED BY <2>2, <3>1, AllBeforeParts
  <2>4. CASE b # 1
    BY <1>4, <2>2, <2>4 DEF batch
  <2> QED BY <2>3, <2>4
<1>12. FmqOrder'
  BY <1>1, <1>3, <1>9 DEF FmqOrder, Ordered, Fresh, Generated, AllBefore
<1>13. PendingOrder'
  <2>1. ASSUME NEW b \in DOMAIN mPendingWriteEventsQueue'
        PROVE  /\ Ordered(mPendingWriteEventsQueue[b].first)'
               /\ Generated(mPendingWriteEventsQueue[b].first)'
               /\ Fresh(Unwritten(b))'
               /\ \A p \in Posters : AllBefore(mPendingWriteEventsQueue[b].first, posting[p])'
    BY <1>1, <1>3, <1>9, <1>10 DEF Ordered, Generated, Fresh, AllBefore
  <2>2. ASSUME NEW b \in DOMAIN mPendingWriteEventsQueue', NEW c \in DOMAIN mPendingWriteEventsQueue', b < c
        PROVE  AllBefore(mPendingWriteEventsQueue[b].first, mPendingWriteEventsQueue[c].first)'
    BY <1>9, <1>11, <2>2 DEF AllBefore
  <2> QED BY <2>1, <2>2 DEF PendingOrder
<1>14. PostingOrder'
  BY <1>1 DEF PostingOrder, Ordered, Fresh, Generated
<1> QED BY <1>12, <1>13, <1>14 DEF OrderInv

(* The framework takes the head, and what is behind it is later.           *)
LEMMA ReadOrder ==
  ASSUME EventsInv, FrameworkReads
  PROVE  OrderInv'
<1> USE EventsAssumption DEF EventsInv, TypeOK
<1> DEFINE e == Head(mEventQueue)
           later == Tail(mEventQueue)
<1>1. /\ mEventQueue # <<>> /\ e = mEventQueue[1] /\ 1 \in DOMAIN mEventQueue
      /\ e \in Event /\ e.source \in Posters /\ e.seq \in Nat
  BY EventElement DEF FrameworkReads
<1>2. /\ mEventQueue' = later /\ lastRead' = [lastRead EXCEPT ![e.source] = e.seq]
      /\ UNCHANGED <<mPendingWriteEventsQueue, writer, numToWrite, posting, produced>>
  BY DEF FrameworkReads, posterVars
<1>3. /\ later \in Seq(Event)
      /\ \A i \in DOMAIN later : i \in Nat /\ i + 1 \in DOMAIN mEventQueue /\ 1 < i + 1
                                /\ later[i] = mEventQueue[i + 1]
  BY <1>1, TailElement
<1> HIDE DEF e, later
<1>4. \A b \in DOMAIN mPendingWriteEventsQueue : Unwritten(b)' = Unwritten(b)
  BY <1>2 DEF Unwritten
(* Whatever comes after the head is fresh for the new lastRead, too.       *)
<1>5. ASSUME NEW s \in Seq(Event), Fresh(s), \A i \in DOMAIN s : Before(e, s[i])
      PROVE  \A i \in DOMAIN s : lastRead'[s[i].source] < s[i].seq
  <2> SUFFICES ASSUME NEW i \in DOMAIN s PROVE lastRead'[s[i].source] < s[i].seq
    OBVIOUS
  <2>1. s[i].source \in Posters /\ s[i].seq \in Nat
    BY EventElement
  <2>2. CASE s[i].source = e.source
    BY <1>1, <1>2, <1>5, <2>1, <2>2 DEF Before
  <2>3. CASE s[i].source # e.source
    BY <1>2, <1>5, <2>1, <2>3 DEF Fresh
  <2> QED BY <2>2, <2>3
<1>6. FmqOrder'
  <2>1. Ordered(mEventQueue)' /\ Generated(mEventQueue)'
    BY <1>2, <1>3 DEF FmqOrder, Ordered, Generated
  <2>2. Fresh(mEventQueue)'
    <3>1. Fresh(later) /\ \A i \in DOMAIN later : Before(e, later[i])
      BY <1>1, <1>3 DEF FmqOrder, Fresh, Ordered
    <3> QED BY <1>2, <1>3, <1>5, <3>1 DEF Fresh
  <2>3. \A b \in DOMAIN mPendingWriteEventsQueue : AllBefore(later, Unwritten(b))
    BY <1>3 DEF FmqOrder, AllBefore
  <2>4. \A p \in Posters : AllBefore(later, posting[p])
    BY <1>3 DEF FmqOrder, AllBefore
  <2>5. \A p \in Posters : lastRead'[p] <= produced[p]
    BY <1>1, <1>2 DEF FmqOrder, Generated
  <2> QED BY <1>2, <1>4, <2>1, <2>2, <2>3, <2>4, <2>5 DEF FmqOrder, AllBefore
<1>7. PendingOrder'
  <2>1. ASSUME NEW b \in DOMAIN mPendingWriteEventsQueue PROVE Fresh(Unwritten(b))'
    <3>1. Unwritten(b) \in Seq(Event) /\ Fresh(Unwritten(b))
      BY UnwrittenTypes DEF PendingOrder
    <3>2. \A i \in DOMAIN Unwritten(b) : Before(e, Unwritten(b)[i])
      BY <1>1 DEF FmqOrder, AllBefore
    <3> QED BY <1>4, <1>5, <3>1, <3>2 DEF Fresh
  <2> QED BY <1>2, <2>1 DEF PendingOrder, Ordered, Generated, AllBefore
<1>8. PostingOrder'
  <2>1. ASSUME NEW p \in Posters PROVE Fresh(posting[p])'
    <3>1. posting[p] \in Seq(Event) /\ Fresh(posting[p])
      BY DEF PostingOrder
    <3>2. \A i \in DOMAIN posting[p] : Before(e, posting[p][i])
      BY <1>1 DEF FmqOrder, AllBefore
    <3> QED BY <1>2, <1>5, <3>1, <3>2 DEF Fresh
  <2> QED BY <1>2, <2>1 DEF PostingOrder, Ordered, Generated
<1> QED BY <1>6, <1>7, <1>8 DEF OrderInv

LEMMA OrderStep == EventsInv /\ [Next]_vars => OrderInv'
<1> SUFFICES ASSUME EventsInv, [Next]_vars PROVE OrderInv'
  OBVIOUS
<1> TypeOK /\ OrderInv
  BY DEF EventsInv, OrderInv
<1>1. ASSUME NEW s \in Sensors, SensorPosts(s) PROVE OrderInv'
  BY <1>1, BeginPostOrder DEF SensorPosts, Posters
<1>2. CASE BinderPosts
  BY <1>2, BeginPostOrder DEF BinderPosts, Posters
<1>3. ASSUME NEW p \in Posters, PostEventsToMessageQueue(p) PROVE OrderInv'
  BY <1>3, PostOrder
<1>4. CASE WriterLoop \/ WriterSleeps \/ SpuriousWakeup
  BY <1>4, OrderUnchanged DEF WriterLoop, WriterSleeps, SpuriousWakeup, queueVars, posterVars
<1>5. CASE WriterWrites
  BY <1>5, WriteOrder
<1>6. CASE WriterTimesOut
  BY <1>6, TimeoutOrder
<1>7. CASE WriterErases
  BY <1>7, EraseOrder
<1>8. CASE FrameworkReads
  BY <1>8, ReadOrder
<1>9. ASSUME NEW s \in Sensors, NEW on \in BOOLEAN, Activate(s, on) PROVE OrderInv'
  BY <1>9, OrderUnchanged DEF Activate, queueVars
<1>10. CASE InitializeCommon
  <2>1. CASE StopThreads \/ NotifyThreads \/ JoinPendingWritesThread \/ AllSensorsDisabled
    BY <2>1, OrderUnchanged DEF StopThreads, NotifyThreads, NotifyWriter, JoinPendingWritesThread,
         AllSensorsDisabled, queueVars, posterVars
  <2>2. ASSUME NEW s \in Sensors, DisableSensor(s) PROVE OrderInv'
    BY <2>2, OrderUnchanged DEF DisableSensor, queueVars
  <2>3. CASE DrainEventQueue
    <3>1. mEventQueue' = <<>>
          /\ UNCHANGED <<mPendingWriteEventsQueue, writer, numToWrite, posting, produced, lastRead>>
      BY <2>3 DEF DrainEventQueue, posterVars
    <3>2. \A b \in DOMAIN mPendingWriteEventsQueue : Unwritten(b)' = Unwritten(b)
      BY <3>1 DEF Unwritten
    <3> QED BY <3>1, <3>2 DEF OrderInv, FmqOrder, PendingOrder, PostingOrder, Ordered, Fresh,
              Generated, AllBefore
  <2>4. CASE Restart
    <3>1. mEventQueue' = <<>> /\ mPendingWriteEventsQueue' = <<>>
          /\ UNCHANGED <<posting, produced, lastRead>>
      BY <2>4 DEF Restart, posterVars
    <3> QED BY <3>1 DEF OrderInv, FmqOrder, PendingOrder, PostingOrder, Ordered, Fresh,
              Generated, AllBefore
  <2> QED BY <1>10, <2>1, <2>2, <2>3, <2>4 DEF InitializeCommon
<1>11. CASE UNCHANGED vars
  BY <1>11, OrderUnchanged DEF vars, queueVars, posterVars
<1> QED BY <1>1, <1>2, <1>3, <1>4, <1>5, <1>6, <1>7, <1>8, <1>9, <1>10, <1>11 DEF Next

(* EventsInv is an invariant of the proxy.                                 *)
THEOREM EventsInvariant == Spec => []EventsInv
<1>1. EventsInv /\ [Next]_vars => EventsInv'
  BY TypeStep, LifecycleStep, OrderStep DEF EventsInv, OrderInv
<1> QED BY InitInv, <1>1, PTL DEF Spec

-----------------------------------------------------------------------------
(* What follows from it.                                                   *)

(* Types, and with them the capacity of the FMQ, are respected.            *)
THEOREM TypeCorrect == Spec => []TypeOK
<1>1. EventsInv => TypeOK
  BY DEF EventsInv
<1> QED BY EventsInvariant, <1>1, PTL

(* The framework always finds each poster's events in the order in which   *)
(* postEvents received them and never finds one twice.                     *)
THEOREM OrderedDelivery == Spec => []DeliveredInOrder
<1>1. EventsInv => DeliveredInOrder
  BY DEF EventsInv, FmqOrder, DeliveredInOrder, Fresh
<1> QED BY EventsInvariant, <1>1, PTL

(* initializeCommon clears the queues while nobody else can touch them.    *)
THEOREM SafeClear == Spec => []ClearedSafely
<1>1. EventsInv => ClearedSafely
  BY DEF EventsInv, Lifecycle, ClearedSafely, Posters
<1> QED BY EventsInvariant, <1>1, PTL

(* handlePendingWrites never sleeps on a batch that was queued.            *)
THEOREM NoBatchMissed == Spec => []NoMissedBatch
<1>1. EventsInv => NoMissedBatch
  BY DEF EventsInv, WriterHoldsFront
<1> QED BY EventsInvariant, <1>1, PTL

-----------------------------------------------------------------------------
(* Counting: how many pairs there are of a place b of D and an element of  *)
(* the set q[b], when a place is added, replaced or removed.               *)
Pairs(D, q) == UNION {{b} \X q[b] : b \in D}

LEMMA DisjointUnion ==
  ASSUME NEW S, NEW T, IsFiniteSet(S), IsFiniteSet(T), S \cap T = {}
  PROVE  IsFiniteSet(S \union T) /\ Cardinality(S \union T) = Cardinality(S) + Cardinality(T)
<1>1. Cardinality({}) = 0
  BY FS_EmptySet
<1>2. Cardinality(S) \in Nat /\ Cardinality(T) \in Nat
  BY FS_CardinalityType
<1>3. Cardinality(S \cap T) = 0
  BY <1>1
<1>4. /\ IsFiniteSet(S \union T)
      /\ Cardinality(S \union T) = Cardinality(S) + Cardinality(T) - Cardinality(S \cap T)
  BY FS_Union
<1> QED BY <1>2, <1>3, <1>4

LEMMA RowCount ==
  ASSUME NEW b, NEW S, IsFiniteSet(S)
  PROVE  IsFiniteSet({b} \X S) /\ Cardinality({b} \X S) = Cardinality(S)
<1>1. IsFiniteSet({b}) /\ Cardinality({b}) = 1
  BY FS_Singleton
<1>2. Cardinality(S) \in Nat
  BY FS_CardinalityType
<1> QED BY <1>1, <1>2, FS_Product

LEMMA PairsFinite ==
  ASSUME NEW D, IsFiniteSet(D), NEW q, \A b \in D : IsFiniteSet(q[b])
  PROVE  IsFiniteSet(Pairs(D, q)) /\ Cardinality(Pairs(D, q)) \in Nat
<1> DEFINE rows == {{b} \X q[b] : b \in D}
<1>1. ASSUME NEW r \in rows PROVE IsFiniteSet(r)
  <2>1. PICK b \in D : r = {b} \X q[b]
    OBVIOUS
  <2> QED BY <2>1, RowCount
<1>2. IsFiniteSet(rows)
  <2> DEFINE f == [b \in D |-> {b} \X q[b]]
  <2>1. f \in Surjection(D, rows)
    BY DEF Surjection
  <2> QED BY <2>1, FS_Surjection
<1> HIDE DEF rows
<1>3. IsFiniteSet(UNION rows)
  BY <1>1, <1>2, FS_UNION
<1> QED BY <1>3, FS_CardinalityType DEF Pairs, rows

(* One place more.                                                         *)
LEMMA PairsAdd ==
  ASSUME NEW D, IsFiniteSet(D), NEW x, x \notin D,
         NEW q, \A b \in D \union {x} : IsFiniteSet(q[b])
  PROVE  Cardinality(Pairs(D \union {x}, q)) = Cardinality(Pairs(D, q)) + Cardinality(q[x])
<1>1. Pairs(D \union {x}, q) = Pairs(D, q) \union ({x} \X q[x])
  BY DEF Pairs
<1>2. Pairs(D, q) \cap ({x} \X q[x]) = {}
  BY DEF Pairs
<1>3. IsFiniteSet(Pairs(D, q))
  BY PairsFinite
<1>4. IsFiniteSet({x} \X q[x]) /\ Cardinality({x} \X q[x]) = Cardinality(q[x])
  BY RowCount
<1> QED BY <1>1, <1>2, <1>3, <1>4, DisjointUnion

LEMMA PairsSame ==
  ASSUME NEW D, NEW q, NEW r, \A b \in D : q[b] = r[b]
  PROVE  Pairs(D, q) = Pairs(D, r)
BY DEF Pairs

(* Every place one further.                                                *)
LEMMA PairsShift ==
  ASSUME NEW n \in Nat, NEW q, NEW r, \A b \in 1..n : IsFiniteSet(r[b]) /\ r[b] = q[b + 1]
  PROVE  Cardinality(Pairs(1..n, r)) = Cardinality(Pairs(2..n + 1, q))
<1> DEFINE f == [p \in Pairs(1..n, r) |-> <<p[1] + 1, p[2]>>]
<1>1. \A p : p \in Pairs(1..n, r) <=> \E b \in 1..n : p \in {b} \X r[b]
  BY DEF Pairs
<1>2. \A p : p \in Pairs(2..n + 1, q) <=> \E b \in 2..n + 1 : p \in {b} \X q[b]
  BY DEF Pairs
<1>3. ASSUME NEW p \in Pairs(1..n, r)
      PROVE  p[1] \in 1..n /\ p[2] \in r[p[1]] /\ p = <<p[1], p[2]>> /\ f[p] \in Pairs(2..n + 1, q)
  <2>1. PICK b \in 1..n : p \in {b} \X r[b]
    BY <1>1
  <2>2. p[1] = b /\ p[2] \in r[b] /\ p = <<p[1], p[2]>>
    BY <2>1
  <2>3. b + 1 \in 2..n + 1 /\ <<b + 1, p[2]>> \in {b + 1} \X q[b + 1]
    BY <2>2
  <2>4. f[p] = <<b + 1, p[2]>>
    BY <2>2
  <2> QED BY <1>2, <2>2, <2>3, <2>4
<1>4. f \in Injection(Pairs(1..n, r), Pairs(2..n + 1, q))
  <2>1. f \in [Pairs(1..n, r) -> Pairs(2..n + 1, q)]
    BY <1>3
  <2>2. ASSUME NEW a \in Pairs(1..n, r), NEW b \in Pairs(1..n, r), f[a] = f[b] PROVE a = b
    <3>1. /\ a[1] \in 1..n /\ a = <<a[1], a[2]>>
          /\ b[1] \in 1..n /\ b = <<b[1], b[2]>>
      <4> HIDE DEF f
      <4> QED BY <1>3
    <3>2. f[a] = <<a[1] + 1, a[2]>> /\ f[b] = <<b[1] + 1, b[2]>>
      OBVIOUS
    <3>3. a[1] = b[1] /\ a[2] = b[2]
      BY <2>2, <3>1, <3>2
    <3> QED BY <3>1, <3>3
  <2> QED BY <2>1, <2>2 DEF Injection, IsInjective
<1>5. f \in Surjection(Pairs(1..n, r), Pairs(2..n + 1, q))
  <2> SUFFICES ASSUME NEW p \in Pairs(2..n + 1, q) PROVE \E a \in Pairs(1..n, r) : f[a] = p
    BY <1>3 DEF Surjection
  <2>1. PICK b \in 2..n + 1 : p \in {b} \X q[b]
    BY <1>2
  <2>2. b - 1 \in 1..n /\ p = <<b, p[2]>> /\ p[2] \in r[b - 1]
    BY <2>1
  <2>3. <<b - 1, p[2]>> \in Pairs(1..n, r)
    BY <1>1, <2>2
  <2>4. f[<<b - 1, p[2]>>] = p
    BY <2>2, <2>3
  <2> QED BY <2>3, <2>4
<1>6. IsFiniteSet(Pairs(1..n, r))
  <2>1. 1 \in Int /\ n \in Int
    OBVIOUS
  <2>2. IsFiniteSet(1..n)
    BY <2>1, FS_Interval
  <2> QED BY <2>2, PairsFinite
<1> HIDE DEF f
<1>7. f \in Bijection(Pairs(1..n, r), Pairs(2..n + 1, q))
  BY <1>4, <1>5 DEF Bijection
<1> QED BY <1>6, <1>7, FS_Bijection DEF ExistsBijection

(* As many places, each with as many elements.                             *)
LEMMA ShiftedSet ==
  ASSUME NEW S \in SUBSET Int, IsFiniteSet(S), NEW n \in Int
  PROVE  LET T == {i + n : i \in S} IN IsFiniteSet(T) /\ Cardinality(T) = Cardinality(S)
<1> DEFINE T == {i + n : i \in S}
           f == [i \in S |-> i + n]
<1>1. f \in Bijection(S, T)
  <2>1. f \in Injection(S, T)
    BY DEF Injection, IsInjective
  <2>2. f \in Surjection(S, T)
    BY DEF Surjection
  <2> QED BY <2>1, <2>2 DEF Bijection
<1> HIDE DEF f, T
<1>2. IsFiniteSet(T) /\ Cardinality(T) = Cardinality(S)
  BY <1>1, FS_Bijection DEF ExistsBijection
<1> QED BY <1>2 DEF T

(* What a sequence of sets counts when a set is appended to it ...         *)
LEMMA CountAppend ==
  ASSUME NEW n \in Nat, NEW q, NEW r, \A b \in 1..n : r[b] = q[b],
         \A b \in 1..n + 1 : IsFiniteSet(r[b])
  PROVE  Cardinality(Pairs(1..n + 1, r)) = Cardinality(Pairs(1..n, q)) + Cardinality(r[n + 1])
<1>1. 1..n + 1 = (1..n) \union {n + 1} /\ n + 1 \notin 1..n
  OBVIOUS
<1>2. IsFiniteSet(1..n)
  <2>1. 1 \in Int /\ n \in Int
    OBVIOUS
  <2> QED BY <2>1, FS_Interval
<1>3. Pairs(1..n, r) = Pairs(1..n, q)
  BY PairsSame
<1>4. Cardinality(Pairs((1..n) \union {n + 1}, r)) = Cardinality(Pairs(1..n, r)) + Cardinality(r[n + 1])
  BY <1>1, <1>2, PairsAdd
<1> QED BY <1>1, <1>3, <1>4

(* ... when its first one is replaced ...                                  *)
LEMMA CountFirst ==
  ASSUME NEW n \in Nat, NEW q, \A b \in 1..n + 1 : IsFiniteSet(q[b])
  PROVE  /\ Cardinality(Pairs(1..n + 1, q)) = Cardinality(Pairs(2..n + 1, q)) + Cardinality(q[1])
         /\ Cardinality(Pairs(2..n + 1, q)) \in Nat
<1>1. 1..n + 1 = (2..n + 1) \union {1} /\ 1 \notin 2..n + 1
  OBVIOUS
<1>2. IsFiniteSet(2..n + 1)
  <2>1. 2 \in Int /\ n + 1 \in Int
    OBVIOUS
  <2> QED BY <2>1, FS_Interval
<1>3. Cardinality(Pairs((2..n + 1) \union {1}, q)) = Cardinality(Pairs(2..n + 1, q)) + Cardinality(q[1])
  BY <1>1, <1>2, PairsAdd
<1>4. Cardinality(Pairs(2..n + 1, q)) \in Nat
  BY <1>2, PairsFinite
<1> QED BY <1>1, <1>3, <1>4

LEMMA CountReplace ==
  ASSUME NEW n \in Nat, NEW q, NEW r, \A b \in 2..n + 1 : r[b] = q[b],
         \A b \in 1..n + 1 : IsFiniteSet(q[b]) /\ IsFiniteSet(r[b])
  PROVE  Cardinality(Pairs(1..n + 1, r)) = Cardinality(Pairs(1..n + 1, q)) - Cardinality(q[1]) + Cardinality(r[1])
<1>1. Pairs(2..n + 1, r) = Pairs(2..n + 1, q)
  BY PairsSame
<1>2. Cardinality(q[1]) \in Nat /\ Cardinality(r[1]) \in Nat
  <2>1. IsFiniteSet(q[1]) /\ IsFiniteSet(r[1])
    OBVIOUS
  <2> QED BY <2>1, FS_CardinalityType
<1> QED BY <1>1, <1>2, CountFirst

(* ... and when it is removed.                                             *)
LEMMA CountTail ==
  ASSUME NEW n \in Nat, NEW q, NEW r, \A b \in 1..n : r[b] = q[b + 1],
         \A b \in 1..n + 1 : IsFiniteSet(q[b])
  PROVE  Cardinality(Pairs(1..n, r)) = Cardinality(Pairs(1..n + 1, q)) - Cardinality(q[1])
<1>1. \A b \in 1..n : IsFiniteSet(r[b]) /\ r[b] = q[b + 1]
  OBVIOUS
<1>2. Cardinality(Pairs(1..n, r)) = Cardinality(Pairs(2..n + 1, q))
  BY <1>1, PairsShift
<1>3. Cardinality(q[1]) \in Nat
  BY FS_CardinalityType
<1> QED BY <1>2, <1>3, CountFirst

-----------------------------------------------------------------------------
(* The size of the pending queue.                                          *)

(* The places of the events of a pending batch.                            *)
Slots == [b \in DOMAIN mPendingWriteEventsQueue |-> DOMAIN mPendingWriteEventsQueue[b].first]

(* They are PendingSlots, as many in each batch as it has events.          *)
SlotsCounted ==
  /\ PendingSlots = Pairs(1..Len(mPendingWriteEventsQueue), Slots)
  /\ Len(mPendingWriteEventsQueue) \in Nat
  /\ \A b \in 1..Len(mPendingWriteEventsQueue) :
       /\ IsFiniteSet(Slots[b])
       /\ Cardinality(Slots[b]) = Len(mPendingWriteEventsQueue[b].first)

LEMMA SlotsCount == TypeOK => SlotsCounted
<1> SUFFICES ASSUME TypeOK PROVE SlotsCounted
  OBVIOUS
<1>1. /\ DOMAIN mPendingWriteEventsQueue = 1..Len(mPendingWriteEventsQueue)
      /\ Len(mPendingWriteEventsQueue) \in Nat
  BY DEF TypeOK
<1>2. PendingSlots = Pairs(1..Len(mPendingWriteEventsQueue), Slots)
  BY <1>1 DEF PendingSlots, Pairs, Slots
<1>3. ASSUME NEW b \in 1..Len(mPendingWriteEventsQueue)
      PROVE  /\ IsFiniteSet(Slots[b])
             /\ Cardinality(Slots[b]) = Len(mPendingWriteEventsQueue[b].first)
  <2> DEFINE n == Len(mPendingWriteEventsQueue[b].first)
  <2>1. Slots[b] = 1..n /\ n \in Nat
    BY <1>1, BatchTypes DEF Slots
  <2> HIDE DEF n
  <2>2. 1 \in Int /\ n \in Int
    BY <2>1
  <2>3. IsFiniteSet(1..n) /\ Cardinality(1..n) = n
    BY <2>1, <2>2, FS_Interval
  <2> QED BY <2>1, <2>3 DEF n
<1> QED BY <1>1, <1>2, <1>3 DEF SlotsCounted

(* The places in the first state of a step and in the second one.          *)
LEMMA SlotsCountBoth ==
  ASSUME EventsInv, EventsInv'
  PROVE  SlotsCounted /\ SlotsCounted'
<1>1. (TypeOK => SlotsCounted)'
  BY SlotsCount, PTL
<1> QED BY <1>1, SlotsCount DEF EventsInv

(* A step that leaves the pending queue and its counter alone.             *)
LEMMA SizeKept ==
  ASSUME PendingSizeExact, UNCHANGED <<mPendingWriteEventsQueue, mSizePendingWriteEventsQueue>>
  PROVE  PendingSizeExact'
<1>1. PendingSlots' = PendingSlots
  BY DEF PendingSlots
<1> QED BY <1>1 DEF PendingSizeExact

(* A batch that is queued is counted, and only when there is room for it.  *)
LEMMA SizeOfPost ==
  ASSUME EventsInv, EventsInv', PendingSizeExact, NEW p \in Posters, PostEventsToMessageQueue(p)
  PROVE  PendingSizeExact'
<1> DEFINE events == posting[p]
           n == NumWrittenNow(events)
           numLeft == Len(events) - n
           left == [first |-> SubSeq(events, n + 1, Len(events)), second |-> NumWakeupEvents(events)]
           k == Len(mPendingWriteEventsQueue)
<1>1. events \in Seq(Event) /\ n \in 0..Len(events)
  BY EventsAssumption DEF EventsInv, TypeOK, NumWrittenNow, AvailableToWrite, SmallerOf
<1>2. CASE UNCHANGED <<mPendingWriteEventsQueue, mSizePendingWriteEventsQueue>>
  BY <1>2, SizeKept
<1>3. CASE /\ mPendingWriteEventsQueue' = Append(mPendingWriteEventsQueue, left)
           /\ mSizePendingWriteEventsQueue' = mSizePendingWriteEventsQueue + numLeft
           /\ FitsPending(numLeft)
  <2>1. Len(left.first) = numLeft /\ numLeft \in Nat
    BY <1>1
  <2> HIDE DEF left, numLeft
  <2>2. /\ mPendingWriteEventsQueue \in Seq(Batch) /\ k \in Nat
        /\ Len(mPendingWriteEventsQueue') = k + 1
        /\ mPendingWriteEventsQueue'[k + 1] = left
        /\ DOMAIN mPendingWriteEventsQueue' = 1..k + 1
        /\ \A b \in 1..k : mPendingWriteEventsQueue'[b] = mPendingWriteEventsQueue[b]
    BY <1>3 DEF EventsInv, TypeOK
  <2>3. \A b \in 1..k : Slots'[b] = Slots[b]
    BY <2>2 DEF Slots
  <2>4. /\ PendingSlots = Pairs(1..k, Slots)
        /\ PendingSlots' = Pairs(1..k + 1, Slots')
        /\ \A b \in 1..k + 1 : IsFiniteSet(Slots'[b])
        /\ Cardinality(Slots'[k + 1]) = numLeft
    BY <2>1, <2>2, SlotsCountBoth DEF SlotsCounted
  <2> HIDE DEF k
  <2>5. Cardinality(Pairs(1..k + 1, Slots')) = Cardinality(Pairs(1..k, Slots)) + Cardinality(Slots'[k + 1])
    BY <2>2, <2>3, <2>4, CountAppend
  <2>6. mSizePendingWriteEventsQueue' = Cardinality(PendingSlots')
    BY <1>3, <2>4, <2>5 DEF PendingSizeExact
  <2>7. mSizePendingWriteEventsQueue' <= MaxPending
    BY <1>3 DEF FitsPending
  <2> QED BY <2>6, <2>7 DEF PendingSizeExact
<1> HIDE DEF left
<1>4. mSizePendingWriteEventsQueue \in Int
  BY DEF EventsInv, TypeOK
<1>5. CASE n < Len(events) /\ FitsPending(numLeft)
  <2>1. /\ mPendingWriteEventsQueue' = Append(mPendingWriteEventsQueue, left)
        /\ mSizePendingWriteEventsQueue' = mSizePendingWriteEventsQueue + numLeft
    BY <1>5 DEF PostEventsToMessageQueue, left
  <2> QED BY <1>3, <1>5, <2>1
<1>6. CASE ~(n < Len(events) /\ FitsPending(numLeft))
  <2>1. /\ mPendingWriteEventsQueue' = mPendingWriteEventsQueue
        /\ mSizePendingWriteEventsQueue' = mSizePendingWriteEventsQueue + 0
    BY <1>6 DEF PostEventsToMessageQueue
  <2> QED BY <1>2, <1>4, <2>1
<1> QED BY <1>5, <1>6

(* What the pending-writes thread has written or given up leaves the queue *)
(* and the counter together: the front batch loses numToWrite events, the  *)
(* whole batch when it fits the FMQ.                                       *)
LEMMA SizeOfErase ==
  ASSUME EventsInv, EventsInv', PendingSizeExact, WriterErases
  PROVE  PendingSizeExact'
<1> USE EventsAssumption
<1> DEFINE first == FrontBatch.first
           n == Len(mPendingWriteEventsQueue) - 1
<1>1. /\ 1 \in DOMAIN mPendingWriteEventsQueue /\ FrontBatch = mPendingWriteEventsQueue[1]
      /\ first \in Seq(Event) /\ numToWrite \in 0..Len(first)
      /\ Len(first) > QueueSize => numToWrite = QueueSize
      /\ Len(first) <= QueueSize => numToWrite = Len(first)
  BY FrontSplit DEF WriterErases
<1>2. mPendingWriteEventsQueue \in Seq(Batch) /\ mPendingWriteEventsQueue # <<>>
  BY <1>1 DEF EventsInv, TypeOK
<1>3. n \in Nat /\ Len(mPendingWriteEventsQueue) = n + 1 /\ DOMAIN mPendingWriteEventsQueue = 1..n + 1
  BY <1>2
<1> HIDE DEF n
<1>4. /\ PendingSlots = Pairs(1..n + 1, Slots)
      /\ \A b \in 1..n + 1 : IsFiniteSet(Slots[b])
      /\ Cardinality(Slots[1]) = Len(first)
  BY <1>1, <1>3, SlotsCountBoth DEF SlotsCounted
<1>5. /\ mSizePendingWriteEventsQueue' = mSizePendingWriteEventsQueue - numToWrite
      /\ mSizePendingWriteEventsQueue = Cardinality(PendingSlots)
      /\ mSizePendingWriteEventsQueue <= MaxPending /\ mSizePendingWriteEventsQueue \in Int
  BY DEF WriterErases, PendingSizeExact, EventsInv, TypeOK
<1>6. CASE Len(first) > QueueSize
  <2> DEFINE rest == EraseWritten(FrontBatch)
  <2>1. rest.first = SubSeq(first, QueueSize + 1, Len(first))
    BY DEF EraseWritten
  <2>2. Len(rest.first) = Len(first) - QueueSize
    BY <1>1, <1>6, <2>1
  <2>3. mPendingWriteEventsQueue' = [mPendingWriteEventsQueue EXCEPT ![1] = rest]
    BY <1>1, <1>6 DEF WriterErases, EraseWritten
  <2> HIDE DEF rest
  <2>4. /\ DOMAIN mPendingWriteEventsQueue' = 1..n + 1
        /\ Len(mPendingWriteEventsQueue') = n + 1
        /\ mPendingWriteEventsQueue'[1] = rest
        /\ \A b \in 2..n + 1 : mPendingWriteEventsQueue'[b] = mPendingWriteEventsQueue[b]
    BY <1>2, <1>3, <2>3
  <2>5. \A b \in 2..n + 1 : Slots'[b] = Slots[b]
    BY <1>3, <2>4 DEF Slots
  <2>6. /\ PendingSlots' = Pairs(1..n + 1, Slots')
        /\ \A b \in 1..n + 1 : IsFiniteSet(Slots'[b])
        /\ Cardinality(Slots'[1]) = Len(first) - QueueSize
    BY <1>3, <2>2, <2>4, SlotsCountBoth DEF SlotsCounted
  <2>7. Cardinality(Pairs(1..n + 1, Slots'))
          = Cardinality(Pairs(1..n + 1, Slots)) - Cardinality(Slots[1]) + Cardinality(Slots'[1])
    BY <1>3, <1>4, <2>5, <2>6, CountReplace
  <2>8. Len(first) \in Nat /\ numToWrite = QueueSize
    BY <1>1, <1>6
  <2> QED BY <1>4, <1>5, <2>6, <2>7, <2>8 DEF PendingSizeExact
<1>7. CASE ~(Len(first) > QueueSize)
  <2>1. mPendingWriteEventsQueue' = Tail(mPendingWriteEventsQueue)
    BY <1>7 DEF WriterErases
  <2>2. /\ DOMAIN mPendingWriteEventsQueue' = 1..n
        /\ Len(mPendingWriteEventsQueue') = n
        /\ \A b \in 1..n : mPendingWriteEventsQueue'[b] = mPendingWriteEventsQueue[b + 1]
    BY <1>2, <1>3, <2>1
  <2>3. \A b \in 1..n : Slots'[b] = Slots[b + 1]
    BY <1>3, <2>2 DEF Slots
  <2>4. PendingSlots' = Pairs(1..n, Slots')
    BY <2>2, SlotsCountBoth DEF SlotsCounted
  <2>5. Cardinality(Pairs(1..n, Slots')) = Cardinality(Pairs(1..n + 1, Slots)) - Cardinality(Slots[1])
    BY <1>3, <1>4, <2>3, CountTail
  <2>6. Len(first) \in Nat /\ numToWrite = Len(first)
    BY <1>1, <1>7
  <2> QED BY <1>4, <1>5, <2>4, <2>5, <2>6 DEF PendingSizeExact
<1> QED BY <1>6, <1>7

LEMMA EmptyPending ==
  ASSUME mPendingWriteEventsQueue = <<>>, mSizePendingWriteEventsQueue = 0
  PROVE  PendingSizeExact
<1>1. PendingSlots = {}
  BY DEF PendingSlots
<1> QED BY <1>1, FS_EmptySet, EventsAssumption DEF PendingSizeExact

LEMMA SizeStep == EventsInv /\ EventsInv' /\ PendingSizeExact /\ [Next]_vars => PendingSizeExact'
<1> SUFFICES ASSUME EventsInv, EventsInv', PendingSizeExact, [Next]_vars PROVE PendingSizeExact'
  OBVIOUS
<1>1. CASE \/ (\E s \in Sensors : SensorPosts(s)) \/ BinderPosts
  BY <1>1, SizeKept DEF SensorPosts, BinderPosts, BeginPost, queueVars
<1>2. CASE \E p \in Posters : PostEventsToMessageQueue(p)
  BY <1>2, SizeOfPost
<1>3. CASE WriterLoop \/ WriterSleeps \/ SpuriousWakeup \/ WriterWrites \/ WriterTimesOut
  BY <1>3, SizeKept
     DEF WriterLoop, WriterSleeps, SpuriousWakeup, WriterWrites, WriterTimesOut, queueVars
<1>4. CASE WriterErases
  BY <1>4, SizeOfErase
<1>5. CASE FrameworkReads \/ \E s \in Sensors, on \in BOOLEAN : Activate(s, on)
  BY <1>5, SizeKept DEF FrameworkReads, Activate, queueVars
<1>6. CASE InitializeCommon
  <2>1. CASE Restart
    <3>1. (mPendingWriteEventsQueue = <<>> /\ mSizePendingWriteEventsQueue = 0 => PendingSizeExact)'
      BY EmptyPending, PTL
    <3> QED BY <2>1, <3>1 DEF Restart
  <2>2. CASE ~Restart
    BY <1>6, <2>2, SizeKept
       DEF InitializeCommon, StopThreads, DrainEventQueue, NotifyThreads, JoinPendingWritesThread,
           DisableSensor, AllSensorsDisabled, queueVars
  <2> QED BY <2>1, <2>2
<1>7. CASE UNCHANGED vars
  BY <1>7, SizeKept DEF vars, queueVars
<1> QED BY <1>1, <1>2, <1>3, <1>4, <1>5, <1>6, <1>7 DEF Next

(* mSizePendingWriteEventsQueue is the number of events in the pending     *)
(* queue, and never more than kMaxSizePendingWriteEventsQueue.             *)
THEOREM PendingSizeIsExact == Spec => []PendingSizeExact
<1>1. Init => PendingSizeExact
  BY EmptyPending DEF Init
<1> QED BY <1>1, EventsInvariant, SizeStep, PTL DEF Spec

-----------------------------------------------------------------------------
(* The proxy implements the lossy, order-keeping stream.                   *)

LEMMA SameUnwritten ==
  ASSUME mPendingWriteEventsQueue' = mPendingWriteEventsQueue,
         writer' = "written" <=> writer = "written",
         writer = "written" => numToWrite' = numToWrite
  PROVE  \A b \in DOMAIN mPendingWriteEventsQueue : Unwritten(b)' = Unwritten(b)
BY DEF Unwritten

(* An event is in transit when a queue or a poster still has to hand it on. *)
LEMMA Transit ==
  ASSUME NEW f
  PROVE  f \in InTransit <=>
           \/ f \in ElementsOf(mEventQueue)
           \/ \E b \in DOMAIN mPendingWriteEventsQueue : f \in ElementsOf(Unwritten(b))
           \/ \E p \in Posters : f \in ElementsOf(posting[p])
BY DEF InTransit

(* All that is in transit is later than what was read.                     *)
TransitAhead == \A f \in InTransit : f \in Event /\ lastRead[f.source] < f.seq

LEMMA ElementsAhead ==
  ASSUME NEW s \in Seq(Event), Fresh(s), NEW f \in ElementsOf(s)
  PROVE  f \in Event /\ lastRead[f.source] < f.seq
<1>1. PICK i \in DOMAIN s : f = s[i]
  BY DEF ElementsOf
<1> QED BY <1>1 DEF Fresh

LEMMA AheadInTransit == EventsInv => TransitAhead
<1> SUFFICES ASSUME EventsInv, NEW f \in InTransit
             PROVE  f \in Event /\ lastRead[f.source] < f.seq
  BY DEF TransitAhead
<1>1. CASE f \in ElementsOf(mEventQueue)
  <2>1. mEventQueue \in Seq(Event) /\ Fresh(mEventQueue)
    BY DEF EventsInv, TypeOK, FmqOrder
  <2> QED BY <1>1, <2>1, ElementsAhead
<1>2. ASSUME NEW b \in DOMAIN mPendingWriteEventsQueue, f \in ElementsOf(Unwritten(b))
      PROVE  f \in Event /\ lastRead[f.source] < f.seq
  <2>1. Unwritten(b) \in Seq(Event)
    BY UnwrittenTypes
  <2>2. Fresh(Unwritten(b))
    BY DEF EventsInv, PendingOrder
  <2> QED BY <1>2, <2>1, <2>2, ElementsAhead
<1>3. ASSUME NEW p \in Posters, f \in ElementsOf(posting[p])
      PROVE  f \in Event /\ lastRead[f.source] < f.seq
  <2>1. posting[p] \in Seq(Event)
    BY DEF EventsInv, TypeOK
  <2>2. Fresh(posting[p])
    BY DEF EventsInv, PostingOrder
  <2> QED BY <1>3, <2>1, <2>2, ElementsAhead
<1> QED BY <1>1, <1>2, <1>3, Transit

(* Steps that only move or lose events.                                    *)
LEMMA LoseStep ==
  ASSUME InTransit' \subseteq InTransit, UNCHANGED <<produced, lastRead>>
  PROVE  [Stream!Next]_(Stream!streamVars)
BY DEF Stream!Next, Stream!Lose, Stream!streamVars

LEMMA QuietStep ==
  ASSUME UNCHANGED <<mPendingWriteEventsQueue, mEventQueue, posting, produced, lastRead>>,
         writer' = "written" <=> writer = "written",
         writer = "written" => numToWrite' = numToWrite
  PROVE  [Stream!Next]_(Stream!streamVars)
BY SameUnwritten, LoseStep DEF InTransit, ElementsOf

LEMMA ProduceStep ==
  ASSUME EventsInv, NEW p \in Posters, NEW n \in 1..MaxBatch, BeginPost(p, n)
  PROVE  [Stream!Next]_(Stream!streamVars)
<1> USE EventsAssumption DEF EventsInv, TypeOK
<1> DEFINE new == {[source |-> p, seq |-> i] : i \in (produced[p] + 1)..(produced[p] + n)}
           sent == ElementsOf(posting'[p])
<1>1. /\ UNCHANGED <<mPendingWriteEventsQueue, mEventQueue, writer, numToWrite, lastRead>>
      /\ produced' = [produced EXCEPT ![p] = @ + n]
      /\ posting[p] = <<>>
      /\ posting'[p] \in {<<>>, NewEvents(p, n)}
      /\ \A q \in Posters \ {p} : posting'[q] = posting[q]
  BY DEF BeginPost, queueVars
<1>2. sent \subseteq new
  <2>1. CASE posting'[p] = <<>>
    BY <2>1 DEF ElementsOf
  <2>2. CASE posting'[p] = NewEvents(p, n)
    <3> SUFFICES ASSUME NEW i \in 1..n PROVE NewEvents(p, n)[i] \in new
      BY <2>2 DEF ElementsOf, NewEvents
    <3>1. produced[p] \in Nat /\ n \in Nat /\ produced[p] + i \in (produced[p] + 1)..(produced[p] + n)
      OBVIOUS
    <3> QED BY <3>1 DEF NewEvents
  <2> QED BY <1>1, <2>1, <2>2
<1>3. InTransit' = InTransit \union sent
  <2>1. \A b \in DOMAIN mPendingWriteEventsQueue : Unwritten(b)' = Unwritten(b)
    BY <1>1, SameUnwritten
  <2>2. UNION {ElementsOf(posting'[q]) : q \in Posters}
          = (UNION {ElementsOf(posting[q]) : q \in Posters}) \union sent
    <3>1. ElementsOf(posting[p]) = {}
      BY <1>1 DEF ElementsOf
    <3>2. \A q \in Posters \ {p} : ElementsOf(posting'[q]) = ElementsOf(posting[q])
      BY <1>1
    <3>3. ASSUME NEW q \in Posters
          PROVE  /\ ElementsOf(posting'[q]) \subseteq ElementsOf(posting[q]) \union sent
                 /\ ElementsOf(posting[q]) \subseteq ElementsOf(posting'[q])
      BY <3>1, <3>2
    <3>4. sent = ElementsOf(posting'[p])
      OBVIOUS
    <3> HIDE DEF sent
    <3> QED BY <3>3, <3>4
  <2>3. UNION {ElementsOf(Unwritten(b)) : b \in DOMAIN mPendingWriteEventsQueue}'
          = UNION {ElementsOf(Unwritten(b)) : b \in DOMAIN mPendingWriteEventsQueue}
    BY <1>1, <2>1 DEF ElementsOf
  <2>4. ElementsOf(mEventQueue)' = ElementsOf(mEventQueue)
    BY <1>1 DEF ElementsOf
  <2> HIDE DEF sent
  <2> QED BY <2>2, <2>3, <2>4 DEF InTransit, ElementsOf
<1> HIDE DEF sent
<1>4. Stream!Produce(p, n)
  BY <1>1, <1>2, <1>3 DEF Stream!Produce
<1> QED BY <1>4 DEF Stream!Next

LEMMA DeliverStep ==
  ASSUME EventsInv, EventsInv', FrameworkReads
  PROVE  [Stream!Next]_(Stream!streamVars)
<1> USE EventsAssumption DEF EventsInv, TypeOK
<1> DEFINE e == Head(mEventQueue)
<1>1. /\ e = mEventQueue[1] /\ 1 \in DOMAIN mEventQueue
      /\ e \in Event /\ e.source \in Posters /\ e.seq \in Nat
  BY EventElement DEF FrameworkReads
<1>2. /\ mEventQueue' = Tail(mEventQueue) /\ lastRead' = [lastRead EXCEPT ![e.source] = e.seq]
      /\ UNCHANGED <<mPendingWriteEventsQueue, writer, numToWrite, posting, produced>>
  BY DEF FrameworkReads, posterVars
<1>3. ElementsOf(mEventQueue) = ElementsOf(mEventQueue') \union {e}
  <2>1. \A i \in DOMAIN mEventQueue' : i + 1 \in DOMAIN mEventQueue /\ mEventQueue'[i] = mEventQueue[i + 1]
    <3>1. mEventQueue \in Seq(Event) /\ mEventQueue # <<>>
      BY DEF FrameworkReads
    <3> QED BY <1>2, <3>1, TailElement
  <2>2. \A i \in DOMAIN mEventQueue \ {1} : i - 1 \in DOMAIN mEventQueue' /\ mEventQueue[i] = mEventQueue'[i - 1]
    BY <1>1, <1>2
  <2> HIDE DEF e
  <2>3. ASSUME NEW f \in ElementsOf(mEventQueue) PROVE f \in ElementsOf(mEventQueue') \union {e}
    <3>1. PICK i \in DOMAIN mEventQueue : f = mEventQueue[i]
      BY DEF ElementsOf
    <3>2. CASE i = 1
      BY <1>1, <3>1, <3>2
    <3>3. CASE i # 1
      <4>1. i - 1 \in DOMAIN mEventQueue' /\ f = mEventQueue'[i - 1]
        BY <2>2, <3>1, <3>3
      <4> QED BY <4>1, Zenon DEF ElementsOf
    <3> QED BY <3>2, <3>3
  <2>4. ASSUME NEW f \in ElementsOf(mEventQueue') PROVE f \in ElementsOf(mEventQueue)
    BY <2>1 DEF ElementsOf
  <2>5. e \in ElementsOf(mEventQueue)
    BY <1>1 DEF ElementsOf
  <2> QED BY <2>3, <2>4, <2>5
<1> HIDE DEF e
<1>4. InTransit = InTransit' \union {e}
  <2>1. \A b \in DOMAIN mPendingWriteEventsQueue : Unwritten(b)' = Unwritten(b)
    BY <1>2, SameUnwritten
  <2>2. UNION {ElementsOf(Unwritten(b)) : b \in DOMAIN mPendingWriteEventsQueue}'
          = UNION {ElementsOf(Unwritten(b)) : b \in DOMAIN mPendingWriteEventsQueue}
    BY <1>2, <2>1 DEF ElementsOf
  <2>3. UNION {ElementsOf(posting[p]) : p \in Posters}' = UNION {ElementsOf(posting[p]) : p \in Posters}
    BY <1>2 DEF ElementsOf
  <2>4. ElementsOf(mEventQueue)' = ElementsOf(mEventQueue')
    BY DEF ElementsOf
  <2> QED BY <1>3, <2>2, <2>3, <2>4 DEF InTransit
(* In both states everything in transit is later than what was read.       *)
<1>5. TransitAhead'
  <2>1. (EventsInv => TransitAhead)'
    BY AheadInTransit, PTL
  <2> QED BY <2>1
<1>6. \A f \in InTransit' : f \in Event /\ lastRead'[f.source] < f.seq
  BY <1>5 DEF TransitAhead
<1>7. lastRead'[e.source] = e.seq
  BY <1>1, <1>2
<1>8. e \notin InTransit'
  <2>1. ~(e.seq < e.seq)
    BY <1>1
  <2> QED BY <1>6, <1>7, <2>1
<1>9. \A f \in InTransit : f.source = e.source => e.seq <= f.seq
  <2> SUFFICES ASSUME NEW f \in InTransit, f.source = e.source PROVE e.seq <= f.seq
    OBVIOUS
  <2>1. CASE f = e
    BY <1>1, <2>1
  <2>2. CASE f \in InTransit'
    <3>1. lastRead'[f.source] < f.seq /\ f \in Event
      BY <1>6, <2>2
    <3>2. e.seq < f.seq /\ f.seq \in Nat
      BY <1>7, <3>1 DEF Event
    <3> QED BY <1>1, <3>2
  <2> QED BY <1>4, <2>1, <2>2
<1>10. lastRead[e.source] < e.seq
  BY <1>1 DEF FmqOrder, Fresh
<1>11. e \in InTransit /\ InTransit' = InTransit \ {e}
  BY <1>4, <1>8
<1>12. Stream!Deliver(e)
  BY <1>2, <1>9, <1>10, <1>11 DEF Stream!Deliver
<1> QED BY <1>11, <1>12 DEF Stream!Next

LEMMA ElementsOfConcat ==
  ASSUME NEW s \in Seq(Event), NEW t \in Seq(Event)
  PROVE  ElementsOf(s \o t) \subseteq ElementsOf(s) \union ElementsOf(t)
BY ConcatElement DEF ElementsOf

LEMMA ElementsOfParts ==
  ASSUME NEW s \in Seq(Event), NEW n \in 0..Len(s)
  PROVE  /\ ElementsOf(SubSeq(s, 1, n)) \subseteq ElementsOf(s)
         /\ ElementsOf(SubSeq(s, n + 1, Len(s))) \subseteq ElementsOf(s)
<1>1. ElementsOf(SubSeq(s, 1, n)) \subseteq ElementsOf(s)
  BY PrefixElement DEF ElementsOf
<1>2. ElementsOf(SubSeq(s, n + 1, Len(s))) \subseteq ElementsOf(s)
  BY SuffixElement DEF ElementsOf
<1> QED BY <1>1, <1>2

(* A post moves its events to the queues or loses them.                    *)
LEMMA PostLoses ==
  ASSUME EventsInv, NEW p \in Posters, PostEventsToMessageQueue(p)
  PROVE  InTransit' \subseteq InTransit
<1> USE EventsAssumption DEF EventsInv, TypeOK
<1> DEFINE events == posting[p]
           n == IF mPendingWriteEventsQueue = <<>>
                THEN SmallerOf(Len(events), QueueSize - Len(mEventQueue)) ELSE 0
           rest == SubSeq(events, n + 1, Len(events))
           left == [first |-> rest, second |-> NumWakeupEvents(events)]
<1>1. events \in Seq(Event) /\ n \in 0..Len(events)
  BY DEF SmallerOf
<1>2. /\ mEventQueue' = mEventQueue \o SubSeq(events, 1, n)
      /\ mPendingWriteEventsQueue' \in {mPendingWriteEventsQueue, Append(mPendingWriteEventsQueue, left)}
      /\ posting' = [posting EXCEPT ![p] = <<>>]
      /\ numToWrite' = numToWrite
      /\ writer' = "written" <=> writer = "written"
  BY DEF PostEventsToMessageQueue, NumWrittenNow, AvailableToWrite, FitsPending, NotifyWriter, QueueMutexFree
<1>3. ElementsOf(mEventQueue') \subseteq ElementsOf(mEventQueue) \union ElementsOf(events)
  <2>1. mEventQueue \in Seq(Event) /\ SubSeq(events, 1, n) \in Seq(Event)
    BY <1>1
  <2> HIDE DEF n, events
  <2>2. ElementsOf(SubSeq(events, 1, n)) \subseteq ElementsOf(events)
    BY <1>1, ElementsOfParts
  <2>3. ElementsOf(mEventQueue \o SubSeq(events, 1, n))
          \subseteq ElementsOf(mEventQueue) \union ElementsOf(SubSeq(events, 1, n))
    BY <2>1, ElementsOfConcat
  <2> QED BY <1>2, <2>2, <2>3
<1>4. ElementsOf(rest) \subseteq ElementsOf(events) /\ left.first = rest
  <2> HIDE DEF n, events
  <2> QED BY <1>1, ElementsOfParts
<1>5. /\ mPendingWriteEventsQueue \in Seq(Batch)
      /\ mPendingWriteEventsQueue = <<>> => writer # "written"
  BY DEF WriterHoldsFront
<1> HIDE DEF left, n, rest
<1>6. ASSUME NEW b \in DOMAIN mPendingWriteEventsQueue'
      PROVE  ElementsOf(Unwritten(b)') \subseteq
               (IF b \in DOMAIN mPendingWriteEventsQueue THEN ElementsOf(Unwritten(b)) ELSE ElementsOf(events))
  <2>1. CASE b \in DOMAIN mPendingWriteEventsQueue
    <3>1. mPendingWriteEventsQueue'[b] = mPendingWriteEventsQueue[b]
      <4>1. Append(mPendingWriteEventsQueue, left)[b] = mPendingWriteEventsQueue[b]
        BY <1>5, <2>1
      <4> QED BY <1>2, <4>1
    <3>2. Unwritten(b)' = Unwritten(b)
      BY <1>2, <3>1 DEF Unwritten
    <3> QED BY <2>1, <3>2
  <2>2. CASE b \notin DOMAIN mPendingWriteEventsQueue
    <3>1. b = Len(mPendingWriteEventsQueue) + 1 /\ mPendingWriteEventsQueue'[b] = left
      BY <1>2, <1>5, <2>2
    <3>2. ~(b = 1 /\ writer' = "written")
      BY <1>2, <1>5, <3>1
    <3>3. Unwritten(b)' = rest
      BY <1>4, <3>1, <3>2 DEF Unwritten
    <3> QED BY <1>4, <2>2, <3>3
  <2> QED BY <2>1, <2>2
<1>7. posting'[p] = <<>> /\ \A q \in Posters \ {p} : posting'[q] = posting[q]
  BY <1>2
<1>8. ElementsOf(events) \subseteq InTransit
  BY Transit
<1> HIDE DEF events
<1>9. ASSUME NEW f \in InTransit' PROVE f \in InTransit
  <2>1. CASE f \in ElementsOf(mEventQueue')
    BY <1>3, <1>8, <2>1, Transit
  <2>2. CASE \E b \in DOMAIN mPendingWriteEventsQueue' : f \in ElementsOf(Unwritten(b)')
    <3>1. PICK b \in DOMAIN mPendingWriteEventsQueue' : f \in ElementsOf(Unwritten(b)')
      BY <2>2
    <3>2. CASE b \in DOMAIN mPendingWriteEventsQueue
      BY <1>6, <3>1, <3>2, Transit
    <3>3. CASE b \notin DOMAIN mPendingWriteEventsQueue
      BY <1>6, <1>8, <3>1, <3>3
    <3> QED BY <3>2, <3>3
  <2>3. CASE \E q \in Posters : f \in ElementsOf(posting'[q])
    <3>1. PICK q \in Posters : f \in ElementsOf(posting'[q])
      BY <2>3
    <3>2. q # p
      BY <1>7, <3>1 DEF ElementsOf
    <3>3. f \in ElementsOf(posting[q])
      BY <1>7, <3>1, <3>2
    <3> QED BY <3>3, Transit
  <2> QED BY <2>1, <2>2, <2>3 DEF InTransit, ElementsOf
<1> QED BY <1>9

(* So does the pending-writes thread with the front batch.                 *)
LEMMA WriterLoses ==
  ASSUME EventsInv, WriterWrites \/ WriterTimesOut
  PROVE  InTransit' \subseteq InTransit
<1> USE EventsAssumption DEF EventsInv, TypeOK
<1> DEFINE first == FrontBatch.first
           out == SubSeq(first, 1, numToWrite)
           rest == SubSeq(first, numToWrite + 1, Len(first))
<1>1. /\ writer = "writing" /\ writer' = "written"
      /\ mEventQueue' \in {mEventQueue, mEventQueue \o out}
      /\ UNCHANGED <<mPendingWriteEventsQueue, numToWrite, posting>>
  BY DEF WriterWrites, WriterTimesOut, posterVars, queueVars
<1>2. /\ 1 \in DOMAIN mPendingWriteEventsQueue /\ FrontBatch = mPendingWriteEventsQueue[1]
      /\ first \in Seq(Event) /\ numToWrite \in 0..Len(first)
  BY <1>1, FrontSplit
<1>3. /\ Unwritten(1) = first /\ Unwritten(1)' = rest
      /\ \A b \in DOMAIN mPendingWriteEventsQueue \ {1} : Unwritten(b)' = Unwritten(b)
  BY <1>1, <1>2 DEF Unwritten
<1>4. ElementsOf(out) \subseteq ElementsOf(first) /\ ElementsOf(rest) \subseteq ElementsOf(first)
  BY <1>2, ElementsOfParts
<1>5. ElementsOf(mEventQueue') \subseteq ElementsOf(mEventQueue) \union ElementsOf(first)
  <2>1. out \in Seq(Event) /\ mEventQueue \in Seq(Event) /\ 0 \in 0..Len(mEventQueue)
    BY <1>2
  <2> HIDE DEF out
  <2>2. ElementsOf(mEventQueue \o out) \subseteq ElementsOf(mEventQueue) \union ElementsOf(out)
    BY <2>1, ElementsOfConcat
  <2> QED BY <1>1, <1>4, <2>2
<1>6. ElementsOf(first) \subseteq InTransit
  BY <1>2, <1>3, Transit
<1> HIDE DEF first, out, rest
<1>7. ASSUME NEW f \in InTransit' PROVE f \in InTransit
  <2>1. CASE f \in ElementsOf(mEventQueue')
    BY <1>5, <1>6, <2>1, Transit
  <2>2. CASE \E b \in DOMAIN mPendingWriteEventsQueue' : f \in ElementsOf(Unwritten(b)')
    BY <1>1, <1>3, <1>4, <1>6, <2>2, Transit
  <2>3. CASE \E q \in Posters : f \in ElementsOf(posting'[q])
    BY <1>1, <2>3, Transit
  <2> QED BY <2>1, <2>2, <2>3 DEF InTransit, ElementsOf
<1> QED BY <1>7

LEMMA EraseKeeps ==
  ASSUME EventsInv, WriterErases
  PROVE  InTransit' \subseteq InTransit
<1> USE EventsAssumption DEF EventsInv, TypeOK
<1> DEFINE first == FrontBatch.first
<1>1. writer = "written" /\ writer' = "ready" /\ UNCHANGED <<mEventQueue, posting>>
  BY DEF WriterErases, EraseWritten, posterVars
<1>2. /\ 1 \in DOMAIN mPendingWriteEventsQueue /\ FrontBatch = mPendingWriteEventsQueue[1]
      /\ first \in Seq(Event)
      /\ Len(first) > QueueSize => numToWrite = QueueSize
  BY <1>1, FrontSplit
<1>3. ASSUME NEW b \in DOMAIN mPendingWriteEventsQueue'
      PROVE  \E c \in DOMAIN mPendingWriteEventsQueue : Unwritten(b)' = Unwritten(c)
  <2>1. Unwritten(b)' = mPendingWriteEventsQueue'[b].first
    BY <1>1 DEF Unwritten
  <2>2. CASE Len(first) > QueueSize
    <3>1. mPendingWriteEventsQueue' = [mPendingWriteEventsQueue EXCEPT ![1] =
            [first |-> SubSeq(first, QueueSize + 1, Len(first)), second |-> FrontBatch.second]]
      BY <1>2, <2>2 DEF WriterErases, EraseWritten
    <3>2. b \in DOMAIN mPendingWriteEventsQueue
      BY <3>1
    <3>3. CASE b = 1
      <4>1. mPendingWriteEventsQueue'[b].first = SubSeq(first, QueueSize + 1, Len(first))
        BY <1>2, <3>1, <3>3
      <4>2. Unwritten(1) = SubSeq(first, numToWrite + 1, Len(first))
        BY <1>1, <1>2 DEF Unwritten
      <4> HIDE DEF first
      <4>3. numToWrite = QueueSize
        BY <1>2, <2>2
      <4>4. Unwritten(1) = SubSeq(first, QueueSize + 1, Len(first))
        BY <4>2, <4>3
      <4> QED BY <1>2, <2>1, <4>1, <4>4
    <3>4. CASE b # 1
      <4>1. mPendingWriteEventsQueue'[b] = mPendingWriteEventsQueue[b]
        BY <3>1, <3>2, <3>4
      <4>2. Unwritten(b) = mPendingWriteEventsQueue[b].first
        BY <3>4 DEF Unwritten
      <4> QED BY <2>1, <3>2, <4>1, <4>2
    <3> QED BY <3>3, <3>4
  <2>3. CASE ~(Len(first) > QueueSize)
    <3>1. mPendingWriteEventsQueue' = Tail(mPendingWriteEventsQueue) /\ mPendingWriteEventsQueue # <<>>
      BY <1>2, <2>3 DEF WriterErases, EraseWritten
    <3>2. b + 1 \in DOMAIN mPendingWriteEventsQueue /\ b + 1 # 1
          /\ mPendingWriteEventsQueue'[b] = mPendingWriteEventsQueue[b + 1]
      BY <3>1
    <3>3. Unwritten(b + 1) = mPendingWriteEventsQueue[b + 1].first
      BY <3>2 DEF Unwritten
    <3> QED BY <2>1, <3>2, <3>3
  <2> QED BY <2>2, <2>3
<1> HIDE DEF first
<1>4. ASSUME NEW f \in InTransit' PROVE f \in InTransit
  <2>1. CASE f \in ElementsOf(mEventQueue') \/ \E q \in Posters : f \in ElementsOf(posting'[q])
    BY <1>1, <2>1, Transit
  <2>2. CASE \E b \in DOMAIN mPendingWriteEventsQueue' : f \in ElementsOf(Unwritten(b)')
    BY <1>3, <2>2, Transit
  <2> QED BY <2>1, <2>2 DEF InTransit, ElementsOf
<1> QED BY <1>4

LEMMA StreamStep ==
  ASSUME EventsInv, EventsInv', [Next]_vars
  PROVE  [Stream!Next]_(Stream!streamVars)
<1>1. ASSUME NEW s \in Sensors, SensorPosts(s) PROVE [Stream!Next]_(Stream!streamVars)
  BY <1>1, ProduceStep DEF SensorPosts, Posters
<1>2. CASE BinderPosts
  BY <1>2, ProduceStep DEF BinderPosts, Posters
<1>3. ASSUME NEW p \in Posters, PostEventsToMessageQueue(p) PROVE [Stream!Next]_(Stream!streamVars)
  BY <1>3, PostLoses, LoseStep DEF PostEventsToMessageQueue, NumWrittenNow, AvailableToWrite, FitsPending
<1>4. CASE WriterLoop \/ WriterSleeps \/ SpuriousWakeup
  BY <1>4, QuietStep DEF WriterLoop, WriterSleeps, SpuriousWakeup, queueVars, posterVars
<1>5. CASE WriterWrites \/ WriterTimesOut
  BY <1>5, WriterLoses, LoseStep DEF WriterWrites, WriterTimesOut, posterVars
<1>6. CASE WriterErases
  BY <1>6, EraseKeeps, LoseStep DEF WriterErases, EraseWritten, posterVars
<1>7. CASE FrameworkReads
  BY <1>7, DeliverStep
<1>8. ASSUME NEW s \in Sensors, NEW on \in BOOLEAN, Activate(s, on)
      PROVE  [Stream!Next]_(Stream!streamVars)
  BY <1>8, QuietStep DEF Activate, queueVars
<1>9. CASE InitializeCommon
  <2>1. CASE StopThreads \/ NotifyThreads \/ JoinPendingWritesThread \/ AllSensorsDisabled
    BY <2>1, QuietStep DEF StopThreads, NotifyThreads, NotifyWriter, JoinPendingWritesThread,
         AllSensorsDisabled, queueVars, posterVars
  <2>2. ASSUME NEW s \in Sensors, DisableSensor(s) PROVE [Stream!Next]_(Stream!streamVars)
    BY <2>2, QuietStep DEF DisableSensor, queueVars
  <2>3. CASE DrainEventQueue
    <3>1. mEventQueue' = <<>>
          /\ UNCHANGED <<mPendingWriteEventsQueue, writer, numToWrite, posting, produced, lastRead>>
      BY <2>3 DEF DrainEventQueue, posterVars
    <3>2. InTransit' \subseteq InTransit
      BY <3>1, SameUnwritten DEF InTransit, ElementsOf
    <3> QED BY <3>1, <3>2, LoseStep
  <2>4. CASE Restart
    <3>1. mEventQueue' = <<>> /\ mPendingWriteEventsQueue' = <<>>
          /\ UNCHANGED <<posting, produced, lastRead>>
      BY <2>4 DEF Restart, posterVars
    <3>2. InTransit' \subseteq InTransit
      BY <3>1 DEF InTransit, ElementsOf
    <3> QED BY <3>1, <3>2, LoseStep
  <2> QED BY <1>9, <2>1, <2>2, <2>3, <2>4 DEF InitializeCommon
<1>10. CASE UNCHANGED vars
  BY <1>10, QuietStep DEF vars, queueVars, posterVars
<1> QED BY <1>1, <1>2, <1>3, <1>4, <1>5, <1>6, <1>7, <1>8, <1>9, <1>10 DEF Next

(* HalProxyEvents implements EventStream.                                  *)
THEOREM ImplementsStream == Spec => StreamSpec
<1>1. Init => Stream!Init
  <2> SUFFICES ASSUME Init PROVE Stream!Init
    OBVIOUS
  <2>1. InTransit = {}
    BY DEF Init, InTransit, ElementsOf
  <2> QED BY <2>1 DEF Init, Stream!Init
<1>2. EventsInv /\ EventsInv' /\ [Next]_vars => [Stream!Next]_(Stream!streamVars)
  BY StreamStep
<1> QED BY <1>1, <1>2, EventsInvariant, PTL DEF Spec, StreamSpec, Stream!Spec

-----------------------------------------------------------------------------

(***************************************************************************)
(* The shared wake lock of the multi-HAL proxy, for any number of posters, *)
(* any queue sizes and any timeouts: it is held exactly while something is *)
(* counted, the wake lock thread never sleeps while it is, and the count   *)
(* is exact until an event is dropped or the count is reset.               *)
(*                                                                         *)
(* Every step of the composition is a step of the event path, or leaves it *)
(* alone (LockedStep), so the event path's invariant carries over; the     *)
(* wake lock's own invariant LockInv needs of it that a poster's events    *)
(* are its own, so that a post under a locked ScopedWakelock counts.       *)
(*                                                                         *)
(* That the count is exact (CountInv) follows the wake-up events through   *)
(* the queues: each place is a set of pairs (the Counting lemmas), and     *)
(* every step moves elements from one place to the next.                   *)
(***************************************************************************)

(* The wake lock's actions only add to those of the event path.            *)
LEMMA LockedStep == LockNext => [Next]_vars
<1> SUFFICES ASSUME LockNext PROVE [Next]_vars
  OBVIOUS
<1>1. CASE \E s \in Sensors : LockedSensorPosts(s)
  BY <1>1 DEF LockedSensorPosts, Next
<1>2. CASE LockedBinderPosts
  BY <1>2 DEF LockedBinderPosts, Next
<1>3. CASE \E p \in Posters : CountedPost(p)
  BY <1>3 DEF CountedPost, Next
<1>4. CASE \E p \in Posters : ReleaseScopedWakelock(p)
  BY <1>4 DEF ReleaseScopedWakelock
<1>5. CASE WriterGivesUp
  BY <1>5 DEF WriterGivesUp, Next
<1>6. CASE WriterRuns
  BY <1>6 DEF WriterRuns, Next
<1>7. CASE SpuriousWakeup
  BY <1>7 DEF Next
<1>8. CASE WakelockThread \/ WakelockTimesOut \/ WakelockWakesSpuriously
  BY <1>8 DEF WakelockThread, WakelockThreadEnds, WakelockTestsCount, WakelockSleeps, WakelockReads,
     WakelockReadTimesOut, WakelockProcesses, WakelockTimesOut, WakelockWakesSpuriously
<1>9. CASE FrameworkReadsWakeup \/ FrameworkAcknowledges \/ Tick
  BY <1>9 DEF FrameworkReadsWakeup, FrameworkAcknowledges, Tick, Next
<1>10. CASE \E s \in Sensors, on \in BOOLEAN : LockedActivate(s, on)
  BY <1>10 DEF LockedActivate, Next
<1>11. CASE Reinitialize
  BY <1>11 DEF Reinitialize, StopBoth, DrainBoth, NotifyBoth, JoinBoth, LockedDisable, RestartBoth,
     InitializeCommon, Next
<1> QED BY <1>1, <1>2, <1>3, <1>4, <1>5, <1>6, <1>7, <1>8, <1>9, <1>10, <1>11 DEF LockNext

THEOREM EventPath == LockSpec => Spec
<1>1. LockInit => Init
  BY DEF LockInit
<1>2. [LockNext]_allVars => [Next]_vars
  BY LockedStep DEF allVars
<1> QED BY <1>1, <1>2, PTL DEF LockSpec, Spec

-----------------------------------------------------------------------------
(* A post of a wake-up source has wake-up events to count.                 *)
LEMMA PostCounts ==
  ASSUME EventsInv, NEW p \in WakeupSources, p \in Posters, posting[p] # <<>>
  PROVE  NumWakeupEvents(posting[p]) \in Nat \ {0}
<1> DEFINE events == posting[p]
<1>1. events \in Seq(Event) /\ 1 \in DOMAIN events
  BY DEF EventsInv, TypeOK
<1>2. \A i \in DOMAIN events : events[i].source = p
  BY DEF EventsInv, PostingOrder
<1>3. {i \in DOMAIN events : events[i].source \in WakeupSources} = 1..Len(events)
  BY <1>1, <1>2
<1>4. Len(events) \in Nat \ {0} /\ Cardinality(1..Len(events)) = Len(events)
  BY <1>1, FS_Interval
<1> QED BY <1>3, <1>4 DEF NumWakeupEvents

(* What the two reference-count operations do to the invariant.            *)
LEMMA IncrementKeeps ==
  ASSUME LockInv, NEW delta \in Nat \ {0}, IncrementRefCount(delta)
  PROVE  /\ mWakelockRefCount' \in Nat /\ wakelockHeld' \in BOOLEAN /\ lockAge' \in 0..1
         /\ wakelocker' \in {"none", "ready", "sleep", "waiting", "reading", "read", "done"}
         /\ HeldIffCounted' /\ NoMissedWakelock'
<1> USE DEF LockInv, LockTypeOK, HeldIffCounted, NoMissedWakelock
<1>1. CASE ~mThreadsRun
  BY <1>1 DEF IncrementRefCount, countVars
<1>2. CASE mThreadsRun
  <2>1. /\ mWakelockRefCount' = mWakelockRefCount + delta
        /\ lockAge' = 0
        /\ wakelocker # "sleep"
        /\ wakelocker' = IF mWakelockRefCount = 0 THEN NotifyWakelocker(wakelocker) ELSE wakelocker
    BY <1>2 DEF IncrementRefCount, WakelockMutexFree
  <2>2. wakelockHeld' = (wakelockHeld \/ mWakelockRefCount = 0)
    BY <1>2 DEF IncrementRefCount
  <2>3. mWakelockRefCount' \in Nat /\ mWakelockRefCount' > 0
    BY <2>1
  <2>4. wakelockHeld'
    <3>1. mWakelockRefCount = 0 \/ mWakelockRefCount > 0
      BY SMT
    <3>2. wakelockHeld \/ mWakelockRefCount = 0
      BY <3>1
    <3> QED BY <2>2, <3>2
  <2>5. /\ wakelocker' \in {"none", "ready", "sleep", "waiting", "reading", "read", "done"}
        /\ NoMissedWakelock'
    BY <2>1, <2>3 DEF NotifyWakelocker, NotifyWriter
  <2> QED BY <2>1, <2>3, <2>4, <2>5
<1> QED BY <1>1, <1>2

LEMMA DecrementKeeps ==
  ASSUME LockInv, NEW delta \in Nat, NEW isStale \in BOOLEAN, DecrementRefCount(delta, isStale)
  PROVE  /\ mWakelockRefCount' \in Nat /\ wakelockHeld' \in BOOLEAN
         /\ mWakelockRefCount' <= mWakelockRefCount
         /\ HeldIffCounted'
<1> USE DEF LockInv, LockTypeOK, HeldIffCounted
<1>1. CASE ~mThreadsRun
  BY <1>1 DEF DecrementRefCount, countVars
<1>2. CASE mThreadsRun
  <2>1. CountAfter(delta, isStale) \in Nat /\ CountAfter(delta, isStale) <= mWakelockRefCount
    BY DEF CountAfter, SmallerOf
  <2>2. /\ mWakelockRefCount' = CountAfter(delta, isStale)
        /\ wakelockHeld' = HeldAfter(delta, isStale)
    BY <1>2 DEF DecrementRefCount
  <2>6. isStale \/ mWakelockRefCount = 0 => CountAfter(delta, isStale) = mWakelockRefCount
    BY DEF CountAfter, SmallerOf
  <2>3. mWakelockRefCount' \in Nat /\ mWakelockRefCount' <= mWakelockRefCount
    BY <2>1, <2>2
  <2>4. mWakelockRefCount' > 0 => mWakelockRefCount > 0
    BY <2>3
  <2>5. wakelockHeld' <=> mWakelockRefCount' > 0
    BY <2>2, <2>4, <2>6 DEF HeldAfter
  <2> QED BY <2>2, <2>3, <2>5 DEF HeldAfter
<1> QED BY <1>1, <1>2

LEMMA AgedScopes ==
  ASSUME LockInv
  PROVE  /\ Aged(scoped) \in [Posters -> {"none", "locked", "stale"}]
         /\ \A p \in Posters : Aged(scoped)[p] # "none" => scoped[p] # "none"
BY DEF LockInv, LockTypeOK, Aged

(* Steps that leave the count, the wake lock and the scopes alone and do   *)
(* not put the wake lock thread to sleep.                                  *)
LEMMA LockUntouched ==
  ASSUME LockInv, UNCHANGED <<countVars, wakelocker, scoped>>, LockTypeOK'
  PROVE  LockInv'
BY DEF LockInv, countVars, HeldIffCounted, NoMissedWakelock, ScopedForWakeups

-----------------------------------------------------------------------------
LEMMA ScopeSteps ==
  ASSUME EventsInv, LockInv, NEW p \in Posters
  PROVE  /\ CreateScopedWakelock(p) => LockInv'
         /\ CountedPost(p) => LockInv'
         /\ ReleaseScopedWakelock(p) => LockInv'
<1> USE TicksAssumption
<1>1. ASSUME CreateScopedWakelock(p) PROVE LockInv'
  <2>1. CASE p \in WakeupSources
    <3>1. IncrementRefCount(1)
      BY <1>1, <2>1 DEF CreateScopedWakelock
    <3>2. LockTypeOK' /\ ScopedForWakeups'
      BY <1>1, <2>1, <3>1, IncrementKeeps
         DEF CreateScopedWakelock, LockInv, LockTypeOK, ScopedForWakeups, frameworkVars
    <3> QED BY <3>1, <3>2, IncrementKeeps DEF LockInv
  <2>2. CASE p \notin WakeupSources
    BY <1>1, <2>2, LockUntouched
       DEF CreateScopedWakelock, LockInv, LockTypeOK, frameworkVars, countVars
  <2> QED BY <2>1, <2>2
<1>2. ASSUME CountedPost(p) PROVE LockInv'
  <2>0. history' \subseteq {"dropped", "reset"}
    BY <1>2 DEF CountedPost, LockInv, LockTypeOK
  <2>1. CASE scoped[p] # "none"
    <3>1. IncrementRefCount(NumWakeupEvents(posting[p]))
      BY <1>2, <2>1 DEF CountedPost
    <3>2. NumWakeupEvents(posting[p]) \in Nat \ {0}
      BY <1>2, <2>1, PostCounts DEF CountedPost, PostEventsToMessageQueue, LockInv, ScopedForWakeups
    <3>3. LockTypeOK' /\ ScopedForWakeups'
      BY <1>2, <2>0, <3>1, <3>2, IncrementKeeps
         DEF CountedPost, LockInv, LockTypeOK, ScopedForWakeups, frameworkVars
    <3> QED BY <3>1, <3>2, <3>3, IncrementKeeps DEF LockInv
  <2>2. CASE scoped[p] = "none"
    BY <1>2, <2>0, <2>2, LockUntouched
       DEF CountedPost, LockInv, LockTypeOK, frameworkVars, countVars
  <2> QED BY <2>1, <2>2
<1>3. ASSUME ReleaseScopedWakelock(p) PROVE LockInv'
  <2>1. DecrementRefCount(1, scoped[p] = "stale")
    BY <1>3 DEF ReleaseScopedWakelock
  <2>2. LockTypeOK' /\ ScopedForWakeups'
    BY <1>3, <2>1, DecrementKeeps
       DEF ReleaseScopedWakelock, LockInv, LockTypeOK, ScopedForWakeups, threadVars, frameworkVars, timeVars
  <2>3. HeldIffCounted' /\ mWakelockRefCount' <= mWakelockRefCount
    BY <2>1, DecrementKeeps
  <2>4. NoMissedWakelock'
    BY <1>3, <2>2, <2>3 DEF ReleaseScopedWakelock, LockInv, LockTypeOK, NoMissedWakelock, threadVars
  <2> QED BY <2>2, <2>3, <2>4 DEF LockInv
<1> QED BY <1>1, <1>2, <1>3

(* A front batch in the pending queue has a well-defined count to give up. *)
LEMMA GivenUp ==
  ASSUME EventsInv, writer = "writing"
  PROVE  DroppedWakeups \in Nat
<1>1. FrontBatch.first \in Seq(Event) /\ FrontBatch.second \in Nat
  <2>1. mPendingWriteEventsQueue \in Seq(Batch) /\ mPendingWriteEventsQueue # <<>>
    BY DEF EventsInv, TypeOK, WriterHoldsFront
  <2>2. FrontBatch \in Batch
    BY <2>1 DEF FrontBatch
  <2> QED BY <2>2 DEF Batch
<1>2. Len(FrontBatch.first) > QueueSize => SubSeq(FrontBatch.first, 1, QueueSize) \in Seq(Event)
  BY <1>1, EventsAssumption
<1> QED BY <1>1, <1>2, WakeupCount DEF DroppedWakeups

LEMMA WriterSteps ==
  ASSUME EventsInv, LockInv
  PROVE  /\ WriterGivesUp => LockInv'
         /\ WriterRuns => LockInv'
         /\ SpuriousWakeup /\ UNCHANGED lockVars => LockInv'
         /\ Tick => LockInv'
<1> USE TicksAssumption
<1>1. ASSUME WriterGivesUp PROVE LockInv'
  <2>0. /\ UNCHANGED <<wakelocker, scoped>>
        /\ wakelocker' \in {"none", "ready", "sleep", "waiting", "reading", "read", "done"}
        /\ numWakeLocksProcessed' \in Nat
        /\ mWakeLockQueue' \in Seq(Nat)
        /\ scoped' \in [Posters -> {"none", "locked", "stale"}]
        /\ unacked' \in Nat
        /\ lockAge' \in 0..1
        /\ writeAge' \in 0..WriteTicks
        /\ history' \subseteq {"dropped", "reset"}
    <3> HIDE DEF DecrementRefCount, FrontBatch, DroppedWakeups, WriterTimesOut
    <3> QED BY <1>1 DEF WriterGivesUp, LockInv, LockTypeOK, threadVars, frameworkVars
  <2>1. writer = "writing"
    BY <1>1 DEF WriterGivesUp, WriterTimesOut
  <2>2. CASE FrontBatch.second > 0
    <3>1. DecrementRefCount(DroppedWakeups, FALSE)
      BY <1>1, <2>2 DEF WriterGivesUp
    <3>2. /\ mWakelockRefCount' \in Nat /\ wakelockHeld' \in BOOLEAN
          /\ HeldIffCounted' /\ mWakelockRefCount' <= mWakelockRefCount
      BY <2>1, <3>1, GivenUp, DecrementKeeps
    <3>3. LockTypeOK'
      BY <2>0, <3>2 DEF LockTypeOK
    <3>4. NoMissedWakelock' /\ ScopedForWakeups'
      BY <2>0, <3>2 DEF LockInv, LockTypeOK, NoMissedWakelock, ScopedForWakeups
    <3> QED BY <3>2, <3>3, <3>4 DEF LockInv
  <2>3. CASE ~(FrontBatch.second > 0)
    <3>1. UNCHANGED countVars
      BY <1>1, <2>3 DEF WriterGivesUp
    <3>2. LockTypeOK'
      BY <2>0, <3>1 DEF LockInv, LockTypeOK, countVars
    <3> QED BY <2>0, <3>1, <3>2, LockUntouched
  <2> QED BY <2>2, <2>3
<1>2. ASSUME WriterRuns PROVE LockInv'
  BY <1>2, LockUntouched DEF WriterRuns, LockInv, LockTypeOK, threadVars, frameworkVars, countVars
<1>3. ASSUME UNCHANGED lockVars PROVE LockInv'
  BY <1>3, LockUntouched
     DEF LockInv, LockTypeOK, lockVars, threadVars, frameworkVars, countVars, timeVars
<1>4. ASSUME Tick PROVE LockInv'
  BY <1>4, LockUntouched
     DEF Tick, WriteDue, LockInv, LockTypeOK, threadVars, frameworkVars, countVars
<1> QED BY <1>1, <1>2, <1>3, <1>4

LEMMA WakelockThreadSteps ==
  ASSUME EventsInv, LockInv
  PROVE  /\ WakelockThread => LockInv'
         /\ WakelockTimesOut => LockInv'
         /\ WakelockWakesSpuriously => LockInv'
<1> USE DEF threadVars, frameworkVars, timeVars
<1>1. ASSUME WakelockThreadEnds PROVE LockInv'
  BY <1>1, AgedScopes
     DEF WakelockThreadEnds, LockInv, LockTypeOK, HeldIffCounted, NoMissedWakelock, ScopedForWakeups, countVars
<1>2. ASSUME \/ WakelockTestsCount \/ WakelockSleeps \/ WakelockReadTimesOut
             \/ WakelockWakesSpuriously
      PROVE LockInv'
  <2>1. UNCHANGED <<vars, countVars, numWakeLocksProcessed, frameworkVars, timeVars, scoped, history>>
    BY <1>2 DEF WakelockTestsCount, WakelockSleeps, WakelockReadTimesOut, WakelockWakesSpuriously
  <2>2. /\ wakelocker' \in {"ready", "sleep", "waiting", "reading"}
        /\ wakelocker' = "sleep" => mWakelockRefCount = 0
        /\ wakelocker' = "waiting" => wakelocker = "sleep"
    BY <1>2 DEF WakelockTestsCount, WakelockSleeps, WakelockReadTimesOut, WakelockWakesSpuriously
  <2>3. LockTypeOK'
    BY <2>1, <2>2 DEF LockInv, LockTypeOK, countVars
  <2>4. NoMissedWakelock'
    BY <2>1, <2>2 DEF LockInv, NoMissedWakelock, countVars
  <2>5. HeldIffCounted' /\ ScopedForWakeups'
    BY <2>1 DEF LockInv, HeldIffCounted, ScopedForWakeups, countVars
  <2> QED BY <2>3, <2>4, <2>5 DEF LockInv
<1>3. ASSUME WakelockReads PROVE LockInv'
  BY <1>3 DEF WakelockReads, LockInv, LockTypeOK, HeldIffCounted, NoMissedWakelock, ScopedForWakeups, countVars
<1>4. ASSUME WakelockProcesses PROVE LockInv'
  <2>1. DecrementRefCount(numWakeLocksProcessed, FALSE) /\ numWakeLocksProcessed \in Nat
    BY <1>4 DEF WakelockProcesses, LockInv, LockTypeOK
  <2> QED BY <1>4, <2>1, DecrementKeeps
             DEF WakelockProcesses, LockInv, LockTypeOK, NoMissedWakelock, ScopedForWakeups
<1>5. ASSUME WakelockTimesOut PROVE LockInv'
  <2>1. DecrementRefCount(mWakelockRefCount, FALSE) /\ mWakelockRefCount \in Nat
    BY <1>5 DEF WakelockTimesOut, LockInv, LockTypeOK
  <2>2. LockTypeOK' /\ ScopedForWakeups'
    BY <1>5, <2>1, AgedScopes, DecrementKeeps
       DEF WakelockTimesOut, LockInv, LockTypeOK, ScopedForWakeups
  <2> QED BY <1>5, <2>1, <2>2, DecrementKeeps DEF WakelockTimesOut, LockInv, NoMissedWakelock
<1> QED BY <1>1, <1>2, <1>3, <1>4, <1>5 DEF WakelockThread

LEMMA FrameworkSteps ==
  ASSUME EventsInv, LockInv
  PROVE  /\ FrameworkReadsWakeup => LockInv'
         /\ FrameworkAcknowledges => LockInv'
         /\ \A s \in Sensors, on \in BOOLEAN : LockedActivate(s, on) => LockInv'
<1> USE DEF threadVars, frameworkVars, timeVars
<1>1. ASSUME FrameworkReadsWakeup PROVE LockInv'
  <2>1. <<Head(mEventQueue)>> \in Seq(Event)
    BY <1>1 DEF FrameworkReadsWakeup, FrameworkReads, EventsInv, TypeOK
  <2>2. NumWakeupEvents(<<Head(mEventQueue)>>) \in Nat
    BY <2>1, WakeupCount
  <2> QED BY <1>1, <2>2, LockUntouched DEF FrameworkReadsWakeup, LockInv, LockTypeOK, countVars
<1>2. ASSUME FrameworkAcknowledges PROVE LockInv'
  BY <1>2, LockUntouched DEF FrameworkAcknowledges, LockInv, LockTypeOK, countVars
<1>3. ASSUME UNCHANGED lockVars PROVE LockInv'
  BY <1>3, LockUntouched DEF LockInv, LockTypeOK, lockVars, countVars
<1> QED BY <1>1, <1>2, <1>3 DEF LockedActivate

LEMMA ReinitializeSteps == EventsInv /\ LockInv /\ Reinitialize => LockInv'
<1> SUFFICES ASSUME EventsInv, LockInv, Reinitialize PROVE LockInv'
  OBVIOUS
<1> USE DEF threadVars, frameworkVars, timeVars
<1>1. CASE StopBoth
  BY <1>1, LockUntouched DEF StopBoth, LockInv, LockTypeOK, countVars
<1>2. CASE DrainBoth
  BY <1>2, LockUntouched DEF DrainBoth, LockInv, LockTypeOK, countVars
<1>3. CASE NotifyBoth
  BY <1>3 DEF NotifyBoth, NotifyWakelocker, NotifyWriter, LockInv, LockTypeOK, HeldIffCounted,
     NoMissedWakelock, ScopedForWakeups, countVars
<1>4. CASE JoinBoth
  BY <1>4, AgedScopes DEF JoinBoth, LockInv, LockTypeOK, HeldIffCounted, NoMissedWakelock,
     ScopedForWakeups, countVars
<1>5. CASE RestartBoth
  <2>1. LockTypeOK'
    <3>0. /\ mWakeLockQueue' = <<>> /\ unacked' = 0 /\ wakelocker' = "ready"
          /\ history' = {} \/ history' = history
      BY <1>5, Zenon DEF RestartBoth
    <3>1. mWakeLockQueue' \in Seq(Nat)
      BY <3>0
    <3>3. unacked' \in Nat
      BY <3>0
    <3>4. wakelocker' \in {"none", "ready", "sleep", "waiting", "reading", "read", "done"}
      BY <3>0
    <3>5. history' \subseteq {"dropped", "reset"}
      BY <3>0 DEF LockInv, LockTypeOK
    <3>2. UNCHANGED <<mWakelockRefCount, wakelockHeld, numWakeLocksProcessed, timeVars, scoped>>
      BY <1>5 DEF RestartBoth, countVars
    <3> QED BY <3>1, <3>2, <3>3, <3>4, <3>5 DEF LockInv, LockTypeOK
  <2>2. HeldIffCounted'
    BY <1>5 DEF RestartBoth, LockInv, HeldIffCounted, countVars
  <2>3. NoMissedWakelock' /\ ScopedForWakeups'
    BY <1>5 DEF RestartBoth, LockInv, NoMissedWakelock, ScopedForWakeups
  <2> QED BY <2>1, <2>2, <2>3 DEF LockInv
<1>6. CASE UNCHANGED lockVars
  BY <1>6, LockUntouched DEF LockInv, LockTypeOK, lockVars, countVars
<1> QED BY <1>1, <1>2, <1>3, <1>4, <1>5, <1>6 DEF Reinitialize, LockedDisable

-----------------------------------------------------------------------------
LEMMA LockStep == EventsInv /\ LockInv /\ [LockNext]_allVars => LockInv'
<1> SUFFICES ASSUME EventsInv, LockInv, [LockNext]_allVars PROVE LockInv'
  OBVIOUS
<1>1. CASE UNCHANGED allVars
  BY <1>1, LockUntouched DEF allVars, lockVars, LockInv, LockTypeOK, countVars, threadVars,
     frameworkVars, timeVars
<1>2. CASE LockNext
  BY <1>2, ScopeSteps, WriterSteps, WakelockThreadSteps, FrameworkSteps, ReinitializeSteps
     DEF LockNext, LockedSensorPosts, LockedBinderPosts, Posters
<1> QED BY <1>1, <1>2

(* The wake lock's invariant, for every value of the constants.            *)
THEOREM LockInvariant == LockSpec => []LockInv
<1>1. LockInit => LockInv
  <2> SUFFICES ASSUME LockInit PROVE LockInv
    OBVIOUS
  <2>1. LockTypeOK
    <3>1. /\ mWakelockRefCount \in Nat /\ numWakeLocksProcessed \in Nat /\ unacked \in Nat
          /\ lockAge \in 0..1 /\ writeAge \in 0..WriteTicks
      BY TicksAssumption DEF LockInit
    <3>2. mWakeLockQueue \in Seq(Nat)
      BY DEF LockInit
    <3>3. /\ wakelocker \in {"none", "ready", "sleep", "waiting", "reading", "read", "done"}
          /\ history \subseteq {"dropped", "reset"}
      BY DEF LockInit
    <3>4. wakelockHeld \in BOOLEAN
      BY Zenon DEF LockInit
    <3>5. scoped \in [Posters -> {"none", "locked", "stale"}]
      BY DEF LockInit
    <3> QED BY <3>1, <3>2, <3>3, <3>4, <3>5 DEF LockTypeOK
  <2>2. HeldIffCounted /\ NoMissedWakelock /\ ScopedForWakeups
    BY DEF LockInit, HeldIffCounted, NoMissedWakelock, ScopedForWakeups
  <2> QED BY <2>1, <2>2 DEF LockInv
<1>2. LockSpec => []EventsInv
  BY EventPath, EventsInvariant, PTL
<1> QED BY <1>1, <1>2, LockStep, PTL DEF LockSpec

(* The reference count never wraps below zero, whatever is acknowledged    *)
(* late, given up or reset: decrementRefCountAndMaybeReleaseWakelock takes *)
(* away no more than there is.                                             *)
THEOREM LockTypeCorrect == LockSpec => []LockTypeOK
<1>1. LockInv => LockTypeOK
  BY DEF LockInv
<1> QED BY <1>1, LockInvariant, PTL

(* The wake lock is held exactly while the reference count is positive.    *)
THEOREM HeldWhileCounted == LockSpec => []HeldIffCounted
<1>1. LockInv => HeldIffCounted
  BY DEF LockInv
<1> QED BY <1>1, LockInvariant, PTL

(* The wake lock thread never sleeps through an acquisition.               *)
THEOREM NoWakelockMissed == LockSpec => []NoMissedWakelock
<1>1. LockInv => NoMissedWakelock
  BY DEF LockInv
<1> QED BY <1>1, LockInvariant, PTL

-----------------------------------------------------------------------------
(* The exact count.                                                        *)

(* The places of a sequence's wake-up events.                              *)
Wakeups(events) == {i \in DOMAIN events : events[i].source \in WakeupSources}

LEMMA WakeupPlaces ==
  ASSUME NEW events \in Seq(Event)
  PROVE  /\ Wakeups(events) \in SUBSET Int /\ IsFiniteSet(Wakeups(events))
         /\ NumWakeupEvents(events) = Cardinality(Wakeups(events))
         /\ NumWakeupEvents(events) \in Nat
<1> DEFINE n == Len(events)
<1>1. n \in Nat /\ DOMAIN events = 1..n
  OBVIOUS
<1> HIDE DEF n
<1>2. 1 \in Int /\ n \in Int
  BY <1>1
<1>3. IsFiniteSet(1..n)
  BY <1>2, FS_Interval
<1>4. Wakeups(events) \subseteq 1..n
  BY <1>1 DEF Wakeups
<1> QED BY <1>1, <1>3, <1>4, FS_Subset, FS_CardinalityType DEF NumWakeupEvents, Wakeups

(* A sequence made of two has the wake-ups of both.                        *)
LEMMA WakeupsOfBoth ==
  ASSUME NEW s \in Seq(Event), NEW t \in Seq(Event), NEW u \in Seq(Event),
         Len(u) = Len(s) + Len(t),
         \A i \in 1..Len(s) : u[i] = s[i],
         \A i \in 1..Len(t) : u[i + Len(s)] = t[i]
  PROVE  NumWakeupEvents(u) = NumWakeupEvents(s) + NumWakeupEvents(t)
<1> DEFINE n == Len(s)
           T == {i + n : i \in Wakeups(t)}
<1>1. /\ n \in Nat /\ DOMAIN s = 1..n /\ DOMAIN t = 1..Len(t) /\ Len(t) \in Nat
      /\ DOMAIN u = 1..n + Len(t)
  OBVIOUS
<1>2. /\ \A i \in DOMAIN s : u[i] = s[i]
      /\ \A i \in DOMAIN t : u[i + n] = t[i]
  <2>1. DOMAIN s = 1..Len(s) /\ DOMAIN t = 1..Len(t)
    OBVIOUS
  <2> QED BY <2>1
<1>3. Wakeups(u) = Wakeups(s) \union T
  <2> HIDE DEF n
  <2>1. ASSUME NEW i \in Wakeups(u) PROVE i \in Wakeups(s) \union T
    <3>1. i \in 1..n + Len(t) /\ u[i].source \in WakeupSources
      BY <1>1 DEF Wakeups
    <3>2. CASE i <= n
      BY <1>1, <1>2, <3>1, <3>2 DEF Wakeups
    <3>3. CASE i > n
      <4>1. i - n \in DOMAIN t /\ i = (i - n) + n
        BY <1>1, <3>1, <3>3
      <4>2. i - n \in Wakeups(t)
        BY <1>1, <1>2, <3>1, <4>1 DEF Wakeups
      <4> QED BY <4>1, <4>2
    <3> QED BY <1>1, <3>1, <3>2, <3>3
  <2>2. ASSUME NEW i \in Wakeups(s) PROVE i \in Wakeups(u)
    BY <1>1, <1>2 DEF Wakeups
  <2>3. ASSUME NEW i \in Wakeups(t) PROVE i + n \in Wakeups(u)
    BY <1>1, <1>2 DEF Wakeups
  <2> QED BY <2>1, <2>2, <2>3
<1>4. Wakeups(s) \cap T = {}
  <2> HIDE DEF n
  <2> QED BY <1>1 DEF Wakeups
<1>5. /\ Wakeups(t) \in SUBSET Int /\ IsFiniteSet(Wakeups(t)) /\ IsFiniteSet(Wakeups(s))
      /\ NumWakeupEvents(s) = Cardinality(Wakeups(s))
      /\ NumWakeupEvents(t) = Cardinality(Wakeups(t))
      /\ NumWakeupEvents(u) = Cardinality(Wakeups(u))
  BY WakeupPlaces
<1>6. IsFiniteSet(T) /\ Cardinality(T) = Cardinality(Wakeups(t))
  <2>1. n \in Int
    BY <1>1
  <2> HIDE DEF n
  <2> QED BY <1>5, <2>1, ShiftedSet
<1> HIDE DEF T
<1>7. Cardinality(Wakeups(s) \union T) = Cardinality(Wakeups(s)) + Cardinality(T)
  BY <1>4, <1>5, <1>6, DisjointUnion
<1> QED BY <1>3, <1>5, <1>6, <1>7

LEMMA WakeupsOfConcat ==
  ASSUME NEW s \in Seq(Event), NEW t \in Seq(Event)
  PROVE  NumWakeupEvents(s \o t) = NumWakeupEvents(s) + NumWakeupEvents(t)
<1>1. /\ s \o t \in Seq(Event) /\ Len(s \o t) = Len(s) + Len(t)
      /\ \A i \in 1..Len(s) : (s \o t)[i] = s[i]
      /\ \A i \in 1..Len(t) : (s \o t)[i + Len(s)] = t[i]
  OBVIOUS
<1> QED BY <1>1, WakeupsOfBoth

LEMMA WakeupsOfParts ==
  ASSUME NEW s \in Seq(Event), NEW n \in 0..Len(s)
  PROVE  NumWakeupEvents(s) = NumWakeupEvents(SubSeq(s, 1, n)) + NumWakeupEvents(SubSeq(s, n + 1, Len(s)))
<1> DEFINE a == SubSeq(s, 1, n)
           b == SubSeq(s, n + 1, Len(s))
<1>1. /\ a \in Seq(Event) /\ Len(a) = n /\ \A i \in 1..n : s[i] = a[i]
      /\ b \in Seq(Event) /\ Len(b) = Len(s) - n /\ \A i \in 1..Len(s) - n : s[i + n] = b[i]
      /\ n \in Nat /\ Len(s) \in Nat
  OBVIOUS
<1> HIDE DEF a, b
<1>2. /\ Len(s) = Len(a) + Len(b)
      /\ \A i \in 1..Len(a) : s[i] = a[i]
      /\ \A i \in 1..Len(b) : s[i + Len(a)] = b[i]
  BY <1>1
<1>3. NumWakeupEvents(s) = NumWakeupEvents(a) + NumWakeupEvents(b)
  BY <1>1, <1>2, WakeupsOfBoth
<1> QED BY <1>3 DEF a, b

LEMMA WakeupsOfHead ==
  ASSUME NEW s \in Seq(Event), s # <<>>
  PROVE  NumWakeupEvents(s) = NumWakeupEvents(<<Head(s)>>) + NumWakeupEvents(Tail(s))
<1>1. /\ <<Head(s)>> \in Seq(Event) /\ Tail(s) \in Seq(Event)
      /\ Len(<<Head(s)>>) = 1 /\ Len(s) = 1 + Len(Tail(s))
      /\ \A i \in 1..1 : s[i] = <<Head(s)>>[i]
      /\ \A i \in 1..Len(Tail(s)) : s[i + 1] = Tail(s)[i]
  OBVIOUS
<1> QED BY <1>1, WakeupsOfBoth

LEMMA NoWakeups == NumWakeupEvents(<<>>) = 0
<1>1. {i \in DOMAIN <<>> : <<>>[i].source \in WakeupSources} = {}
  OBVIOUS
<1> QED BY <1>1, FS_EmptySet DEF NumWakeupEvents

-----------------------------------------------------------------------------
(* The wake-ups in the two event queues.                                   *)

PendingPlaces == [b \in DOMAIN mPendingWriteEventsQueue |-> Wakeups(Unwritten(b))]

PendingCounted ==
  /\ PendingWakeups = Pairs(1..Len(mPendingWriteEventsQueue), PendingPlaces)
  /\ Len(mPendingWriteEventsQueue) \in Nat
  /\ \A b \in 1..Len(mPendingWriteEventsQueue) :
       /\ IsFiniteSet(PendingPlaces[b])
       /\ Cardinality(PendingPlaces[b]) = NumWakeupEvents(Unwritten(b))
  /\ Cardinality(PendingWakeups) \in Nat

LEMMA PendingCount == EventsInv => PendingCounted
<1> SUFFICES ASSUME EventsInv PROVE PendingCounted
  OBVIOUS
<1> DEFINE n == Len(mPendingWriteEventsQueue)
<1>1. DOMAIN mPendingWriteEventsQueue = 1..n /\ n \in Nat
  BY DEF EventsInv, TypeOK
<1> HIDE DEF n
<1>2. PendingWakeups = Pairs(1..n, PendingPlaces)
  BY <1>1 DEF PendingWakeups, Pairs, PendingPlaces, Wakeups
<1>3. ASSUME NEW b \in 1..n
      PROVE  /\ IsFiniteSet(PendingPlaces[b])
             /\ Cardinality(PendingPlaces[b]) = NumWakeupEvents(Unwritten(b))
  <2>1. PendingPlaces[b] = Wakeups(Unwritten(b))
    BY <1>1 DEF PendingPlaces
  <2>2. Unwritten(b) \in Seq(Event)
    BY <1>1, UnwrittenTypes
  <2> QED BY <2>1, <2>2, WakeupPlaces
<1>4. IsFiniteSet(1..n)
  <2>1. 1 \in Int /\ n \in Int
    BY <1>1
  <2> QED BY <2>1, FS_Interval
<1>5. Cardinality(PendingWakeups) \in Nat
  BY <1>2, <1>3, <1>4, PairsFinite
<1> QED BY <1>1, <1>2, <1>3, <1>5 DEF PendingCounted, n

LEMMA PendingCountBoth ==
  ASSUME EventsInv, EventsInv'
  PROVE  PendingCounted /\ PendingCounted'
<1>1. (EventsInv => PendingCounted)'
  BY PendingCount, PTL
<1> QED BY <1>1, PendingCount

LEMMA PendingWakeupsKept ==
  ASSUME UNCHANGED mPendingWriteEventsQueue,
         \A b \in DOMAIN mPendingWriteEventsQueue : Unwritten(b)' = Unwritten(b)
  PROVE  PendingWakeups' = PendingWakeups
BY DEF PendingWakeups

(* A post without overflow moves all its wake-ups to the two queues.       *)
LEMMA PostKeepsWakeups ==
  ASSUME EventsInv, EventsInv', NEW p \in Posters, PostEventsToMessageQueue(p), ~Overflows(p)
  PROVE  NumWakeupEvents(mEventQueue') + Cardinality(PendingWakeups')
           = NumWakeupEvents(mEventQueue) + Cardinality(PendingWakeups) + NumWakeupEvents(posting[p])
<1> DEFINE events == posting[p]
           n == NumWrittenNow(events)
           numLeft == Len(events) - n
           now == SubSeq(events, 1, n)
           later == SubSeq(events, n + 1, Len(events))
           left == [first |-> later, second |-> NumWakeupEvents(events)]
<1>1. events \in Seq(Event) /\ n \in 0..Len(events) /\ mEventQueue \in Seq(Event)
  BY EventsAssumption DEF EventsInv, TypeOK, NumWrittenNow, AvailableToWrite, SmallerOf
<1>2. now \in Seq(Event) /\ later \in Seq(Event) /\ left.first = later
  <2>1. left.first = later
    OBVIOUS
  <2> HIDE DEF n, events, left
  <2>2. n \in Nat /\ Len(events) \in Nat /\ n <= Len(events)
    BY <1>1
  <2>3. now \in Seq(Event)
    BY <1>1, <2>2
  <2>4. later \in Seq(Event)
    BY <1>1, <2>2
  <2> QED BY <2>1, <2>3, <2>4
<1>3. /\ mEventQueue' = mEventQueue \o now
      /\ numToWrite' = numToWrite
      /\ writer' = "written" <=> writer = "written"
  BY DEF PostEventsToMessageQueue, NotifyWriter
<1>4. NumWakeupEvents(events) = NumWakeupEvents(now) + NumWakeupEvents(later)
  <2> HIDE DEF n, events
  <2> QED BY <1>1, WakeupsOfParts
<1>5. /\ NumWakeupEvents(now) \in Nat /\ NumWakeupEvents(later) \in Nat
      /\ NumWakeupEvents(mEventQueue) \in Nat
  BY <1>1, <1>2, WakeupCount
<1>6. NumWakeupEvents(mEventQueue') = NumWakeupEvents(mEventQueue) + NumWakeupEvents(now)
  <2> HIDE DEF now
  <2> QED BY <1>1, <1>2, <1>3, WakeupsOfConcat
<1>7. /\ mPendingWriteEventsQueue \in Seq(Batch)
      /\ mPendingWriteEventsQueue = <<>> => writer # "written"
  BY DEF EventsInv, TypeOK, WriterHoldsFront
<1>8. PendingCounted /\ PendingCounted'
  BY PendingCountBoth
<1>9. CASE n < Len(events)
  <2>1. mPendingWriteEventsQueue' = Append(mPendingWriteEventsQueue, left)
    <3>1. numLeft > 0
      BY <1>1, <1>9
    <3>2. FitsPending(numLeft)
      BY <3>1 DEF Overflows
    <3> QED BY <1>9, <3>2 DEF PostEventsToMessageQueue
  <2> HIDE DEF left, later, now, n, events, numLeft
  <2>a. PICK k \in Nat : k = Len(mPendingWriteEventsQueue)
    BY <1>7
  <2>2. /\ Len(mPendingWriteEventsQueue) = k /\ Len(mPendingWriteEventsQueue') = k + 1
        /\ mPendingWriteEventsQueue'[k + 1] = left
        /\ DOMAIN mPendingWriteEventsQueue = 1..k
        /\ DOMAIN mPendingWriteEventsQueue' = 1..k + 1
        /\ \A b \in 1..k : mPendingWriteEventsQueue'[b] = mPendingWriteEventsQueue[b]
        /\ k = 0 => mPendingWriteEventsQueue = <<>>
    BY <1>7, <2>1, <2>a
  <2>3. \A b \in 1..k : Unwritten(b)' = Unwritten(b)
    BY <1>3, <2>2 DEF Unwritten
  <2>4. \A b \in 1..k : PendingPlaces'[b] = PendingPlaces[b]
    BY <2>2, <2>3 DEF PendingPlaces, Wakeups
  <2>5. Unwritten(k + 1)' = later
    <3>1. ~(k + 1 = 1 /\ writer' = "written")
      BY <1>3, <1>7, <2>2
    <3> QED BY <1>2, <2>2, <3>1 DEF Unwritten
  <2>6. /\ PendingWakeups = Pairs(1..k, PendingPlaces)
        /\ PendingWakeups' = Pairs(1..k + 1, PendingPlaces')
        /\ \A b \in 1..k + 1 : IsFiniteSet(PendingPlaces'[b])
        /\ Cardinality(PendingPlaces'[k + 1]) = NumWakeupEvents(later)
    BY <1>8, <2>2, <2>5 DEF PendingCounted
  <2>7. Cardinality(Pairs(1..k + 1, PendingPlaces'))
          = Cardinality(Pairs(1..k, PendingPlaces)) + Cardinality(PendingPlaces'[k + 1])
    BY <2>2, <2>4, <2>6, CountAppend
  <2>8. Cardinality(PendingWakeups) \in Nat
    BY <1>8 DEF PendingCounted
  <2> QED BY <1>4, <1>5, <1>6, <2>6, <2>7, <2>8 DEF events
<1>10. CASE ~(n < Len(events))
  <2>1. mPendingWriteEventsQueue' = mPendingWriteEventsQueue
    BY <1>10 DEF PostEventsToMessageQueue
  <2>2. later = <<>>
    BY <1>1, <1>10
  <2>3. PendingWakeups' = PendingWakeups
    BY <1>3, <2>1, PendingWakeupsKept DEF Unwritten
  <2>4. Cardinality(PendingWakeups) \in Nat
    BY <1>8 DEF PendingCounted
  <2> HIDE DEF later, now, events, n
  <2> QED BY <1>4, <1>5, <1>6, <2>2, <2>3, <2>4, NoWakeups DEF events
<1> QED BY <1>9, <1>10

(* A write moves wake-ups from the front batch to the FMQ.                 *)
LEMMA WriteKeepsWakeups ==
  ASSUME EventsInv, EventsInv', WriterWrites
  PROVE  NumWakeupEvents(mEventQueue') + Cardinality(PendingWakeups')
           = NumWakeupEvents(mEventQueue) + Cardinality(PendingWakeups)
<1> DEFINE first == FrontBatch.first
           out == SubSeq(first, 1, numToWrite)
           rest == SubSeq(first, numToWrite + 1, Len(first))
           n == Len(mPendingWriteEventsQueue) - 1
<1>1. /\ writer = "writing" /\ writer' = "written"
      /\ mEventQueue' = mEventQueue \o out
      /\ UNCHANGED <<mPendingWriteEventsQueue, numToWrite>>
      /\ mEventQueue \in Seq(Event)
  BY DEF WriterWrites, EventsInv, TypeOK
<1>2. /\ 1 \in DOMAIN mPendingWriteEventsQueue /\ FrontBatch = mPendingWriteEventsQueue[1]
      /\ first \in Seq(Event) /\ numToWrite \in 0..Len(first)
  BY <1>1, FrontSplit
<1>3. /\ Unwritten(1) = first /\ Unwritten(1)' = rest
      /\ \A b \in DOMAIN mPendingWriteEventsQueue \ {1} : Unwritten(b)' = Unwritten(b)
  BY <1>1, <1>2 DEF Unwritten
<1>4. out \in Seq(Event) /\ rest \in Seq(Event)
  BY <1>2
<1> HIDE DEF first
<1>5. NumWakeupEvents(first) = NumWakeupEvents(out) + NumWakeupEvents(rest)
  BY <1>2, WakeupsOfParts
<1> HIDE DEF out, rest
<1>6. NumWakeupEvents(mEventQueue') = NumWakeupEvents(mEventQueue) + NumWakeupEvents(out)
  BY <1>1, <1>4, WakeupsOfConcat
<1>7. /\ NumWakeupEvents(out) \in Nat /\ NumWakeupEvents(rest) \in Nat
      /\ NumWakeupEvents(mEventQueue) \in Nat
  BY <1>1, <1>4, WakeupCount
<1>8. PendingCounted /\ PendingCounted'
  BY PendingCountBoth
<1>9. n \in Nat /\ Len(mPendingWriteEventsQueue) = n + 1 /\ DOMAIN mPendingWriteEventsQueue = 1..n + 1
  BY <1>2 DEF EventsInv, TypeOK
<1> HIDE DEF n
<1>a. 1 \in 1..n + 1 /\ Len(mPendingWriteEventsQueue') = n + 1
  BY <1>1, <1>9
<1>10. /\ PendingWakeups = Pairs(1..n + 1, PendingPlaces)
       /\ PendingWakeups' = Pairs(1..n + 1, PendingPlaces')
       /\ \A b \in 1..n + 1 : IsFiniteSet(PendingPlaces[b]) /\ IsFiniteSet(PendingPlaces'[b])
       /\ Cardinality(PendingPlaces[1]) = NumWakeupEvents(first)
       /\ Cardinality(PendingPlaces'[1]) = NumWakeupEvents(rest)
  BY <1>3, <1>8, <1>9, <1>a DEF PendingCounted
<1>11. \A b \in 2..n + 1 : PendingPlaces'[b] = PendingPlaces[b]
  <2> SUFFICES ASSUME NEW b \in 2..n + 1 PROVE PendingPlaces'[b] = PendingPlaces[b]
    OBVIOUS
  <2>1. b \in DOMAIN mPendingWriteEventsQueue /\ b # 1
    BY <1>9
  <2>2. Unwritten(b)' = Unwritten(b)
    BY <1>3, <2>1
  <2> QED BY <1>1, <2>1, <2>2 DEF PendingPlaces, Wakeups
<1>12. Cardinality(Pairs(1..n + 1, PendingPlaces')) = Cardinality(Pairs(1..n + 1, PendingPlaces))
          - Cardinality(PendingPlaces[1]) + Cardinality(PendingPlaces'[1])
  BY <1>9, <1>10, <1>11, CountReplace
<1>13. Cardinality(PendingWakeups) \in Nat
  BY <1>8 DEF PendingCounted
<1> QED BY <1>5, <1>6, <1>7, <1>10, <1>12, <1>13

(* The erase takes away what the write left out of account already.        *)
LEMMA EraseKeepsWakeups ==
  ASSUME EventsInv, EventsInv', WriterErases
  PROVE  Cardinality(PendingWakeups') = Cardinality(PendingWakeups)
<1> USE EventsAssumption
<1> DEFINE first == FrontBatch.first
           n == Len(mPendingWriteEventsQueue) - 1
<1>1. writer = "written" /\ writer' = "ready"
  BY DEF WriterErases
<1>2. /\ 1 \in DOMAIN mPendingWriteEventsQueue /\ FrontBatch = mPendingWriteEventsQueue[1]
      /\ first \in Seq(Event) /\ numToWrite \in 0..Len(first)
      /\ Len(first) > QueueSize => numToWrite = QueueSize
      /\ Len(first) <= QueueSize => numToWrite = Len(first)
  BY <1>1, FrontSplit
<1>3. mPendingWriteEventsQueue \in Seq(Batch) /\ mPendingWriteEventsQueue # <<>>
  BY <1>2 DEF EventsInv, TypeOK
<1>4. n \in Nat /\ Len(mPendingWriteEventsQueue) = n + 1 /\ DOMAIN mPendingWriteEventsQueue = 1..n + 1
  BY <1>3
<1>5. Unwritten(1) = SubSeq(first, numToWrite + 1, Len(first))
  BY <1>1, <1>2 DEF Unwritten
<1>6. PendingCounted /\ PendingCounted'
  BY PendingCountBoth
<1> HIDE DEF n
<1>7. \A b \in DOMAIN mPendingWriteEventsQueue' : Unwritten(b)' = mPendingWriteEventsQueue'[b].first
  BY <1>1 DEF Unwritten
<1>8. \A b \in 2..n + 1 : Unwritten(b) = mPendingWriteEventsQueue[b].first
  BY DEF Unwritten
<1>9. CASE Len(first) > QueueSize
  <2>1. mPendingWriteEventsQueue' = [mPendingWriteEventsQueue EXCEPT ![1] = EraseWritten(FrontBatch)]
    BY <1>2, <1>9 DEF WriterErases, EraseWritten
  <2>2. EraseWritten(FrontBatch).first = Unwritten(1)
    BY <1>2, <1>5, <1>9 DEF EraseWritten
  <2>3. /\ DOMAIN mPendingWriteEventsQueue' = 1..n + 1
        /\ mPendingWriteEventsQueue'[1] = EraseWritten(FrontBatch)
        /\ \A b \in 2..n + 1 : mPendingWriteEventsQueue'[b] = mPendingWriteEventsQueue[b]
    BY <1>3, <1>4, <2>1
  <2>4. \A b \in DOMAIN mPendingWriteEventsQueue : Unwritten(b)' = Unwritten(b)
    <3>1. Unwritten(1)' = Unwritten(1)
      BY <1>4, <1>7, <2>2, <2>3
    <3>2. \A b \in 2..n + 1 : Unwritten(b)' = Unwritten(b)
      BY <1>4, <1>7, <1>8, <2>3
    <3>3. \A b \in DOMAIN mPendingWriteEventsQueue : b = 1 \/ b \in 2..n + 1
      BY <1>4
    <3> QED BY <3>1, <3>2, <3>3
  <2>5. DOMAIN mPendingWriteEventsQueue' = DOMAIN mPendingWriteEventsQueue
    BY <1>4, <2>3
  <2> QED BY <2>4, <2>5 DEF PendingWakeups
<1>10. CASE ~(Len(first) > QueueSize)
  <2>1. mPendingWriteEventsQueue' = Tail(mPendingWriteEventsQueue)
    BY <1>10 DEF WriterErases
  <2>2. /\ DOMAIN mPendingWriteEventsQueue' = 1..n /\ Len(mPendingWriteEventsQueue') = n
        /\ \A b \in 1..n : mPendingWriteEventsQueue'[b] = mPendingWriteEventsQueue[b + 1]
    BY <1>3, <1>4, <2>1
  <2>3. \A b \in 1..n : Unwritten(b)' = Unwritten(b + 1)
    <3>1. \A b \in 1..n : b + 1 \in 2..n + 1
      BY <1>4
    <3> QED BY <1>7, <1>8, <2>2, <3>1
  <2>4. \A b \in 1..n : PendingPlaces'[b] = PendingPlaces[b + 1]
    <3>1. \A b \in 1..n : b + 1 \in 1..n + 1
      BY <1>4
    <3> QED BY <1>4, <2>2, <2>3, <3>1 DEF PendingPlaces, Wakeups
  <2>5. Unwritten(1) = <<>>
    BY <1>2, <1>5, <1>10
  <2>6. /\ PendingWakeups = Pairs(1..n + 1, PendingPlaces)
        /\ PendingWakeups' = Pairs(1..n, PendingPlaces')
        /\ \A b \in 1..n + 1 : IsFiniteSet(PendingPlaces[b])
        /\ Cardinality(PendingPlaces[1]) = 0
        /\ Cardinality(PendingWakeups) \in Nat
    BY <1>4, <1>6, <2>2, <2>5, NoWakeups DEF PendingCounted
  <2>7. Cardinality(Pairs(1..n, PendingPlaces'))
          = Cardinality(Pairs(1..n + 1, PendingPlaces)) - Cardinality(PendingPlaces[1])
    BY <1>4, <2>4, <2>6, CountTail
  <2> QED BY <2>6, <2>7
<1> QED BY <1>9, <1>10

-----------------------------------------------------------------------------
(* The acknowledgements in the wake lock FMQ.                              *)

AckPlaces == [i \in DOMAIN mWakeLockQueue |-> 1..mWakeLockQueue[i]]

AckCounted ==
  /\ Acknowledged = Pairs(1..Len(mWakeLockQueue), AckPlaces)
  /\ Len(mWakeLockQueue) \in Nat
  /\ \A i \in 1..Len(mWakeLockQueue) :
       IsFiniteSet(AckPlaces[i]) /\ Cardinality(AckPlaces[i]) = mWakeLockQueue[i]
  /\ Cardinality(Acknowledged) \in Nat

LEMMA AckCount == LockInv => AckCounted
<1> SUFFICES ASSUME LockInv PROVE AckCounted
  OBVIOUS
<1> DEFINE n == Len(mWakeLockQueue)
<1>1. DOMAIN mWakeLockQueue = 1..n /\ n \in Nat /\ \A i \in 1..n : mWakeLockQueue[i] \in Nat
  BY DEF LockInv, LockTypeOK
<1> HIDE DEF n
<1>2. Acknowledged = Pairs(1..n, AckPlaces)
  BY <1>1 DEF Acknowledged, Pairs, AckPlaces
<1>3. ASSUME NEW i \in 1..n
      PROVE  IsFiniteSet(AckPlaces[i]) /\ Cardinality(AckPlaces[i]) = mWakeLockQueue[i]
  <2> DEFINE m == mWakeLockQueue[i]
  <2>1. AckPlaces[i] = 1..m /\ m \in Nat
    BY <1>1 DEF AckPlaces
  <2> HIDE DEF m
  <2>2. 1 \in Int /\ m \in Int
    BY <2>1
  <2>3. IsFiniteSet(1..m) /\ Cardinality(1..m) = m
    BY <2>1, <2>2, FS_Interval
  <2> QED BY <2>1, <2>3 DEF m
<1>4. IsFiniteSet(1..n)
  <2>1. 1 \in Int /\ n \in Int
    BY <1>1
  <2> QED BY <2>1, FS_Interval
<1>5. Cardinality(Acknowledged) \in Nat
  BY <1>2, <1>3, <1>4, PairsFinite
<1> QED BY <1>1, <1>2, <1>3, <1>5 DEF AckCounted, n

LEMMA AckCountBoth ==
  ASSUME LockInv, LockInv'
  PROVE  AckCounted /\ AckCounted'
<1>1. (LockInv => AckCounted)'
  BY AckCount, PTL
<1> QED BY <1>1, AckCount

LEMMA AckAppended ==
  ASSUME LockInv, LockInv', NEW m \in Nat, mWakeLockQueue' = Append(mWakeLockQueue, m)
  PROVE  Cardinality(Acknowledged') = Cardinality(Acknowledged) + m
<1> DEFINE k == Len(mWakeLockQueue)
<1>1. AckCounted /\ AckCounted'
  BY AckCountBoth
<1>2. /\ k \in Nat /\ Len(mWakeLockQueue') = k + 1 /\ mWakeLockQueue'[k + 1] = m
      /\ DOMAIN mWakeLockQueue = 1..k /\ DOMAIN mWakeLockQueue' = 1..k + 1
      /\ \A i \in 1..k : mWakeLockQueue'[i] = mWakeLockQueue[i]
  BY DEF LockInv, LockTypeOK
<1> HIDE DEF k
<1>3. \A i \in 1..k : AckPlaces'[i] = AckPlaces[i]
  BY <1>2 DEF AckPlaces
<1>4. /\ Acknowledged = Pairs(1..k, AckPlaces) /\ Acknowledged' = Pairs(1..k + 1, AckPlaces')
      /\ \A i \in 1..k + 1 : IsFiniteSet(AckPlaces'[i])
      /\ Cardinality(AckPlaces'[k + 1]) = m
  BY <1>1, <1>2 DEF AckCounted, k
<1>5. Cardinality(Pairs(1..k + 1, AckPlaces')) = Cardinality(Pairs(1..k, AckPlaces)) + Cardinality(AckPlaces'[k + 1])
  BY <1>2, <1>3, <1>4, CountAppend
<1> QED BY <1>4, <1>5

LEMMA AckTaken ==
  ASSUME LockInv, LockInv', mWakeLockQueue # <<>>, mWakeLockQueue' = Tail(mWakeLockQueue)
  PROVE  /\ Cardinality(Acknowledged) = Cardinality(Acknowledged') + Head(mWakeLockQueue)
         /\ Head(mWakeLockQueue) \in Nat
<1> DEFINE n == Len(mWakeLockQueue) - 1
<1>1. AckCounted /\ AckCounted'
  BY AckCountBoth
<1>2. /\ n \in Nat /\ Len(mWakeLockQueue) = n + 1 /\ Len(mWakeLockQueue') = n
      /\ DOMAIN mWakeLockQueue = 1..n + 1 /\ DOMAIN mWakeLockQueue' = 1..n
      /\ \A i \in 1..n : mWakeLockQueue'[i] = mWakeLockQueue[i + 1]
      /\ Head(mWakeLockQueue) = mWakeLockQueue[1] /\ mWakeLockQueue[1] \in Nat
  BY DEF LockInv, LockTypeOK
<1> HIDE DEF n
<1>3. \A i \in 1..n : AckPlaces'[i] = AckPlaces[i + 1]
  BY <1>2 DEF AckPlaces
<1>4. /\ Acknowledged = Pairs(1..n + 1, AckPlaces) /\ Acknowledged' = Pairs(1..n, AckPlaces')
      /\ \A i \in 1..n + 1 : IsFiniteSet(AckPlaces[i])
      /\ Cardinality(AckPlaces[1]) = Head(mWakeLockQueue)
      /\ Cardinality(Acknowledged) \in Nat
  BY <1>1, <1>2 DEF AckCounted
<1>5. Cardinality(Pairs(1..n, AckPlaces')) = Cardinality(Pairs(1..n + 1, AckPlaces)) - Cardinality(AckPlaces[1])
  BY <1>2, <1>3, <1>4, CountTail
<1> QED BY <1>2, <1>4, <1>5

-----------------------------------------------------------------------------
(* Every step keeps the conditions under which the count is exact.         *)

LEMMA FewerScopes ==
  ASSUME IsFiniteSet(Scopes), Scopes' \subseteq Scopes
  PROVE  IsFiniteSet(Scopes') /\ (Scopes = {} => Scopes' = {})
BY FS_Subset

LEMMA StillGuarded ==
  ASSUME CountInv, UNCHANGED <<mThreadsRun, posting, wakelocker, numWakeLocksProcessed, scoped>>,
         history \subseteq history', binder' \in {"disable", "restart"} => binder \in {"disable", "restart"}
  PROVE  CountGuards'
<1>1. Scopes' = Scopes
  BY DEF Scopes
<1> QED BY <1>1 DEF CountInv, CountGuards

(* While the queues may be cleared the threads do not run.                 *)
LEMMA StoppedForRestart ==
  ASSUME EventsInv
  PROVE  binder \in {"drain", "notify", "join", "disable", "restart"} => ~mThreadsRun
BY DEF EventsInv, Lifecycle

LEMMA BeginGuarded ==
  ASSUME EventsInv, LockInv, CountInv, NEW p \in Posters, NEW n \in Nat, BeginPost(p, n),
         CreateScopedWakelock(p)
  PROVE  CountGuards'
<1>1. /\ UNCHANGED <<mThreadsRun, binder, history, numWakeLocksProcessed>>
      /\ posting' = [posting EXCEPT ![p] = IF mThreadsRun THEN NewEvents(p, n) ELSE <<>>]
      /\ posting \in [Posters -> Seq(Event)]
      /\ scoped \in [Posters -> {"none", "locked", "stale"}]
  BY DEF BeginPost, CreateScopedWakelock, EventsInv, TypeOK, LockInv, LockTypeOK
<1>2. CASE p \in WakeupSources
  <2>1. /\ scoped' = [scoped EXCEPT ![p] = IF mThreadsRun THEN "locked" ELSE "none"]
        /\ IncrementRefCount(1)
    BY <1>2 DEF CreateScopedWakelock
  <2>2. Scopes' \subseteq Scopes \union {p}
    BY <1>1, <2>1 DEF Scopes
  <2>3. IsFiniteSet(Scopes')
    <3>1. IsFiniteSet(Scopes \union {p})
      BY FS_AddElement DEF CountInv, CountGuards
    <3> QED BY <2>2, <3>1, FS_Subset
  <2>4. wakelocker' # "read" => numWakeLocksProcessed' = 0
    BY <1>1, <2>1 DEF IncrementRefCount, NotifyWakelocker, NotifyWriter, CountInv, CountGuards
  <2>5. \A q \in WakeupSources : posting'[q] # <<>> => scoped'[q] # "none"
    <3> SUFFICES ASSUME NEW q \in WakeupSources, posting'[q] # <<>> PROVE scoped'[q] # "none"
      OBVIOUS
    <3>1. q \in Posters
      BY EventsAssumption
    <3>2. CASE q = p
      <4>1. mThreadsRun
        BY <1>1, <3>2
      <4> QED BY <1>1, <2>1, <3>2, <4>1
    <3>3. CASE q # p
      BY <1>1, <2>1, <3>1, <3>3 DEF CountInv, CountGuards
    <3> QED BY <3>2, <3>3
  <2>6. ASSUME binder' \in {"disable", "restart"} PROVE wakelocker' = "none" /\ Scopes' = {}
    <3>1. ~mThreadsRun /\ binder \in {"disable", "restart"}
      BY <1>1, <2>6, StoppedForRestart
    <3>2. wakelocker' = wakelocker
      BY <2>1, <3>1 DEF IncrementRefCount
    <3>3. Scopes' \subseteq Scopes
      BY <1>1, <2>1, <3>1 DEF Scopes
    <3> QED BY <3>1, <3>2, <3>3 DEF CountInv, CountGuards
  <2>7. ~mThreadsRun' => "reset" \in history'
    BY <1>1 DEF CountInv, CountGuards
  <2> QED BY <2>3, <2>4, <2>5, <2>6, <2>7 DEF CountGuards
<1>3. CASE p \notin WakeupSources
  <2>1. UNCHANGED <<wakelocker, scoped>>
    BY <1>3 DEF CreateScopedWakelock
  <2>2. Scopes' = Scopes
    BY <2>1 DEF Scopes
  <2>3. \A q \in WakeupSources : posting'[q] = posting[q]
    BY <1>1, <1>3, EventsAssumption
  <2> QED BY <1>1, <2>1, <2>2, <2>3 DEF CountInv, CountGuards
<1> QED BY <1>2, <1>3

LEMMA PostGuarded ==
  ASSUME EventsInv, LockInv, CountInv, NEW p \in Posters, CountedPost(p)
  PROVE  CountGuards'
<1>1. /\ UNCHANGED <<mThreadsRun, binder, numWakeLocksProcessed, scoped>>
      /\ posting' = [posting EXCEPT ![p] = <<>>]
      /\ history \subseteq history'
      /\ posting \in [Posters -> Seq(Event)]
  BY DEF CountedPost, PostEventsToMessageQueue, EventsInv, TypeOK
<1>2. Scopes' = Scopes
  BY <1>1 DEF Scopes
<1>3. wakelocker' \in {wakelocker, NotifyWakelocker(wakelocker)} /\ (~mThreadsRun => wakelocker' = wakelocker)
  BY DEF CountedPost, IncrementRefCount
<1>4. wakelocker' # "read" => numWakeLocksProcessed' = 0
  BY <1>1, <1>3 DEF NotifyWakelocker, NotifyWriter, CountInv, CountGuards
<1>5. \A q \in WakeupSources : posting'[q] # <<>> => posting[q] # <<>>
  BY <1>1, EventsAssumption
<1>6. binder' \in {"disable", "restart"} => wakelocker' = "none" /\ Scopes' = {}
  BY <1>1, <1>2, <1>3, StoppedForRestart DEF CountInv, CountGuards
<1> QED BY <1>1, <1>2, <1>4, <1>5, <1>6 DEF CountInv, CountGuards

LEMMA ReleaseGuarded ==
  ASSUME EventsInv, LockInv, CountInv, NEW p \in Posters, ReleaseScopedWakelock(p)
  PROVE  CountGuards'
<1>1. /\ UNCHANGED <<mThreadsRun, binder, numWakeLocksProcessed, wakelocker, history, posting>>
      /\ scoped' = [scoped EXCEPT ![p] = "none"] /\ posting[p] = <<>>
      /\ scoped \in [Posters -> {"none", "locked", "stale"}]
  BY DEF ReleaseScopedWakelock, LockInv, LockTypeOK, vars, threadVars, posterVars
<1>2. Scopes' \subseteq Scopes
  BY <1>1 DEF Scopes
<1>3. \A q \in WakeupSources : posting'[q] # <<>> => scoped'[q] # "none"
  BY <1>1, EventsAssumption DEF CountInv, CountGuards
<1> QED BY <1>1, <1>2, <1>3, FewerScopes DEF CountInv, CountGuards

LEMMA AgedGuarded ==
  ASSUME LockInv, CountInv, scoped' = Aged(scoped), posting' = posting
  PROVE  Scopes' = {} /\ IsFiniteSet(Scopes') /\ \A q \in WakeupSources : posting'[q] # <<>> => scoped'[q] # "none"
<1>1. Scopes' = {}
  BY DEF Scopes, Aged
<1>2. \A q \in WakeupSources : scoped[q] # "none" => scoped'[q] # "none"
  BY EventsAssumption DEF Aged
<1> QED BY <1>1, <1>2, FS_EmptySet DEF CountInv, CountGuards

LEMMA GuardStep ==
  ASSUME EventsInv, LockInv, CountInv, LockNext
  PROVE  CountGuards'
<1> USE DEF threadVars, frameworkVars, timeVars, posterVars
<1>1. CASE \/ \E s \in Sensors : LockedSensorPosts(s)
           \/ LockedBinderPosts
  <2>1. ASSUME NEW s \in Sensors, LockedSensorPosts(s) PROVE CountGuards'
    BY <2>1, BeginGuarded DEF LockedSensorPosts, SensorPosts, Posters
  <2>2. ASSUME LockedBinderPosts PROVE CountGuards'
    BY <2>2, BeginGuarded DEF LockedBinderPosts, BinderPosts, Posters
  <2> QED BY <1>1, <2>1, <2>2
<1>2. CASE \E p \in Posters : CountedPost(p) \/ ReleaseScopedWakelock(p)
  BY <1>2, PostGuarded, ReleaseGuarded
<1>3. CASE WriterGivesUp \/ WriterRuns \/ (SpuriousWakeup /\ UNCHANGED lockVars)
  <2>1. /\ UNCHANGED <<mThreadsRun, posting, binder, wakelocker, numWakeLocksProcessed, scoped>>
        /\ history \subseteq history'
    BY <1>3 DEF WriterGivesUp, WriterRuns, SpuriousWakeup, WriterTimesOut, WriterLoop, WriterSleeps,
       WriterWrites, WriterErases, lockVars
  <2> QED BY <2>1, StillGuarded
<1>4. CASE FrameworkReadsWakeup \/ FrameworkAcknowledges \/ Tick
  <2>1. UNCHANGED <<mThreadsRun, posting, binder, wakelocker, numWakeLocksProcessed, scoped, history>>
    BY <1>4 DEF FrameworkReadsWakeup, FrameworkAcknowledges, FrameworkReads, Tick, vars
  <2> QED BY <2>1, StillGuarded
<1>5. CASE \E s \in Sensors, on \in BOOLEAN : LockedActivate(s, on)
  <2>1. UNCHANGED <<mThreadsRun, posting, binder, wakelocker, numWakeLocksProcessed, scoped, history>>
    BY <1>5 DEF LockedActivate, Activate, lockVars
  <2> QED BY <2>1, StillGuarded
<1>6. CASE WakelockThreadEnds \/ WakelockTimesOut
  <2>1. /\ UNCHANGED <<mThreadsRun, posting, binder, numWakeLocksProcessed>>
        /\ wakelocker = "ready" /\ scoped' = Aged(scoped) /\ history \subseteq history'
    BY <1>6 DEF WakelockThreadEnds, WakelockTimesOut, vars
  <2>2. binder \notin {"disable", "restart"} /\ numWakeLocksProcessed = 0
    BY <2>1 DEF CountInv, CountGuards
  <2> QED BY <2>1, <2>2, AgedGuarded DEF CountInv, CountGuards
<1>7. CASE \/ WakelockTestsCount \/ WakelockSleeps \/ WakelockReadTimesOut \/ WakelockWakesSpuriously
           \/ WakelockReads \/ WakelockProcesses
  <2>1. /\ UNCHANGED <<mThreadsRun, posting, binder, scoped, history>>
        /\ wakelocker # "none"
        /\ \/ wakelocker # "read" /\ numWakeLocksProcessed' = numWakeLocksProcessed
           \/ wakelocker' = "read"
           \/ numWakeLocksProcessed' = 0
    BY <1>7 DEF WakelockTestsCount, WakelockSleeps, WakelockReadTimesOut, WakelockWakesSpuriously,
       WakelockReads, WakelockProcesses, vars
  <2>2. Scopes' = Scopes
    BY <2>1 DEF Scopes
  <2> QED BY <2>1, <2>2 DEF CountInv, CountGuards
<1>8. CASE StopBoth
  <2>1. /\ UNCHANGED <<posting, wakelocker, numWakeLocksProcessed, scoped>>
        /\ "reset" \in history' /\ binder' = "drain"
    BY <1>8 DEF StopBoth, StopThreads
  <2>2. Scopes' = Scopes
    BY <2>1 DEF Scopes
  <2> QED BY <2>1, <2>2 DEF CountInv, CountGuards
<1>9. CASE DrainBoth
  <2>1. /\ UNCHANGED <<mThreadsRun, posting, wakelocker, numWakeLocksProcessed, scoped, history>>
        /\ binder' = "notify"
    BY <1>9 DEF DrainBoth, DrainEventQueue
  <2> QED BY <2>1, StillGuarded
<1>10. CASE NotifyBoth
  <2>1. /\ UNCHANGED <<mThreadsRun, posting, numWakeLocksProcessed, scoped, history>>
        /\ binder' = "join" /\ wakelocker' = NotifyWakelocker(wakelocker)
    BY <1>10 DEF NotifyBoth, NotifyThreads
  <2>2. Scopes' = Scopes
    BY <2>1 DEF Scopes
  <2> QED BY <2>1, <2>2 DEF CountInv, CountGuards, NotifyWakelocker, NotifyWriter
<1>11. CASE JoinBoth
  <2>1. /\ UNCHANGED <<mThreadsRun, posting, numWakeLocksProcessed, history>>
        /\ wakelocker \in {"none", "done"} /\ wakelocker' = "none" /\ scoped' = Aged(scoped)
    BY <1>11 DEF JoinBoth, JoinPendingWritesThread
  <2> QED BY <2>1, AgedGuarded DEF CountInv, CountGuards
<1>12. CASE (\E s \in Sensors : LockedDisable(s)) \/ (AllSensorsDisabled /\ UNCHANGED lockVars)
  <2>1. /\ UNCHANGED <<mThreadsRun, posting, wakelocker, numWakeLocksProcessed, scoped, history>>
        /\ binder = "disable"
    BY <1>12 DEF LockedDisable, DisableSensor, AllSensorsDisabled, lockVars
  <2> QED BY <2>1, StillGuarded
<1>13. CASE RestartBoth
  <2>1. /\ UNCHANGED <<posting, numWakeLocksProcessed, scoped>>
        /\ binder = "restart" /\ binder' = "idle" /\ mThreadsRun'
    BY <1>13 DEF RestartBoth, Restart
  <2>2. Scopes' = Scopes
    BY <2>1 DEF Scopes
  <2> QED BY <2>1, <2>2 DEF CountInv, CountGuards
<1> QED BY <1>1, <1>2, <1>3, <1>4, <1>5, <1>6, <1>7, <1>8, <1>9, <1>10, <1>11, <1>12, <1>13
        DEF LockNext, WakelockThread, Reinitialize

-----------------------------------------------------------------------------
(* Every step keeps the count exact, or history says why not.              *)

LEMMA CountParts ==
  ASSUME EventsInv, LockInv, CountInv
  PROVE  /\ NumWakeupEvents(mEventQueue) \in Nat
         /\ Cardinality(PendingWakeups) \in Nat
         /\ Cardinality(Acknowledged) \in Nat
         /\ unacked \in Nat /\ numWakeLocksProcessed \in Nat
         /\ Cardinality(Scopes) \in Nat /\ LockedScopes = Cardinality(Scopes)
         /\ mWakelockRefCount \in Nat
<1>1. mEventQueue \in Seq(Event)
  BY DEF EventsInv, TypeOK
<1>2. PendingCounted /\ AckCounted
  BY PendingCount, AckCount
<1> QED BY <1>1, <1>2, WakeupCount, FS_CardinalityType
        DEF PendingCounted, AckCounted, LockInv, LockTypeOK, CountInv, CountGuards, LockedScopes, Scopes

LEMMA ScopesKept == scoped' = scoped => LockedScopes' = LockedScopes
BY DEF LockedScopes, Scopes

(* Nothing that is counted moves.                                          *)
LEMMA CountKept ==
  ASSUME CountInv, history' = {} => history = {},
         UNCHANGED <<mWakelockRefCount, scoped, mEventQueue, mPendingWriteEventsQueue,
                     mWakeLockQueue, unacked, numWakeLocksProcessed>>,
         writer' = "written" <=> writer = "written",
         writer = "written" => numToWrite' = numToWrite
  PROVE  CountExact'
<1>1. PendingWakeups' = PendingWakeups
  BY SameUnwritten, PendingWakeupsKept
<1>2. Acknowledged' = Acknowledged /\ NumWakeupEvents(mEventQueue') = NumWakeupEvents(mEventQueue)
  BY DEF Acknowledged
<1>3. Outstanding' = Outstanding
  BY <1>1, <1>2 DEF Outstanding
<1> QED BY <1>3, ScopesKept DEF CountInv, CountExact

LEMMA RunningWhileExact ==
  ASSUME CountInv, history = {}
  PROVE  mThreadsRun
BY DEF CountInv, CountGuards

(* A ScopedWakelock is counted when it is made and when it goes.           *)
LEMMA BeginCount ==
  ASSUME EventsInv, LockInv, CountInv, NEW p \in Posters, NEW n \in Nat, BeginPost(p, n),
         CreateScopedWakelock(p)
  PROVE  CountExact'
<1> SUFFICES ASSUME history' = {} PROVE CountExact'
  BY DEF CountExact
<1>1. /\ UNCHANGED <<queueVars, writer, numToWrite, frameworkVars, numWakeLocksProcessed, history>>
      /\ scoped \in [Posters -> {"none", "locked", "stale"}] /\ scoped[p] = "none"
  BY DEF BeginPost, CreateScopedWakelock, LockInv, LockTypeOK
<1>2. CASE p \notin WakeupSources
  <2>1. UNCHANGED <<mWakelockRefCount, scoped>>
    BY <1>2 DEF CreateScopedWakelock, countVars
  <2> QED BY <1>1, <2>1, CountKept DEF queueVars, frameworkVars
<1>3. CASE p \in WakeupSources
  <2>1. mThreadsRun /\ history = {}
    BY <1>1, RunningWhileExact
  <2>2. /\ mWakelockRefCount' = mWakelockRefCount + 1
        /\ scoped' = [scoped EXCEPT ![p] = "locked"]
    BY <1>3, <2>1 DEF CreateScopedWakelock, IncrementRefCount
  <2>3. Scopes' = Scopes \union {p} /\ p \notin Scopes
    BY <1>1, <2>2 DEF Scopes
  <2>4. Cardinality(Scopes') = Cardinality(Scopes) + 1
    BY <2>3, FS_AddElement DEF CountInv, CountGuards
  <2>5. LockedScopes' = LockedScopes + 1
    BY <2>4 DEF LockedScopes, Scopes
  <2>6. Outstanding' = Outstanding
    <3>1. PendingWakeups' = PendingWakeups
      BY <1>1, SameUnwritten, PendingWakeupsKept DEF queueVars
    <3>2. Acknowledged' = Acknowledged
      BY <1>1 DEF Acknowledged, frameworkVars
    <3> QED BY <1>1, <3>1, <3>2 DEF Outstanding, queueVars, frameworkVars
  <2>7. mWakelockRefCount = LockedScopes + Outstanding
    BY <2>1 DEF CountInv, CountExact
  <2>8. LockedScopes \in Nat /\ Outstanding \in Nat
    BY CountParts DEF Outstanding
  <2> QED BY <2>2, <2>5, <2>6, <2>7, <2>8 DEF CountExact
<1> QED BY <1>2, <1>3

LEMMA ReleaseCount ==
  ASSUME EventsInv, LockInv, CountInv, NEW p \in Posters, ReleaseScopedWakelock(p)
  PROVE  CountExact'
<1> SUFFICES ASSUME history' = {} PROVE CountExact'
  BY DEF CountExact
<1>1. /\ UNCHANGED <<vars, threadVars, frameworkVars, history>>
      /\ scoped' = [scoped EXCEPT ![p] = "none"]
      /\ scoped \in [Posters -> {"none", "locked", "stale"}] /\ scoped[p] # "none"
  BY DEF ReleaseScopedWakelock, LockInv, LockTypeOK
<1>2. mThreadsRun /\ history = {}
  BY <1>1, RunningWhileExact
<1>3. mWakelockRefCount' = CountAfter(1, scoped[p] = "stale")
  BY <1>2 DEF ReleaseScopedWakelock, DecrementRefCount
<1>4. Outstanding' = Outstanding
  <2>1. PendingWakeups' = PendingWakeups
    BY <1>1, SameUnwritten, PendingWakeupsKept DEF vars, queueVars
  <2>2. Acknowledged' = Acknowledged
    BY <1>1 DEF Acknowledged, frameworkVars
  <2> QED BY <1>1, <2>1, <2>2 DEF Outstanding, vars, queueVars, frameworkVars, threadVars
<1>5. mWakelockRefCount = LockedScopes + Outstanding
  BY <1>2 DEF CountInv, CountExact
<1>6. LockedScopes \in Nat /\ Outstanding \in Nat /\ LockedScopes = Cardinality(Scopes)
  BY CountParts DEF Outstanding
<1>7. CASE scoped[p] = "locked"
  <2>1. p \in Scopes /\ Scopes' = Scopes \ {p}
    BY <1>1, <1>7 DEF Scopes
  <2>2. Cardinality(Scopes') = Cardinality(Scopes) - 1
    BY <2>1, FS_RemoveElement DEF CountInv, CountGuards
  <2>3. LockedScopes' = LockedScopes - 1
    BY <1>6, <2>2 DEF LockedScopes, Scopes
  <2>4. Cardinality(Scopes) # 0
    <3>1. Scopes # {}
      BY <2>1
    <3> QED BY <3>1, FS_EmptySet DEF CountInv, CountGuards
  <2>5. mWakelockRefCount' = mWakelockRefCount - 1
    <3>1. mWakelockRefCount \in Nat /\ mWakelockRefCount >= 1
      BY <1>5, <1>6, <2>4
    <3>2. SmallerOf(mWakelockRefCount, 1) = 1
      BY <3>1 DEF SmallerOf
    <3> QED BY <1>3, <1>7, <3>2 DEF CountAfter
  <2> QED BY <1>4, <1>5, <1>6, <2>3, <2>5 DEF CountExact
<1>8. CASE scoped[p] = "stale"
  <2>1. Scopes' = Scopes
    BY <1>1, <1>8 DEF Scopes
  <2>2. LockedScopes' = LockedScopes
    BY <2>1 DEF LockedScopes, Scopes
  <2>3. mWakelockRefCount' = mWakelockRefCount
    BY <1>3, <1>8 DEF CountAfter
  <2> QED BY <1>4, <1>5, <2>2, <2>3 DEF CountExact
<1> QED BY <1>1, <1>7, <1>8

(* A post that loses nothing counts the wake-ups it adds to the queues.    *)
LEMMA PostCount ==
  ASSUME EventsInv, EventsInv', LockInv, CountInv, NEW p \in Posters, CountedPost(p)
  PROVE  CountExact'
<1> SUFFICES ASSUME history' = {} PROVE CountExact'
  BY DEF CountExact
<1>1. ~Overflows(p) /\ history = {}
  <2>1. Overflows(p) => history' # {}
    BY DEF CountedPost
  <2> QED BY <2>1 DEF CountedPost
<1>2. /\ PostEventsToMessageQueue(p)
      /\ UNCHANGED <<frameworkVars, numWakeLocksProcessed, scoped>>
  BY DEF CountedPost
<1>3. mThreadsRun
  BY <1>1, RunningWhileExact
<1>4. NumWakeupEvents(mEventQueue') + Cardinality(PendingWakeups')
        = NumWakeupEvents(mEventQueue) + Cardinality(PendingWakeups) + NumWakeupEvents(posting[p])
  BY <1>1, <1>2, PostKeepsWakeups
<1>5. posting[p] \in Seq(Event) /\ posting[p] # <<>>
  BY <1>2 DEF PostEventsToMessageQueue, EventsInv, TypeOK
<1>6. NumWakeupEvents(posting[p]) \in Nat
  BY <1>5, WakeupCount
<1>7. mWakelockRefCount' = mWakelockRefCount + NumWakeupEvents(posting[p])
  <2>1. CASE scoped[p] # "none"
    BY <1>3, <2>1 DEF CountedPost, IncrementRefCount
  <2>2. CASE scoped[p] = "none"
    <3>1. p \notin WakeupSources
      BY <1>5, <2>2 DEF CountInv, CountGuards
    <3>2. \A i \in DOMAIN posting[p] : posting[p][i].source = p
      BY DEF EventsInv, PostingOrder
    <3>3. {i \in DOMAIN posting[p] : posting[p][i].source \in WakeupSources} = {}
      BY <3>1, <3>2
    <3>4. NumWakeupEvents(posting[p]) = 0
      BY <3>3, FS_EmptySet DEF NumWakeupEvents
    <3>5. mWakelockRefCount' = mWakelockRefCount
      BY <2>2 DEF CountedPost, countVars
    <3> QED BY <3>4, <3>5, CountParts
  <2> QED BY <2>1, <2>2
<1>8. Acknowledged' = Acknowledged
  BY <1>2 DEF Acknowledged, frameworkVars
<1>9. LockedScopes' = LockedScopes
  BY <1>2, ScopesKept
<1>10. EventsInv' => /\ NumWakeupEvents(mEventQueue') \in Nat
                     /\ Cardinality(PendingWakeups') \in Nat
  <2>1. PendingCounted' /\ mEventQueue' \in Seq(Event)
    BY PendingCountBoth DEF EventsInv, TypeOK
  <2> QED BY <2>1, WakeupCount DEF PendingCounted
<1>11. Outstanding' = Outstanding + NumWakeupEvents(posting[p])
  BY <1>2, <1>4, <1>6, <1>8, <1>10, CountParts DEF Outstanding, frameworkVars
<1>12. mWakelockRefCount = LockedScopes + Outstanding
  BY <1>1 DEF CountInv, CountExact
<1>13. LockedScopes \in Nat /\ Outstanding \in Nat
  BY CountParts DEF Outstanding
<1> QED BY <1>6, <1>7, <1>9, <1>11, <1>12, <1>13 DEF CountExact

LEMMA WriterCount ==
  ASSUME EventsInv, EventsInv', LockInv, CountInv, WriterRuns
  PROVE  CountExact'
<1>1. UNCHANGED <<mWakelockRefCount, scoped, mWakeLockQueue, unacked, numWakeLocksProcessed, history>>
  BY DEF WriterRuns, countVars, threadVars, frameworkVars
<1>2. CASE WriterLoop \/ WriterSleeps
  <2>1. /\ UNCHANGED <<mEventQueue, mPendingWriteEventsQueue>>
        /\ writer # "written" /\ writer' # "written"
    BY <1>2 DEF WriterLoop, WriterSleeps, queueVars
  <2> QED BY <1>1, <2>1, CountKept
<1>3. Acknowledged' = Acknowledged /\ LockedScopes' = LockedScopes
  BY <1>1, ScopesKept DEF Acknowledged
<1>4. PendingCounted' /\ mEventQueue' \in Seq(Event)
  BY PendingCountBoth DEF EventsInv, TypeOK
<1>5. NumWakeupEvents(mEventQueue') \in Nat /\ Cardinality(PendingWakeups') \in Nat
  BY <1>4, WakeupCount DEF PendingCounted
<1>6. CASE WriterWrites
  <2>1. NumWakeupEvents(mEventQueue') + Cardinality(PendingWakeups')
          = NumWakeupEvents(mEventQueue) + Cardinality(PendingWakeups)
    BY <1>6, WriteKeepsWakeups
  <2>2. Outstanding' = Outstanding
    BY <1>1, <1>3, <1>5, <2>1, CountParts DEF Outstanding
  <2> QED BY <1>1, <1>3, <2>2 DEF CountInv, CountExact
<1>7. CASE WriterErases
  <2>1. Cardinality(PendingWakeups') = Cardinality(PendingWakeups) /\ mEventQueue' = mEventQueue
    BY <1>7, EraseKeepsWakeups DEF WriterErases
  <2>2. Outstanding' = Outstanding
    BY <1>1, <1>3, <2>1 DEF Outstanding
  <2> QED BY <1>1, <1>3, <2>2 DEF CountInv, CountExact
<1> QED BY <1>2, <1>6, <1>7 DEF WriterRuns

LEMMA ThreadCount ==
  ASSUME EventsInv, LockInv, LockInv', CountInv, WakelockThread \/ WakelockTimesOut \/ WakelockWakesSpuriously
  PROVE  CountExact'
<1> SUFFICES ASSUME history' = {} PROVE CountExact'
  BY DEF CountExact
<1> USE DEF vars, queueVars, countVars, threadVars, frameworkVars
<1>1. CASE WakelockTimesOut \/ WakelockThreadEnds
  <2>1. "reset" \in history'
    BY <1>1 DEF WakelockTimesOut, WakelockThreadEnds, CountInv, CountGuards
  <2> QED BY <2>1
<1>2. CASE WakelockTestsCount \/ WakelockSleeps \/ WakelockReadTimesOut \/ WakelockWakesSpuriously
  BY <1>2, CountKept DEF WakelockTestsCount, WakelockSleeps, WakelockReadTimesOut, WakelockWakesSpuriously
<1>3. CASE WakelockReads
  <2>1. /\ UNCHANGED <<vars, countVars, unacked, scoped, history>>
        /\ mWakeLockQueue # <<>> /\ mWakeLockQueue' = Tail(mWakeLockQueue)
        /\ numWakeLocksProcessed' = Head(mWakeLockQueue) /\ numWakeLocksProcessed = 0
    BY <1>3 DEF WakelockReads, CountInv, CountGuards
  <2>2. /\ Cardinality(Acknowledged) = Cardinality(Acknowledged') + Head(mWakeLockQueue)
        /\ Head(mWakeLockQueue) \in Nat
    BY <2>1, AckTaken
  <2>3. Cardinality(Acknowledged') \in Nat
    BY AckCountBoth DEF AckCounted
  <2>4. PendingWakeups' = PendingWakeups /\ LockedScopes' = LockedScopes
    BY <2>1, SameUnwritten, PendingWakeupsKept, ScopesKept
  <2>5. Outstanding' = Outstanding
    BY <2>1, <2>2, <2>3, <2>4, CountParts DEF Outstanding
  <2> QED BY <2>1, <2>4, <2>5 DEF CountInv, CountExact
<1>4. CASE WakelockProcesses
  <2>1. /\ UNCHANGED <<vars, frameworkVars, scoped, history>>
        /\ numWakeLocksProcessed' = 0
        /\ DecrementRefCount(numWakeLocksProcessed, FALSE)
    BY <1>4 DEF WakelockProcesses
  <2>2. mThreadsRun
    BY <2>1, RunningWhileExact
  <2>3. mWakelockRefCount = LockedScopes + Outstanding
    BY <2>1 DEF CountInv, CountExact
  <2>4. mWakelockRefCount' = mWakelockRefCount - SmallerOf(mWakelockRefCount, numWakeLocksProcessed)
    BY <2>1, <2>2 DEF DecrementRefCount, CountAfter
  <2>5. mWakelockRefCount >= numWakeLocksProcessed
    BY <2>3, CountParts DEF Outstanding
  <2>6. PendingWakeups' = PendingWakeups /\ LockedScopes' = LockedScopes /\ Acknowledged' = Acknowledged
    BY <2>1, SameUnwritten, PendingWakeupsKept, ScopesKept DEF Acknowledged
  <2>7. Outstanding = Outstanding' + numWakeLocksProcessed /\ Outstanding' \in Nat
    BY <2>1, <2>6, CountParts DEF Outstanding
  <2>8. mWakelockRefCount' = mWakelockRefCount - numWakeLocksProcessed
    BY <2>4, <2>5, CountParts DEF SmallerOf
  <2> QED BY <2>3, <2>6, <2>7, <2>8, CountParts DEF CountExact
<1> QED BY <1>1, <1>2, <1>3, <1>4 DEF WakelockThread

LEMMA FrameworkCount ==
  ASSUME EventsInv, EventsInv', LockInv, LockInv', CountInv, FrameworkReadsWakeup \/ FrameworkAcknowledges
  PROVE  CountExact'
<1> USE DEF vars, queueVars, countVars, threadVars, frameworkVars, posterVars
<1>1. CASE FrameworkReadsWakeup
  <2>1. /\ UNCHANGED <<mWakelockRefCount, scoped, history, numWakeLocksProcessed, mWakeLockQueue,
                       mPendingWriteEventsQueue, writer, numToWrite>>
        /\ unacked' = unacked + NumWakeupEvents(<<Head(mEventQueue)>>)
        /\ mEventQueue' = Tail(mEventQueue) /\ mEventQueue # <<>>
    BY <1>1 DEF FrameworkReadsWakeup, FrameworkReads
  <2>2. /\ mEventQueue \in Seq(Event) /\ Tail(mEventQueue) \in Seq(Event)
        /\ <<Head(mEventQueue)>> \in Seq(Event)
    BY <2>1 DEF EventsInv, TypeOK
  <2>3. /\ NumWakeupEvents(mEventQueue)
             = NumWakeupEvents(<<Head(mEventQueue)>>) + NumWakeupEvents(Tail(mEventQueue))
        /\ NumWakeupEvents(<<Head(mEventQueue)>>) \in Nat /\ NumWakeupEvents(Tail(mEventQueue)) \in Nat
    BY <2>1, <2>2, WakeupsOfHead, WakeupCount
  <2>4. /\ PendingWakeups' = PendingWakeups /\ LockedScopes' = LockedScopes
        /\ Acknowledged' = Acknowledged
    BY <2>1, SameUnwritten, PendingWakeupsKept, ScopesKept DEF Acknowledged
  <2>5. Outstanding' = Outstanding
    BY <2>1, <2>3, <2>4, CountParts DEF Outstanding
  <2> QED BY <2>1, <2>4, <2>5 DEF CountInv, CountExact
<1>2. CASE FrameworkAcknowledges
  <2>1. PICK n \in 1..unacked : mWakeLockQueue' = Append(mWakeLockQueue, n) /\ unacked' = unacked - n
    BY <1>2 DEF FrameworkAcknowledges
  <2>2. UNCHANGED <<mWakelockRefCount, scoped, history, numWakeLocksProcessed, mEventQueue,
                    mPendingWriteEventsQueue, writer, numToWrite>>
    BY <1>2 DEF FrameworkAcknowledges
  <2>3. n \in Nat
    BY CountParts
  <2>4. Cardinality(Acknowledged') = Cardinality(Acknowledged) + n
    BY <2>1, <2>3, AckAppended
  <2>5. PendingWakeups' = PendingWakeups /\ LockedScopes' = LockedScopes
    BY <2>2, SameUnwritten, PendingWakeupsKept, ScopesKept
  <2>6. Outstanding' = Outstanding
    BY <2>1, <2>2, <2>3, <2>4, <2>5, CountParts DEF Outstanding
  <2> QED BY <2>2, <2>5, <2>6 DEF CountInv, CountExact
<1> QED BY <1>1, <1>2

(* initialize() resets the count or finds it at 0 with nothing outstanding. *)
LEMMA ReinitializeCount ==
  ASSUME EventsInv, EventsInv', LockInv, CountInv, Reinitialize
  PROVE  CountExact'
<1>1. CASE StopBoth
  BY <1>1 DEF StopBoth, CountExact
<1>2. CASE \/ DrainBoth \/ NotifyBoth \/ JoinBoth
           \/ (\E s \in Sensors : LockedDisable(s))
           \/ (AllSensorsDisabled /\ UNCHANGED lockVars)
  <2>1. history' = history /\ binder \in {"drain", "notify", "join", "disable"}
    BY <1>2 DEF DrainBoth, DrainEventQueue, NotifyBoth, NotifyThreads, JoinBoth, JoinPendingWritesThread,
         LockedDisable, DisableSensor, AllSensorsDisabled, lockVars
  <2>2. history # {}
    BY <2>1, StoppedForRestart DEF CountInv, CountGuards
  <2> QED BY <2>1, <2>2 DEF CountExact
<1>3. CASE RestartBoth
  <2>1. /\ binder = "restart" /\ mPendingWriteEventsQueue' = <<>> /\ mEventQueue' = <<>>
        /\ mWakeLockQueue' = <<>> /\ unacked' = 0
        /\ numWakeLocksProcessed' = numWakeLocksProcessed /\ scoped' = scoped
        /\ mWakelockRefCount' = mWakelockRefCount
        /\ history' = IF mWakelockRefCount = 0 THEN {} ELSE history
    BY <1>3 DEF RestartBoth, Restart, countVars
  <2>2. ~mThreadsRun /\ history # {}
    BY <2>1, StoppedForRestart DEF CountInv, CountGuards
  <2>3. history' = {} => mWakelockRefCount' = 0
    BY <2>1, <2>2
  <2>4. LockedScopes' = 0
    <3>1. Scopes' = {}
      BY <2>1 DEF CountInv, CountGuards, Scopes
    <3> QED BY <3>1, FS_EmptySet DEF LockedScopes
  <2>5. Outstanding' = 0
    <3>1. PendingWakeups' = {} /\ Acknowledged' = {}
      BY <2>1 DEF PendingWakeups, Acknowledged
    <3>2. numWakeLocksProcessed' = 0
      BY <2>1 DEF CountInv, CountGuards
    <3> QED BY <2>1, <3>1, <3>2, NoWakeups, FS_EmptySet DEF Outstanding
  <2> QED BY <2>3, <2>4, <2>5 DEF CountExact
<1> QED BY <1>1, <1>2, <1>3 DEF Reinitialize

LEMMA CountStep ==
  ASSUME EventsInv, EventsInv', LockInv, LockInv', CountInv, LockNext
  PROVE  CountExact'
<1>1. ASSUME NEW s \in Sensors, LockedSensorPosts(s) PROVE CountExact'
  BY <1>1, BeginCount DEF LockedSensorPosts, SensorPosts, Posters
<1>2. CASE LockedBinderPosts
  BY <1>2, BeginCount DEF LockedBinderPosts, BinderPosts, Posters
<1>3. CASE \E p \in Posters : CountedPost(p) \/ ReleaseScopedWakelock(p)
  BY <1>3, PostCount, ReleaseCount
<1>4. CASE WriterGivesUp
  BY <1>4 DEF WriterGivesUp, CountExact
<1>5. CASE WriterRuns
  BY <1>5, WriterCount
<1>6. CASE \/ SpuriousWakeup /\ UNCHANGED lockVars
           \/ \E s \in Sensors, on \in BOOLEAN : LockedActivate(s, on)
           \/ Tick
  <2>1. /\ UNCHANGED <<mWakelockRefCount, scoped, mEventQueue, mPendingWriteEventsQueue,
                       mWakeLockQueue, unacked, numWakeLocksProcessed, history, numToWrite>>
        /\ writer' = "written" <=> writer = "written"
    BY <1>6 DEF SpuriousWakeup, LockedActivate, Activate, Tick, lockVars, countVars, threadVars,
       frameworkVars, vars, queueVars
  <2> QED BY <2>1, CountKept
<1>7. CASE WakelockThread \/ WakelockTimesOut \/ WakelockWakesSpuriously
  BY <1>7, ThreadCount
<1>8. CASE FrameworkReadsWakeup \/ FrameworkAcknowledges
  BY <1>8, FrameworkCount
<1>9. CASE Reinitialize
  BY <1>9, ReinitializeCount
<1> QED BY <1>1, <1>2, <1>3, <1>4, <1>5, <1>6, <1>7, <1>8, <1>9 DEF LockNext

LEMMA CountInit == LockInit => CountInv
<1> SUFFICES ASSUME LockInit PROVE CountInv
  OBVIOUS
<1>1. Scopes = {} /\ PendingWakeups = {} /\ Acknowledged = {}
  BY DEF LockInit, Init, Scopes, PendingWakeups, Acknowledged
<1>2. LockedScopes = 0 /\ Outstanding = 0
  <2>1. Cardinality({}) = 0
    BY FS_EmptySet
  <2>2. LockedScopes = 0
    BY <1>1, <2>1 DEF LockedScopes, Scopes
  <2>3. mEventQueue = <<>> /\ unacked = 0 /\ numWakeLocksProcessed = 0
    BY DEF LockInit, Init
  <2> QED BY <1>1, <2>1, <2>2, <2>3, NoWakeups DEF Outstanding
<1>3. CountExact
  BY <1>2 DEF LockInit, CountExact
<1> QED BY <1>1, <1>3, FS_EmptySet, EventsAssumption DEF LockInit, Init, CountInv, CountGuards

LEMMA CountInvStep ==
  ASSUME EventsInv, EventsInv', LockInv, LockInv', CountInv, [LockNext]_allVars
  PROVE  CountInv'
<1>1. CASE UNCHANGED allVars
  <2>1. CountExact'
    BY <1>1, CountKept DEF allVars, lockVars, vars, queueVars, countVars, threadVars, frameworkVars
  <2>2. CountGuards'
    BY <1>1, StillGuarded DEF allVars, lockVars, vars, posterVars, threadVars
  <2> QED BY <2>1, <2>2 DEF CountInv, CountGuards
<1>2. CASE LockNext
  <2>1. CountExact' /\ CountGuards'
    BY <1>2, CountStep, GuardStep
  <2> QED BY <2>1 DEF CountInv, CountGuards
<1> QED BY <1>1, <1>2

(* While no event was dropped and nothing reset it, the reference count is *)
(* the number of live ScopedWakelocks and of the wake-up events that the   *)
(* framework has yet to handle, wherever those events or their             *)
(* acknowledgements are.                                                   *)
THEOREM CountIsExact == LockSpec => []CountExact
<1>1. EventsInv /\ EventsInv' /\ LockInv /\ LockInv' /\ CountInv /\ [LockNext]_allVars => CountInv'
  BY CountInvStep
<1>2. LockSpec => []EventsInv
  BY EventPath, EventsInvariant, PTL
<1>3. CountInv => CountExact
  BY DEF CountInv
<1> QED BY <1>1, <1>2, <1>3, CountInit, LockInvariant, PTL DEF LockSpec
=============================================================================
