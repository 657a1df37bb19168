--------------------------- MODULE VtsTestsProofs ---------------------------
(***************************************************************************)
(* initialize() takes back what any earlier test has asked for, for any    *)
(* tests whose scripts begin as those of the suites do (ScriptsReset), any *)
(* sensors and any number of tests, ended or killed.  The invariant says,  *)
(* of each step "begin" that is still ahead, that what the HAL still does  *)
(* will be taken back before it (Ready), and that a run thread reports     *)
(* only what somebody has asked for (ReportsAreWanted).                    *)
(***************************************************************************)
EXTENDS VtsTests, SequenceTheorems, TLAPS

Channel == [reporting: SUBSET Handles, mine: BOOLEAN]

CleanTypes ==
  /\ suite \in DOMAIN ScriptsOf /\ script \in Seq(AllSteps)
  /\ mIsEnabled \subseteq Handles
  /\ \A c \in DOMAIN mDirectChannels : mDirectChannels[c] \in Channel
  /\ now \in Nat /\ reading \in [Handles -> Nat]
  /\ DOMAIN queue = Envs

(* A run thread with a reading was asked for it and still is: whoever      *)
(* takes that back waits for its mutex.                                    *)
ReportsAreWanted == \A s \in Handles : reading[s] # 0 => s \in mIsEnabled \/ Reporting(s)

(* The steps before the b-th are those of initialize() and SetUp().        *)
SetsUp(b) ==
  \A k \in 1 .. b - 1 : /\ script[k].op \in SetUpOps
                        /\ script[k].op = "activate" => ~script[k].enable
                        /\ script[k].op = "initQueue" => script[k].env = "first"

DisabledBefore(b) ==
  \A h \in mIsEnabled : \E k \in 1 .. b - 1 : script[k].op = "initDisable" /\ script[k].sensor = h

DroppedBefore(b) == mDirectChannels = <<>> \/ \E k \in 1 .. b - 1 : script[k].op = "initChannels"

(* The queue is replaced by one that no sensor writes to.                  *)
ReplacedBefore(b) ==
  \/ \E q \in 1 .. b - 1 : /\ script[q].op = "initQueue"
                           /\ \A k \in q + 1 .. b - 1 : script[k].op # "initDisable"
  \/ mIsEnabled = {} /\ mEventQueue = "first" /\ queue["first"] = <<>>

Ready ==
  \A b \in DOMAIN script :
    script[b].op = "begin" => SetsUp(b) /\ DisabledBefore(b) /\ DroppedBefore(b) /\ ReplacedBefore(b)

CleanInv == CleanTypes /\ ReportsAreWanted /\ Ready

-----------------------------------------------------------------------------
(* The script                                                              *)

(* A step of the test leaves the rest of its script.                       *)
LEMMA Shortened ==
  ASSUME script \in Seq(AllSteps), script # <<>>, script' = Tail(script)
  PROVE  /\ Len(script) \in Nat \ {0} /\ DOMAIN script = 1 .. Len(script) /\ Step = script[1]
         /\ script' \in Seq(AllSteps) /\ DOMAIN script' = 1 .. Len(script) - 1
         /\ \A k \in 1 .. Len(script) - 1 : script'[k] = script[k + 1]
<1>1. Len(script) \in Nat \ {0} /\ DOMAIN script = 1 .. Len(script) /\ Step = script[1]
  BY EmptySeq, LenProperties DEF Step
<1>2. /\ script' \in Seq(AllSteps) /\ Len(script') = Len(script) - 1
      /\ \A k \in 1 .. Len(script) - 1 : script'[k] = script[k + 1]
  BY <1>1, HeadTailProperties
<1>3. DOMAIN script' = 1 .. Len(script')
  BY <1>2, LenProperties
<1> QED BY <1>1, <1>2, <1>3

LEMMA TestStepsShorten ==
  ASSUME TestStep
  PROVE  script # <<>> /\ script' = Tail(script) /\ suite' = suite
<1>1. CASE Activates
  BY <1>1 DEF Activates, At, Answer, Expect, Advance
<1>2. CASE Batches
  BY <1>2 DEF Batches, At, Answer, Expect, Advance
<1>3. CASE FlushesSensor
  BY <1>3 DEF FlushesSensor, At, Answer, Expect, Advance
<1>4. CASE SetsOperationMode
  BY <1>4 DEF SetsOperationMode, At, Answer, Expect, Advance
<1>5. CASE RegistersDirectChannel
  BY <1>5 DEF RegistersDirectChannel, At, Answer, Expect, Advance
<1>6. CASE UnregistersDirectChannel
  BY <1>6 DEF UnregistersDirectChannel, At, Answer, Expect, Advance
<1>7. CASE ConfiguresDirectReport
  BY <1>7 DEF ConfiguresDirectReport, At, Answer, Expect, Advance
<1>8. CASE InitDisableSensor \/ InitDropChannels \/ InitReplaceQueue
  BY <1>8 DEF InitDisableSensor, InitDropChannels, InitReplaceQueue, At, Advance
<1>9. CASE StartsPolling \/ StopsPolling \/ Joins \/ CollectStarts \/ CollectEnds
  BY <1>9 DEF StartsPolling, StopsPolling, Joins, CollectStarts, CollectEnds, At, Advance
<1>10. CASE SetsCallback \/ Waits \/ SavesLastEvents \/ Sleeps \/ FillsMemory
  BY <1>10 DEF SetsCallback, Waits, SavesLastEvents, Sleeps, FillsMemory, At, Advance
<1>11. CASE Checks
  BY <1>11 DEF Checks, At, Expect, Advance
<1> QED BY <1>1, <1>2, <1>3, <1>4, <1>5, <1>6, <1>7, <1>8, <1>9, <1>10, <1>11 DEF TestStep

(* After a step that is not one of the set-up no test begins.              *)
LEMMA BegunOnce ==
  ASSUME CleanInv, script # <<>>, script' = Tail(script), Step.op \notin SetUpOps
  PROVE  \A b \in DOMAIN script' : script'[b].op # "begin"
<1> SUFFICES ASSUME NEW b \in DOMAIN script', script'[b].op = "begin" PROVE FALSE
  OBVIOUS
<1>1. script \in Seq(AllSteps)
  BY DEF CleanInv, CleanTypes
<1>2. b + 1 \in DOMAIN script /\ script[b + 1].op = "begin" /\ 1 \in 1 .. (b + 1) - 1 /\ Step = script[1]
  BY <1>1, Shortened
<1>3. SetsUp(b + 1)
  BY <1>2 DEF CleanInv, Ready
<1> QED BY <1>2, <1>3 DEF SetsUp

(* A step of the set-up that takes nothing back leaves what is ahead.      *)
LEMMA StillAhead ==
  ASSUME CleanInv, script # <<>>, script' = Tail(script), NEW b \in DOMAIN script',
         script'[b].op = "begin"
  PROVE  /\ SetsUp(b)'
         /\ Step.op \in SetUpOps
         /\ Step.op = "activate" => ~Step.enable
         /\ Step.op = "initQueue" => Step.env = "first"
         /\ \A h \in mIsEnabled :
              \/ \E k \in 1 .. b - 1 : script'[k].op = "initDisable" /\ script'[k].sensor = h
              \/ Step.op = "initDisable" /\ Step.sensor = h
         /\ \/ mDirectChannels = <<>> \/ Step.op = "initChannels"
            \/ \E k \in 1 .. b - 1 : script'[k].op = "initChannels"
         /\ \/ \E q \in 1 .. b - 1 : /\ script'[q].op = "initQueue"
                                     /\ \A k \in q + 1 .. b - 1 : script'[k].op # "initDisable"
            \/ mIsEnabled = {} /\ mEventQueue = "first" /\ queue["first"] = <<>>
            \/ Step.op = "initQueue" /\ \A k \in 1 .. b - 1 : script'[k].op # "initDisable"
<1>1. script \in Seq(AllSteps)
  BY DEF CleanInv, CleanTypes
<1>2. /\ Len(script) \in Nat /\ b \in 1 .. Len(script) - 1 /\ DOMAIN script = 1 .. Len(script)
      /\ Step = script[1] /\ \A k \in 1 .. b : script'[k] = script[k + 1]
  BY <1>1, Shortened
<1>3. SetsUp(b + 1) /\ DisabledBefore(b + 1) /\ DroppedBefore(b + 1) /\ ReplacedBefore(b + 1)
  BY <1>2 DEF CleanInv, Ready
<1>4. \A k \in 1 .. (b + 1) - 1 : k = 1 \/ (k - 1 \in 1 .. b - 1 /\ script'[k - 1] = script[k])
  BY <1>2
<1>5. \A k \in 1 .. b - 1 : k + 1 \in 1 .. (b + 1) - 1 /\ script'[k] = script[k + 1]
  BY <1>2
<1>6. 1 \in 1 .. (b + 1) - 1
  BY <1>2
<1>7. SetsUp(b)'
  BY <1>3, <1>5 DEF SetsUp
<1>8. /\ Step.op \in SetUpOps /\ (Step.op = "activate" => ~Step.enable)
      /\ Step.op = "initQueue" => Step.env = "first"
  BY <1>2, <1>3, <1>6 DEF SetsUp
<1>9. ASSUME NEW h \in mIsEnabled
      PROVE  \/ \E k \in 1 .. b - 1 : script'[k].op = "initDisable" /\ script'[k].sensor = h
             \/ Step.op = "initDisable" /\ Step.sensor = h
  <2>1. PICK k \in 1 .. (b + 1) - 1 : script[k].op = "initDisable" /\ script[k].sensor = h
    BY <1>3 DEF DisabledBefore
  <2> QED BY <2>1, <1>2, <1>4
<1>10. \/ mDirectChannels = <<>> \/ Step.op = "initChannels"
       \/ \E k \in 1 .. b - 1 : script'[k].op = "initChannels"
  BY <1>2, <1>3, <1>4 DEF DroppedBefore
<1>11. \/ \E q \in 1 .. b - 1 : /\ script'[q].op = "initQueue"
                                /\ \A k \in q + 1 .. b - 1 : script'[k].op # "initDisable"
       \/ mIsEnabled = {} /\ mEventQueue = "first" /\ queue["first"] = <<>>
       \/ Step.op = "initQueue" /\ \A k \in 1 .. b - 1 : script'[k].op # "initDisable"
  <2>1. CASE mIsEnabled = {} /\ mEventQueue = "first" /\ queue["first"] = <<>>
    BY <2>1
  <2>2. ASSUME NEW q \in 1 .. (b + 1) - 1, script[q].op = "initQueue",
               \A k \in q + 1 .. (b + 1) - 1 : script[k].op # "initDisable"
        PROVE  \/ \E r \in 1 .. b - 1 : /\ script'[r].op = "initQueue"
                                       /\ \A k \in r + 1 .. b - 1 : script'[k].op # "initDisable"
               \/ Step.op = "initQueue" /\ \A k \in 1 .. b - 1 : script'[k].op # "initDisable"
    <3>1. \A k \in 1 .. b - 1 : k >= q => script'[k].op # "initDisable"
      <4> TAKE k \in 1 .. b - 1
      <4>1. HAVE k >= q
      <4>2. k + 1 \in q + 1 .. (b + 1) - 1 /\ script'[k] = script[k + 1]
        BY <4>1, <1>2
      <4> QED BY <4>2, <2>2
    <3>2. CASE q = 1
      BY <3>1, <3>2, <2>2, <1>2
    <3>3. CASE q # 1
      <4>1. q - 1 \in 1 .. b - 1 /\ script'[q - 1].op = "initQueue"
        BY <3>3, <2>2, <1>4
      <4>2. \A k \in (q - 1) + 1 .. b - 1 : script'[k].op # "initDisable"
        BY <3>1, <1>2
      <4> QED BY <4>1, <4>2
    <3> QED BY <3>2, <3>3
  <2> QED BY <2>1, <2>2, <1>3 DEF ReplacedBefore
<1> QED BY <1>7, <1>8, <1>9, <1>10, <1>11

-----------------------------------------------------------------------------
(* The channels and the readings                                           *)

(* A step that changes no channel and takes no sensor away.                *)
LEMMA StillWanted ==
  ASSUME ReportsAreWanted, UNCHANGED <<mDirectChannels, reading>>,
         \A s \in Handles : s \in mIsEnabled /\ reading[s] # 0 => s \in mIsEnabled'
  PROVE  ReportsAreWanted'
BY DEF ReportsAreWanted, Reporting

(* Channels may be added, and reports stopped whose sensor has no reading. *)
LEMMA ChannelsWanted ==
  ASSUME CleanTypes, ReportsAreWanted, UNCHANGED <<mIsEnabled, reading>>,
         \A c \in DOMAIN mDirectChannels : \A s \in mDirectChannels[c].reporting :
           \/ reading[s] = 0
           \/ c \in DOMAIN mDirectChannels' /\ s \in mDirectChannels'[c].reporting
  PROVE  ReportsAreWanted'
BY DEF CleanTypes, ReportsAreWanted, Reporting

LEMMA Dropped ==
  ASSUME CleanTypes, NEW channels, Drop(channels)
  PROVE  /\ \A c \in DOMAIN mDirectChannels' : mDirectChannels'[c] \in Channel
         /\ \A c \in DOMAIN mDirectChannels : \A s \in mDirectChannels[c].reporting :
              \/ c \in channels
              \/ c \in DOMAIN mDirectChannels' /\ s \in mDirectChannels'[c].reporting
         /\ channels \subseteq DOMAIN mDirectChannels =>
              \A c \in DOMAIN mDirectChannels : \A s \in mDirectChannels[c].reporting :
                \/ reading[s] = 0
                \/ c \in DOMAIN mDirectChannels' /\ s \in mDirectChannels'[c].reporting
BY DEF CleanTypes, Drop, MutexesFree, RunMutexFree

(* configDirectReport() of one channel.                                    *)
LEMMA ConfiguredChannels ==
  ASSUME CleanTypes, ConfiguresDirectReport
  PROVE  /\ \A c \in DOMAIN mDirectChannels' : mDirectChannels'[c] \in Channel
         /\ \A c \in DOMAIN mDirectChannels : \A s \in mDirectChannels[c].reporting :
              \/ reading[s] = 0
              \/ c \in DOMAIN mDirectChannels' /\ s \in mDirectChannels'[c].reporting
<1> DEFINE s == Step.sensor
           c == IF Step.valid THEN channelHandle ELSE -1
           rate == Step.rate
<1>1. CASE UNCHANGED mDirectChannels
  BY <1>1 DEF CleanTypes
<1>2. CASE ~UNCHANGED mDirectChannels
  <2>1. /\ c \in DOMAIN mDirectChannels
        /\ (s = -1 /\ rate = "STOP") \/ s \in Handles
        /\ MutexesFree({c}) /\ (s \in Handles => RunMutexFree(s))
        /\ mDirectChannels' = [mDirectChannels EXCEPT ![c].reporting = Configured(@, s, rate)]
    BY <1>2 DEF ConfiguresDirectReport
  <2>2. mDirectChannels[c] \in Channel
    BY <2>1 DEF CleanTypes
  <2> DEFINE old == mDirectChannels[c].reporting
             new == Configured(old, s, rate)
  <2>3. old \subseteq Handles
    BY <2>2 DEF Channel
  <2>4. new \subseteq Handles /\ \A t \in old : reading[t] = 0 \/ t \in new
    <3>1. \A t \in old : reading[t] = 0
      BY <2>1 DEF MutexesFree, RunMutexFree
    <3>2. s = -1 \/ (s # -1 /\ rate = "STOP") \/ (s # -1 /\ rate # "STOP")
      OBVIOUS
    <3> HIDE DEF s, rate
    <3>3. new \in {{}, old \ {s}, old \cup {s}} /\ (s = -1 => new = {})
      BY <3>2 DEF Configured
    <3> QED BY <3>1, <3>3, <2>1, <2>3
  <2>5. mDirectChannels' = [mDirectChannels EXCEPT ![c] = [mDirectChannels[c] EXCEPT !.reporting = new]]
    BY <2>1
  <2> HIDE DEF c, new
  <2>6. [mDirectChannels[c] EXCEPT !.reporting = new] \in Channel
    BY <2>2, <2>4 DEF Channel
  <2>7. [mDirectChannels[c] EXCEPT !.reporting = new].reporting = new
    BY <2>2 DEF Channel
  <2>8. /\ DOMAIN mDirectChannels' = DOMAIN mDirectChannels
        /\ mDirectChannels'[c] = [mDirectChannels[c] EXCEPT !.reporting = new]
        /\ \A d \in DOMAIN mDirectChannels : d # c => mDirectChannels'[d] = mDirectChannels[d]
    BY <2>1, <2>5
  <2> HIDE DEF s
  <2> QED BY <2>4, <2>6, <2>7, <2>8 DEF CleanTypes
<1> QED BY <1>1, <1>2

LEMMA RegisteredChannels ==
  ASSUME CleanTypes, RegistersDirectChannel
  PROVE  /\ \A c \in DOMAIN mDirectChannels' : mDirectChannels'[c] \in Channel
         /\ \A c \in DOMAIN mDirectChannels :
              c \in DOMAIN mDirectChannels' /\ mDirectChannels'[c] = mDirectChannels[c]
<1> DEFINE new == [reporting |-> {}, mine |-> TRUE]
<1>1. mDirectChannels' = [c \in DOMAIN mDirectChannels \cup {mNextChannelHandle} |->
                           IF c \in DOMAIN mDirectChannels THEN mDirectChannels[c] ELSE new]
  BY DEF RegistersDirectChannel
<1>2. new \in Channel
  BY DEF Channel
<1> HIDE DEF new
<1>3. /\ DOMAIN mDirectChannels' = DOMAIN mDirectChannels \cup {mNextChannelHandle}
      /\ \A c \in DOMAIN mDirectChannels : mDirectChannels'[c] = mDirectChannels[c]
      /\ mNextChannelHandle \notin DOMAIN mDirectChannels => mDirectChannels'[mNextChannelHandle] = new
  BY <1>1
<1> QED BY <1>2, <1>3 DEF CleanTypes

(* The memory of a program that has gone is not that of the next test.     *)
LEMMA LeftChannels ==
  ASSUME CleanTypes, Leaves
  PROVE  /\ DOMAIN mDirectChannels' = DOMAIN mDirectChannels
         /\ \A c \in DOMAIN mDirectChannels : /\ mDirectChannels'[c] \in Channel
                                             /\ mDirectChannels'[c].reporting = mDirectChannels[c].reporting
<1>1. mDirectChannels' = [c \in DOMAIN mDirectChannels |-> [mDirectChannels[c] EXCEPT !.mine = FALSE]]
  BY DEF Leaves
<1>2. ASSUME NEW c \in DOMAIN mDirectChannels
      PROVE  /\ [mDirectChannels[c] EXCEPT !.mine = FALSE] \in Channel
             /\ [mDirectChannels[c] EXCEPT !.mine = FALSE].reporting = mDirectChannels[c].reporting
  <2>1. mDirectChannels[c] \in Channel
    BY DEF CleanTypes
  <2> QED BY <2>1 DEF Channel
<1> QED BY <1>1, <1>2

-----------------------------------------------------------------------------
(* Steps                                                                   *)

LEMMA PostKeepsQueues ==
  ASSUME DOMAIN queue = Envs, NEW event, Post(event)
  PROVE  DOMAIN queue' = Envs
BY DEF Post

LEMMA CleanInit == Init => CleanInv
<1> SUFFICES ASSUME Init PROVE CleanInv
  OBVIOUS
<1>1. script = <<>> /\ mIsEnabled = {} /\ mDirectChannels = <<>> /\ reading = None
  BY DEF Init
<1>2. DOMAIN script = {} /\ DOMAIN mDirectChannels = {} /\ script \in Seq(AllSteps)
  BY <1>1
<1>3. CleanTypes
  BY <1>1, <1>2 DEF Init, CleanTypes, None, NoEvents
<1>4. ReportsAreWanted
  BY <1>1 DEF ReportsAreWanted, None
<1>5. Ready
  BY <1>2 DEF Ready
<1> QED BY <1>3, <1>4, <1>5 DEF CleanInv

(* The steps of the HAL's threads and of the polling threads.              *)
LEMMA ThreadsKeep ==
  ASSUME CleanInv,
         \/ \E s \in Handles : Read(s) \/ Report(s)
         \/ \E e \in Envs : ReadEvents(e) \/ PollingThreadEnds(e)
  PROVE  CleanInv'
<1> USE DEF CleanInv
<1>1. ASSUME NEW s \in Handles, Read(s) PROVE CleanInv'
  <2>1. /\ reading' = [reading EXCEPT ![s] = now] /\ (s \in mIsEnabled \/ Reporting(s))
        /\ UNCHANGED <<mIsEnabled, mDirectChannels, mEventQueue, queue, script, suite, now>>
    BY <1>1 DEF Read, testVars, envVars, control
  <2>2. CleanTypes'
    BY <2>1 DEF CleanTypes
  <2>3. ReportsAreWanted'
    BY <2>1 DEF CleanTypes, ReportsAreWanted, Reporting
  <2>4. Ready'
    BY <2>1 DEF Ready, SetsUp, DisabledBefore, DroppedBefore, ReplacedBefore
  <2> QED BY <2>2, <2>3, <2>4
<1>2. ASSUME NEW s \in Handles, Report(s) PROVE CleanInv'
  <2>1. /\ reading' = [reading EXCEPT ![s] = 0]
        /\ IF s \in mIsEnabled THEN Post([kind |-> "sample", sensor |-> s, timestamp |-> reading[s]])
                               ELSE UNCHANGED queue
        /\ UNCHANGED <<mIsEnabled, mDirectChannels, mEventQueue, script, suite, now>>
    BY <1>2 DEF Report, control
  <2>2. CleanTypes'
    <3>1. DOMAIN queue' = Envs
      BY <2>1, PostKeepsQueues DEF CleanTypes
    <3> QED BY <2>1, <3>1 DEF CleanTypes
  <2>3. ReportsAreWanted'
    BY <2>1 DEF CleanTypes, ReportsAreWanted, Reporting
  <2>4. mIsEnabled = {} => UNCHANGED queue
    BY <2>1
  <2>5. Ready'
    BY <2>1, <2>4 DEF Ready, SetsUp, DisabledBefore, DroppedBefore, ReplacedBefore
  <2> QED BY <2>2, <2>3, <2>5
<1>3. ASSUME NEW e \in Envs, ReadEvents(e) PROVE CleanInv'
  <2>1. /\ queue' = [queue EXCEPT ![e] = Tail(@)] /\ queue[e] # <<>>
        /\ UNCHANGED <<mIsEnabled, mDirectChannels, mEventQueue, reading, script, suite, now>>
    BY <1>3 DEF ReadEvents, halVars, control
  <2>2. CleanTypes'
    BY <2>1 DEF CleanTypes
  <2>3. ReportsAreWanted'
    BY <2>1, StillWanted
  <2>4. queue["first"] = <<>> => queue'["first"] = <<>>
    BY <2>1 DEF CleanTypes, Envs
  <2>5. Ready'
    BY <2>1, <2>4 DEF Ready, SetsUp, DisabledBefore, DroppedBefore, ReplacedBefore
  <2> QED BY <2>2, <2>3, <2>5
<1>4. ASSUME NEW e \in Envs, PollingThreadEnds(e) PROVE CleanInv'
  <2>1. UNCHANGED <<mIsEnabled, mDirectChannels, mEventQueue, queue, reading, script, suite, now>>
    BY <1>4 DEF PollingThreadEnds, halVars, control
  <2>2. CleanTypes' /\ ReportsAreWanted'
    BY <2>1, StillWanted DEF CleanTypes
  <2>3. Ready'
    BY <2>1 DEF Ready, SetsUp, DisabledBefore, DroppedBefore, ReplacedBefore
  <2> QED BY <2>2, <2>3
<1> QED BY <1>1, <1>2, <1>3, <1>4

(* What a step of the test program changes, as far as it matters here.     *)
TestChanges ==
  /\ \A c \in DOMAIN mDirectChannels' : mDirectChannels'[c] \in Channel
  /\ mIsEnabled' \subseteq Handles
  /\ now' \in Nat /\ reading' = reading
  /\ DOMAIN queue' = Envs
  /\ ReportsAreWanted'

LEMMA TestStepsChange == ASSUME CleanInv, TestStep PROVE TestChanges
<1> USE DEF CleanInv
<1>1. ASSUME UNCHANGED <<mIsEnabled, mDirectChannels, reading>>, now' \in Nat, DOMAIN queue' = Envs
      PROVE  TestChanges
  BY <1>1, StillWanted DEF TestChanges, CleanTypes
<1>2. CASE Activates
  <2>1. /\ UNCHANGED <<mDirectChannels, reading, queue, now>>
        /\ \/ UNCHANGED mIsEnabled
           \/ mIsEnabled' = mIsEnabled \cup {Step.sensor} /\ Step.sensor \in Handles
           \/ mIsEnabled' = mIsEnabled \ {Step.sensor} /\ reading[Step.sensor] = 0
    BY <1>2 DEF Activates, RunMutexFree, testVars, envVars
  <2>2. mIsEnabled' \subseteq Handles /\ \A s \in Handles : s \in mIsEnabled /\ reading[s] # 0 => s \in mIsEnabled'
    BY <2>1 DEF CleanTypes
  <2> QED BY <2>1, <2>2, StillWanted DEF TestChanges, CleanTypes
<1>3. CASE Batches \/ SetsOperationMode \/ Checks
  BY <1>1, <1>3 DEF Batches, SetsOperationMode, Checks, halVars, testVars, envVars, CleanTypes
<1>4. CASE FlushesSensor
  <2>1. UNCHANGED <<mIsEnabled, mDirectChannels, reading, now>> /\ DOMAIN queue' = Envs
    BY <1>4, PostKeepsQueues DEF FlushesSensor, halVars, CleanTypes
  <2> QED BY <1>1, <2>1 DEF CleanTypes
<1>5. CASE RegistersDirectChannel
  <2>1. UNCHANGED <<mIsEnabled, reading, queue, now>>
    BY <1>5 DEF RegistersDirectChannel, envVars
  <2> QED BY <1>5, <2>1, RegisteredChannels, ChannelsWanted DEF TestChanges, CleanTypes
<1>6. CASE UnregistersDirectChannel
  <2>1. /\ UNCHANGED <<mIsEnabled, reading, queue, now>>
        /\ Drop({channelHandle} \cap DOMAIN mDirectChannels)
    BY <1>6 DEF UnregistersDirectChannel, envVars
  <2> QED BY <2>1, Dropped, ChannelsWanted DEF TestChanges, CleanTypes
<1>7. CASE ConfiguresDirectReport
  <2>1. UNCHANGED <<mIsEnabled, reading, queue, now>>
    BY <1>7 DEF ConfiguresDirectReport, testVars, envVars
  <2> QED BY <1>7, <2>1, ConfiguredChannels, ChannelsWanted DEF TestChanges, CleanTypes
<1>8. CASE InitDisableSensor
  <2>1. /\ UNCHANGED <<mDirectChannels, reading, queue, now>>
        /\ mIsEnabled' = mIsEnabled \ {Step.sensor} /\ reading[Step.sensor] = 0
    BY <1>8 DEF InitDisableSensor, RunMutexFree, testVars, envVars
  <2> QED BY <2>1, StillWanted DEF TestChanges, CleanTypes
<1>9. CASE InitDropChannels
  <2>1. UNCHANGED <<mIsEnabled, reading, queue, now>> /\ Drop(DOMAIN mDirectChannels)
    BY <1>9 DEF InitDropChannels, InitDropped, envVars
  <2> QED BY <2>1, Dropped, ChannelsWanted DEF TestChanges, CleanTypes
<1>10. CASE InitReplaceQueue
  <2>1. UNCHANGED <<mIsEnabled, mDirectChannels, reading, now>> /\ DOMAIN queue' = Envs
    BY <1>10 DEF InitReplaceQueue, CleanTypes
  <2> QED BY <1>1, <2>1 DEF CleanTypes
<1>11. CASE StartsPolling \/ StopsPolling \/ Joins \/ CollectStarts \/ CollectEnds
  BY <1>1, <1>11 DEF StartsPolling, StopsPolling, Joins, CollectStarts, CollectEnds, halVars, testVars, envVars,
     CleanTypes
<1>12. CASE SetsCallback \/ Waits \/ SavesLastEvents \/ FillsMemory
  BY <1>1, <1>12 DEF SetsCallback, Waits, SavesLastEvents, FillsMemory, halVars, testVars, envVars, CleanTypes
<1>13. CASE Sleeps
  <2>1. UNCHANGED <<mIsEnabled, mDirectChannels, reading, queue>> /\ now' = now + 1
    BY <1>13 DEF Sleeps, halVars, envVars
  <2> QED BY <1>1, <2>1 DEF CleanTypes
<1> QED BY <1>2, <1>3, <1>4, <1>5, <1>6, <1>7, <1>8, <1>9, <1>10, <1>11, <1>12, <1>13 DEF TestStep

(* A step of the set-up does its part.                                     *)
LEMMA DoesItsPart ==
  ASSUME CleanInv, script # <<>>, script' = Tail(script), Step.op \in SetUpOps,
         (Step.op = "activate" /\ Step.enable) \/ mIsEnabled' \subseteq mIsEnabled,
         Step.op = "initDisable" => Step.sensor \notin mIsEnabled',
         mDirectChannels' = <<>> \/ (mDirectChannels' = mDirectChannels /\ Step.op # "initChannels"),
         IF Step.op = "initQueue" THEN mEventQueue' = Step.env /\ queue' = [queue EXCEPT ![Step.env] = <<>>]
         ELSE UNCHANGED <<mEventQueue, queue>>
  PROVE  Ready'
<1> SUFFICES ASSUME NEW b \in DOMAIN script', script'[b].op = "begin"
             PROVE  SetsUp(b)' /\ DisabledBefore(b)' /\ DroppedBefore(b)' /\ ReplacedBefore(b)'
  BY DEF Ready
<1>1. SetsUp(b)' /\ (Step.op = "activate" => ~Step.enable) /\ (Step.op = "initQueue" => Step.env = "first")
  BY StillAhead
<1>2. mIsEnabled' \subseteq mIsEnabled
  BY <1>1
<1>3. \A h \in mIsEnabled :
        \/ \E k \in 1 .. b - 1 : script'[k].op = "initDisable" /\ script'[k].sensor = h
        \/ Step.op = "initDisable" /\ Step.sensor = h
  BY StillAhead
<1>4. DisabledBefore(b)'
  BY <1>2, <1>3 DEF DisabledBefore
<1>5. DroppedBefore(b)'
  BY StillAhead DEF DroppedBefore
<1>6. ReplacedBefore(b)'
  <2>1. CASE \E q \in 1 .. b - 1 : /\ script'[q].op = "initQueue"
                                 /\ \A k \in q + 1 .. b - 1 : script'[k].op # "initDisable"
    BY <2>1 DEF ReplacedBefore
  <2>2. CASE mIsEnabled = {} /\ mEventQueue = "first" /\ queue["first"] = <<>>
    <3>1. mEventQueue' = "first" /\ queue'["first"] = <<>>
      BY <2>2, <1>1 DEF CleanInv, CleanTypes, Envs
    <3> QED BY <2>2, <3>1, <1>2 DEF ReplacedBefore
  <2>3. CASE Step.op = "initQueue" /\ \A k \in 1 .. b - 1 : script'[k].op # "initDisable"
    <3>1. mIsEnabled' = {}
      BY <2>3, <1>2, <1>3
    <3>2. mEventQueue' = "first" /\ queue'["first"] = <<>>
      BY <2>3, <1>1 DEF CleanInv, CleanTypes, Envs
    <3> QED BY <3>1, <3>2 DEF ReplacedBefore
  <2> QED BY <2>1, <2>2, <2>3, StillAhead
<1> QED BY <1>1, <1>4, <1>5, <1>6

LEMMA TestStepsReady == ASSUME CleanInv, TestStep PROVE Ready'
<1>1. script # <<>> /\ script' = Tail(script)
  BY TestStepsShorten
<1>2. CASE Step.op \notin SetUpOps
  BY <1>1, <1>2, BegunOnce DEF Ready
<1>3. CASE Step.op \in SetUpOps
  <2>1. ASSUME NEW op, op \notin SetUpOps PROVE ~At(op)
    BY <1>3, <2>1 DEF At
  <2>2. /\ "batch" \notin SetUpOps /\ "flush" \notin SetUpOps /\ "setOperationMode" \notin SetUpOps
        /\ "registerDirectChannel" \notin SetUpOps /\ "unregisterDirectChannel" \notin SetUpOps
        /\ "configDirectReport" \notin SetUpOps /\ "stopPollingThread" \notin SetUpOps
        /\ "join" \notin SetUpOps /\ "collect" \notin SetUpOps /\ "collected" \notin SetUpOps
        /\ "registerCallback" \notin SetUpOps /\ "unregisterCallback" \notin SetUpOps
        /\ "resetCallback" \notin SetUpOps /\ "waitForFlushEvents" \notin SetUpOps
        /\ "waitForEvents" \notin SetUpOps /\ "begin" \notin SetUpOps /\ "saveLastEvents" \notin SetUpOps
        /\ "sleep" \notin SetUpOps /\ "fillMemory" \notin SetUpOps /\ "check" \notin SetUpOps
        /\ "checkFlushCount" \notin SetUpOps /\ "checkNotStale" \notin SetUpOps
        /\ "checkMemoryZeroed" \notin SetUpOps /\ "checkCollected" \notin SetUpOps
    BY DEF SetUpOps
  <2>3. ~(Batches \/ FlushesSensor \/ SetsOperationMode \/ RegistersDirectChannel \/ UnregistersDirectChannel
          \/ ConfiguresDirectReport \/ StopsPolling \/ Joins \/ CollectStarts \/ CollectEnds)
    BY <2>1, <2>2 DEF Batches, FlushesSensor, SetsOperationMode, RegistersDirectChannel,
       UnregistersDirectChannel, ConfiguresDirectReport, StopsPolling, Joins, CollectStarts, CollectEnds
  <2>4. ~(SetsCallback \/ Waits \/ SavesLastEvents \/ Sleeps \/ FillsMemory \/ Checks)
    BY <2>1, <2>2 DEF SetsCallback, Waits, SavesLastEvents, Sleeps, FillsMemory, Checks
  <2>5. CASE Activates
    <3>1. /\ Step.op = "activate" /\ UNCHANGED <<mDirectChannels, mEventQueue, queue>>
          /\ Step.enable \/ mIsEnabled' \subseteq mIsEnabled
      BY <2>5 DEF Activates, At, testVars, envVars
    <3> QED BY <1>1, <1>3, <3>1, DoesItsPart
  <2>6. CASE InitDisableSensor
    <3>1. /\ Step.op = "initDisable" /\ UNCHANGED <<mDirectChannels, mEventQueue, queue>>
          /\ mIsEnabled' = mIsEnabled \ {Step.sensor}
      BY <2>6 DEF InitDisableSensor, At, testVars, envVars
    <3> QED BY <1>1, <1>3, <3>1, DoesItsPart
  <2>7. CASE InitDropChannels
    <3>1. /\ Step.op = "initChannels" /\ UNCHANGED <<mIsEnabled, mEventQueue, queue>>
          /\ Drop(DOMAIN mDirectChannels)
      BY <2>7 DEF InitDropChannels, InitDropped, At, envVars
    <3>2. mDirectChannels' = <<>>
      <4>1. DOMAIN mDirectChannels \ DOMAIN mDirectChannels = {}
        OBVIOUS
      <4>2. mDirectChannels' = [c \in {} |-> mDirectChannels[c]]
        BY <3>1, <4>1 DEF Drop
      <4> QED BY <4>2
    <3> QED BY <1>1, <1>3, <3>1, <3>2, DoesItsPart
  <2>8. CASE InitReplaceQueue
    <3>1. /\ Step.op = "initQueue" /\ UNCHANGED <<mIsEnabled, mDirectChannels>>
          /\ mEventQueue' = Step.env /\ queue' = [queue EXCEPT ![Step.env] = <<>>]
      BY <2>8 DEF InitReplaceQueue, At
    <3> QED BY <1>1, <1>3, <3>1, DoesItsPart
  <2>9. CASE StartsPolling
    <3>1. Step.op = "startPollingThread" /\ UNCHANGED <<mIsEnabled, mDirectChannels, mEventQueue, queue>>
      BY <2>9 DEF StartsPolling, At, halVars
    <3> QED BY <1>1, <1>3, <3>1, DoesItsPart
  <2> QED BY <2>3, <2>4, <2>5, <2>6, <2>7, <2>8, <2>9 DEF TestStep
<1> QED BY <1>2, <1>3

LEMMA TestStepsKeep == ASSUME CleanInv, TestStep PROVE CleanInv'
<1>1. script \in Seq(AllSteps) /\ script # <<>> /\ script' = Tail(script) /\ suite' = suite
  BY TestStepsShorten DEF CleanInv, CleanTypes
<1>2. script' \in Seq(AllSteps)
  BY <1>1, Shortened
<1>3. CleanTypes' /\ ReportsAreWanted'
  BY <1>1, <1>2, TestStepsChange DEF TestChanges, CleanInv, CleanTypes
<1> QED BY <1>3, TestStepsReady DEF CleanInv

(* A test begins with a script of its suite.                               *)
LEMMA StartKeeps == ASSUME ScriptsReset, CleanInv, StartTest PROVE CleanInv'
<1> USE DEF CleanInv
<1>1. PICK t \in DOMAIN ScriptsOf[suite] : script' = ScriptsOf[suite][t]
  BY DEF StartTest
<1>2. UNCHANGED <<mIsEnabled, mDirectChannels, mEventQueue, reading, queue, now, suite>>
  BY DEF StartTest, halVars, testVars, envVars
<1>3. script' \in Seq(AllSteps) /\ Resets(script')
  BY <1>1 DEF ScriptsReset, CleanTypes
<1>4. CleanTypes' /\ ReportsAreWanted'
  BY <1>2, <1>3, StillWanted DEF CleanTypes
<1>5. ASSUME NEW b \in DOMAIN script', script'[b].op = "begin"
      PROVE  SetsUp(b)' /\ DisabledBefore(b)' /\ DroppedBefore(b)' /\ ReplacedBefore(b)'
  <2>1. SetsUp(b)' /\ DroppedBefore(b)'
    BY <1>3, <1>5 DEF Resets, SetsUp, DroppedBefore
  <2>2. PICK q \in 1 .. b - 1 :
          /\ script'[q].op = "initQueue"
          /\ \A h \in Handles : \E k \in 1 .. q - 1 : script'[k].op = "initDisable" /\ script'[k].sensor = h
          /\ \A k \in q + 1 .. b - 1 : script'[k].op # "initDisable"
    BY <1>3, <1>5 DEF Resets
  <2>3. ReplacedBefore(b)'
    BY <2>2 DEF ReplacedBefore
  <2>4. b \in Int
    BY <1>3, <1>5, LenProperties
  <2>5. \A k \in 1 .. q - 1 : k \in 1 .. b - 1
    BY <2>4
  <2>6. DisabledBefore(b)'
    BY <1>2, <2>2, <2>5 DEF DisabledBefore, CleanTypes
  <2> QED BY <2>1, <2>3, <2>6
<1>6. Ready'
  BY <1>5 DEF Ready
<1> QED BY <1>4, <1>6

(* A program that ends or is killed leaves no step behind.                 *)
LEMMA LeavesKeeps == ASSUME CleanInv, Leaves PROVE CleanInv'
<1> USE DEF CleanInv
<1>1. script' = <<>> /\ queue' = NoEvents /\ UNCHANGED <<mIsEnabled, reading, now, suite>>
  BY DEF Leaves
<1>2. CleanTypes'
  <2>1. script' \in Seq(AllSteps) /\ DOMAIN queue' = Envs
    BY <1>1 DEF NoEvents
  <2> QED BY <1>1, <2>1, LeftChannels DEF CleanTypes
<1>3. ReportsAreWanted'
  BY <1>1, LeftChannels, ChannelsWanted
<1>4. Ready'
  BY <1>1 DEF Ready
<1> QED BY <1>2, <1>3, <1>4

LEMMA CleanStep == ASSUME ScriptsReset, CleanInv, [Next]_vars PROVE CleanInv'
<1>1. CASE \/ \E s \in Handles : Read(s) \/ Report(s)
           \/ \E e \in Envs : ReadEvents(e) \/ PollingThreadEnds(e)
  BY <1>1, ThreadsKeep
<1>2. CASE TestStep
  BY <1>2, TestStepsKeep
<1>3. CASE StartTest
  BY <1>3, StartKeeps
<1>4. CASE EndTest \/ Killed
  BY <1>4, LeavesKeeps DEF EndTest, Killed
<1>5. CASE UNCHANGED vars
  BY <1>5 DEF vars, halVars, testVars, envVars, control, CleanInv, CleanTypes, ReportsAreWanted, Reporting, Ready,
     SetsUp, DisabledBefore, DroppedBefore, ReplacedBefore
<1> QED BY <1>1, <1>2, <1>3, <1>4, <1>5 DEF Next

-----------------------------------------------------------------------------
(* Theorems                                                                *)

THEOREM CleanInvariant == ASSUME ScriptsReset PROVE Spec => []CleanInv
<1>1. CleanInv /\ [Next]_vars => CleanInv'
  BY CleanStep
<1> QED BY <1>1, CleanInit, PTL DEF Spec

(* A test begins with a HAL that does nothing, knows of no channel and     *)
(* posts to the test's own, empty queue, whatever tests have run before    *)
(* and wherever they were killed (initialize() of either HAL).             *)
THEOREM TestsStartClean == ASSUME ScriptsReset PROVE Spec => []StartsClean
<1>1. CleanInv => StartsClean
  <2> SUFFICES ASSUME CleanInv, At("begin")
               PROVE  /\ mIsEnabled = {} /\ mDirectChannels = <<>> /\ reading = None
                      /\ mEventQueue = "first" /\ queue["first"] = <<>>
    BY DEF StartsClean
  <2>1. script \in Seq(AllSteps) /\ script # <<>> /\ Step.op = "begin"
    BY DEF At, CleanInv, CleanTypes
  <2>2. 1 \in DOMAIN script /\ Step = script[1]
    BY <2>1, EmptySeq, LenProperties DEF Step
  <2>3. DisabledBefore(1) /\ DroppedBefore(1) /\ ReplacedBefore(1)
    BY <2>1, <2>2 DEF CleanInv, Ready
  <2>4. 1 .. 1 - 1 = {}
    OBVIOUS
  <2>5. mIsEnabled = {} /\ mDirectChannels = <<>> /\ mEventQueue = "first" /\ queue["first"] = <<>>
    BY <2>3, <2>4 DEF DisabledBefore, DroppedBefore, ReplacedBefore
  <2>6. reading = None
    <3>1. DOMAIN mDirectChannels = {}
      BY <2>5
    <3>2. reading \in [Handles -> Nat] /\ \A s \in Handles : reading[s] = 0
      BY <2>5, <3>1 DEF CleanInv, CleanTypes, ReportsAreWanted, Reporting
    <3> QED BY <3>2 DEF None
  <2> QED BY <2>5, <2>6
<1> QED BY <1>1, CleanInvariant, PTL

=============================================================================
