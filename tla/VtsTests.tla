------------------------------ MODULE VtsTests ------------------------------
(***************************************************************************)
(* The VTS suites run against their HALs: the test program takes the steps *)
(* of one test after another (AidlTests, HidlTests) while the sensors' run *)
(* threads of the HAL read and report and the environments' polling        *)
(* threads read the event queues.  The test program may be killed in the   *)
(* middle of a test; the HAL, a process of its own, keeps its sensors      *)
(* enabled and its direct channels registered, and the next test meets it  *)
(* like that.                                                              *)
(*                                                                         *)
(* A call is one step, with what it changes at the interface: who is       *)
(* enabled, what reports directly, where events go.  How the threads       *)
(* inside share that is the matter of SensorsHal and SensorsHalAidl.       *)
(* Every reading is due when it is made.  Additional information is left   *)
(* out: the callbacks ignore it, and so, here, does collectEvents().       *)
(*                                                                         *)
(* Time: a wait of a test ends without what it waits for only when nothing *)
(* of the kind is on its way, and what has been posted is read within the  *)
(* sleep of NoStaleEvents, the only time that matters; now counts sleeps.  *)
(* Bounds: MaxTests tests in a row, MaxQueued samples of a sensor in a     *)
(* queue that is polled (the queue has room for 256 events).               *)
(***************************************************************************)
EXTENDS TestSteps

CONSTANTS MaxTests, MaxQueued

ASSUME VtsAssumption == MaxTests \in Nat /\ MaxQueued \in Nat \ {0}

Aidl == INSTANCE AidlTests
Hidl == INSTANCE HidlTests

ScriptsOf == [AIDL |-> Aidl!Scripts, HIDL |-> Hidl!Scripts]
RefusedBy == [AIDL |-> "ILLEGAL_ARGUMENT", HIDL |-> "BAD_VALUE"]

Envs == {"first", "second"}   \* the test's environment and newEnv

VARIABLES
  (* the HAL *)
  mIsEnabled,          \* sensors that are activated
  mDirectChannels,     \* of each channel: the sensors that report to it, and
                       \* whether its memory is that of the running test
  mNextChannelHandle,
  mEventQueue,         \* whose queue the HAL posts to: an environment's, that of
                       \* a program that is "gone", or "none"
  reading,             \* of a run thread: the time of the reading it has yet to
                       \* report, holding its mRunMutex, or 0
  (* the test program *)
  queue,               \* events in the queue of each environment
  polling,             \* the environments with a polling thread
  mStopThread,         \* the environments that have told theirs to end
  collecting,          \* the environment that collects events, or "none"
  collected,           \* how many it has, up to kNumEvents
  callback,            \* the first environment's, with what it has received
  lastEvents,          \* lastEventTimestampMap, 0 for no entry
  channelHandle,       \* the channel the test has registered last
  memory,              \* contents of the shared memory
  now,
  (* control *)
  suite, test, ran,
  script,              \* the steps the test has yet to take
  failed               \* an assertion of a test has failed

halVars == <<mIsEnabled, mDirectChannels, mNextChannelHandle, mEventQueue, reading>>
envVars == <<queue, polling, mStopThread, collecting, collected>>
localVars == <<callback, lastEvents, channelHandle>>
testVars == <<envVars, localVars, memory, now>>
control == <<suite, test, ran, script, failed>>
vars == <<halVars, testVars, control>>

None == [h \in Handles |-> 0]
NoEvents == [e \in Envs |-> <<>>]
NewCallback(registered) == [registered |-> registered, flushes |-> None, front |-> None, back |-> None]

Init ==
  /\ mIsEnabled = {} /\ mDirectChannels = <<>> /\ mNextChannelHandle = 1
  /\ mEventQueue = "none" /\ reading = None
  /\ queue = NoEvents /\ polling = {} /\ mStopThread = {} /\ collecting = "none" /\ collected = 0
  /\ callback = NewCallback(FALSE) /\ lastEvents = None /\ channelHandle = 0
  /\ memory = "zero" /\ now = 1
  /\ suite \in DOMAIN ScriptsOf /\ test = "none" /\ ran = 0 /\ script = <<>> /\ failed = FALSE

-----------------------------------------------------------------------------
(* The HAL's run threads                                                   *)

Reporting(s) == \E c \in DOMAIN mDirectChannels : s \in mDirectChannels[c].reporting

\* Mutant: activate() does not wait for the mutex of the run thread
RunMutexFree_NotTaken(s) == TRUE

RunMutexFree(s) == reading[s] = 0

Post(event) ==
  queue' = IF mEventQueue \in Envs /\ mEventQueue \in polling
           THEN [queue EXCEPT ![mEventQueue] = Append(@, event)] ELSE queue

Samples(e, s) == SelectSeq(queue[e], LAMBDA ev : ev.kind = "sample" /\ ev.sensor = s)
HasRoom(s) == mEventQueue \in polling => Len(Samples(mEventQueue, s)) < MaxQueued

Read(s) ==
  /\ reading[s] = 0 /\ (s \in mIsEnabled \/ Reporting(s))
  /\ reading' = [reading EXCEPT ![s] = now]
  /\ UNCHANGED <<mIsEnabled, mDirectChannels, mNextChannelHandle, mEventQueue, testVars, control>>

\* writeToDirectBuffer(), if a direct report is due, and postEvents()
Report(s) ==
  /\ reading[s] # 0 /\ HasRoom(s)
  /\ reading' = [reading EXCEPT ![s] = 0]
  /\ \/ memory' = memory
     \/ /\ \E c \in DOMAIN mDirectChannels : s \in mDirectChannels[c].reporting /\ mDirectChannels[c].mine
        /\ memory' = "samples"
  /\ IF s \in mIsEnabled THEN Post([kind |-> "sample", sensor |-> s, timestamp |-> reading[s]])
                         ELSE UNCHANGED queue
  /\ UNCHANGED <<mIsEnabled, mDirectChannels, mNextChannelHandle, mEventQueue, polling, mStopThread,
                 collecting, collected, localVars, now, control>>

-----------------------------------------------------------------------------
(* The environments' polling threads                                       *)

OnEvent(event) ==
  LET s == event.sensor
  IN IF event.kind = "flush" THEN [callback EXCEPT !.flushes[s] = @ + 1]
     ELSE [callback EXCEPT !.front[s] = IF @ = 0 THEN event.timestamp ELSE @, !.back[s] = event.timestamp]

\* readEvents() and addEvent(), for one event
ReadEvents(e) ==
  /\ e \in polling /\ queue[e] # <<>>
  /\ LET event == Head(queue[e])
     IN /\ queue' = [queue EXCEPT ![e] = Tail(@)]
        /\ callback' = IF e = "first" /\ callback.registered THEN OnEvent(event) ELSE callback
        /\ collected' = IF collecting = e /\ event.kind = "sample" /\ collected < kNumEvents
                        THEN collected + 1 ELSE collected
  /\ UNCHANGED <<halVars, polling, mStopThread, collecting, lastEvents, channelHandle, memory, now, control>>

PollingThreadEnds(e) ==
  /\ e \in polling \cap mStopThread
  /\ polling' = polling \ {e}
  /\ UNCHANGED <<halVars, queue, mStopThread, collecting, collected, localVars, memory, now, control>>

-----------------------------------------------------------------------------
(* The test program                                                        *)

Running == test # "none"
Step == Head(script)
At(op) == script # <<>> /\ Step.op = op

Advance == script' = Tail(script) /\ UNCHANGED <<suite, test, ran>>
Expect(holds) == failed' = (failed \/ ~holds) /\ Advance
Answer(result) == Expect(result \in Step.want)
Refusal == RefusedBy[suite]

Activates ==
  /\ At("activate")
  /\ IF Step.sensor \notin Handles THEN Answer(Refusal) /\ UNCHANGED mIsEnabled
     ELSE /\ RunMutexFree(Step.sensor)
          /\ mIsEnabled' = IF Step.enable THEN mIsEnabled \cup {Step.sensor} ELSE mIsEnabled \ {Step.sensor}
          /\ Answer("OK")
  /\ UNCHANGED <<mDirectChannels, mNextChannelHandle, mEventQueue, reading, testVars>>

Batches ==
  /\ At("batch")
  /\ Answer(IF Step.sensor \in Handles THEN "OK" ELSE Refusal)
  /\ UNCHANGED <<halVars, testVars>>

Flushes(s) == s \in Handles /\ s \in mIsEnabled

FlushesSensor ==
  /\ At("flush")
  /\ IF Flushes(Step.sensor)
     THEN Answer("OK") /\ Post([kind |-> "flush", sensor |-> Step.sensor, timestamp |-> now])
     ELSE Answer(IF Step.sensor \in Handles THEN "BAD_VALUE" ELSE Refusal) /\ UNCHANGED queue
  /\ UNCHANGED <<halVars, polling, mStopThread, collecting, collected, localVars, memory, now>>

SetsOperationMode ==
  /\ At("setOperationMode")
  /\ Answer(IF Step.mode = "NORMAL" THEN "OK" ELSE Refusal)
  /\ UNCHANGED <<halVars, testVars>>

\* The constructor of the channel clears its memory.
RegistersDirectChannel ==
  /\ At("registerDirectChannel")
  /\ mDirectChannels' = [c \in DOMAIN mDirectChannels \cup {mNextChannelHandle} |->
                           IF c \in DOMAIN mDirectChannels THEN mDirectChannels[c]
                           ELSE [reporting |-> {}, mine |-> TRUE]]
  /\ channelHandle' = mNextChannelHandle
  /\ mNextChannelHandle' = mNextChannelHandle + 1
  /\ memory' = "zero"
  /\ Answer("OK")
  /\ UNCHANGED <<mIsEnabled, mEventQueue, reading, envVars, callback, lastEvents, now>>

MutexesFree(channels) ==
  \A c \in channels : \A s \in mDirectChannels[c].reporting : RunMutexFree(s)

\* So does its destructor.
Drop(channels) ==
  /\ MutexesFree(channels)
  /\ mDirectChannels' = [c \in DOMAIN mDirectChannels \ channels |-> mDirectChannels[c]]
  /\ memory' = IF \E c \in channels : mDirectChannels[c].mine THEN "zero" ELSE memory

UnregistersDirectChannel ==
  /\ At("unregisterDirectChannel")
  /\ Drop({channelHandle} \cap DOMAIN mDirectChannels)
  /\ Answer("OK")
  /\ UNCHANGED <<mIsEnabled, mNextChannelHandle, mEventQueue, reading, envVars, localVars, now>>

\* The sensors of the channel after a configuration that is not refused.
Configured(reporting, s, rate) ==
  CASE s = -1 -> {}
    [] s # -1 /\ rate = "STOP" -> reporting \ {s}
    [] s # -1 /\ rate # "STOP" -> reporting \cup {s}

Supports(s, rate) ==
  LET info == SensorsListOf(Drivers)[s]
  IN /\ "DIRECT_CHANNEL_ASHMEM" \in info.flags
     /\ rate \in {"STOP", "NORMAL"} \/ RateLevels[rate] =< RateLevels[info.maxDirectRate]

ConfiguresDirectReport ==
  /\ At("configDirectReport")
  /\ LET s == Step.sensor
         c == IF Step.valid THEN channelHandle ELSE -1
         accepted == /\ c \in DOMAIN mDirectChannels
                     /\ \/ s = -1 /\ Step.rate = "STOP"
                        \/ s \in Handles /\ Supports(s, Step.rate)
     IN IF accepted
        THEN /\ MutexesFree({c}) /\ (s \in Handles => RunMutexFree(s))
             /\ mDirectChannels' = [mDirectChannels EXCEPT ![c].reporting = Configured(@, s, Step.rate)]
             /\ Answer("OK")
        ELSE Answer(Refusal) /\ UNCHANGED mDirectChannels
  /\ UNCHANGED <<mIsEnabled, mNextChannelHandle, mEventQueue, reading, testVars>>

-----------------------------------------------------------------------------
(* initialize()                                                            *)

InitDisableSensor ==
  /\ At("initDisable") /\ RunMutexFree(Step.sensor)
  /\ mIsEnabled' = mIsEnabled \ {Step.sensor}
  /\ Advance /\ UNCHANGED <<mDirectChannels, mNextChannelHandle, mEventQueue, reading, testVars, failed>>

\* Mutant: the channels of the client before are kept
InitDropped_Kept == {}

InitDropped == DOMAIN mDirectChannels

InitDropChannels ==
  /\ At("initChannels")
  /\ Drop(InitDropped)
  /\ Advance
  /\ UNCHANGED <<mIsEnabled, mNextChannelHandle, mEventQueue, reading, envVars, localVars, now, failed>>

InitReplaceQueue ==
  /\ At("initQueue")
  /\ mEventQueue' = Step.env
  /\ queue' = [queue EXCEPT ![Step.env] = <<>>]
  /\ Advance
  /\ UNCHANGED <<mIsEnabled, mDirectChannels, mNextChannelHandle, reading, polling, mStopThread,
                 collecting, collected, localVars, memory, now, failed>>

-----------------------------------------------------------------------------
(* The environments                                                        *)

StartsPolling ==
  /\ At("startPollingThread")
  /\ polling' = polling \cup {Step.env} /\ mStopThread' = mStopThread \ {Step.env}
  /\ Advance
  /\ UNCHANGED <<halVars, queue, collecting, collected, localVars, memory, now, failed>>

\* Mutant: TearDown() does not tell the polling thread to end
Stopped_Forgotten(e) == mStopThread

Stopped(e) == mStopThread \cup {e}

StopsPolling ==
  /\ At("stopPollingThread")
  /\ mStopThread' = Stopped(Step.env)
  /\ Advance
  /\ UNCHANGED <<halVars, queue, polling, collecting, collected, localVars, memory, now, failed>>

Joins ==
  /\ At("join") /\ Step.env \notin polling
  /\ Advance /\ UNCHANGED <<halVars, testVars, failed>>

\* Something the polling thread of e will yet add.
OnItsWay(e) == e \in polling /\ (queue[e] # <<>> \/ (mEventQueue = e /\ mIsEnabled # {}))

CollectStarts ==
  /\ At("collect")
  /\ collecting' = Step.env /\ collected' = 0
  /\ Advance /\ UNCHANGED <<halVars, queue, polling, mStopThread, localVars, memory, now, failed>>

CollectEnds ==
  /\ At("collected")
  /\ collected >= Step.limit \/ ~OnItsWay(Step.env)
  /\ collecting' = "none"
  /\ Advance /\ UNCHANGED <<halVars, queue, polling, mStopThread, collected, localVars, memory, now, failed>>

-----------------------------------------------------------------------------
(* The test's own steps                                                    *)

SetsCallback ==
  /\ \/ At("registerCallback") /\ callback' = NewCallback(TRUE)
     \/ At("unregisterCallback") /\ callback' = [callback EXCEPT !.registered = FALSE]
     \/ At("resetCallback") /\ callback' = NewCallback(callback.registered)
  /\ Advance /\ UNCHANGED <<halVars, envVars, lastEvents, channelHandle, memory, now, failed>>

GetFlushCount(s) == IF s \in Handles THEN callback.flushes[s] ELSE 0
FlushesReceived(sensors, calls) == \A s \in sensors : GetFlushCount(s) >= calls
EventsReceived(sensors) == \A s \in sensors : callback.back[s] # 0

Waits ==
  /\ \/ /\ At("waitForFlushEvents")
        /\ \/ FlushesReceived(Step.sensors, Step.calls)
           \/ \A k \in DOMAIN queue["first"] : queue["first"][k].kind # "flush"
     \/ /\ At("waitForEvents")
        /\ EventsReceived(Step.sensors) \/ ~OnItsWay("first")
     \/ At("begin")
  /\ Advance /\ UNCHANGED <<halVars, testVars, failed>>

SavesLastEvents ==
  /\ At("saveLastEvents")
  /\ lastEvents' = callback.back
  /\ Advance /\ UNCHANGED <<halVars, envVars, callback, channelHandle, memory, now, failed>>

Sleeps ==
  /\ At("sleep") /\ \A e \in polling : queue[e] = <<>>
  /\ now' = now + 1
  /\ Advance /\ UNCHANGED <<halVars, envVars, localVars, memory, failed>>

FillsMemory ==
  /\ At("fillMemory")
  /\ memory' = "ones"
  /\ Advance /\ UNCHANGED <<halVars, envVars, localVars, now, failed>>

\* front() of no events is undefined.
NotStale(s) == lastEvents[s] = 0 \/ callback.front[s] > lastEvents[s]

Checks ==
  /\ \/ At("check") /\ Expect(Step.holds)
     \/ At("checkFlushCount") /\ Expect(\A s \in Step.sensors : GetFlushCount(s) = Step.expected)
     \/ At("checkNotStale") /\ Expect(\A s \in Step.sensors : NotStale(s))
     \/ At("checkMemoryZeroed") /\ Expect(channelHandle > 0 /\ memory = "zero")
     \/ At("checkCollected") /\ Expect(collected \in Step.sizes)
  /\ UNCHANGED <<halVars, testVars>>

TestStep ==
  \/ Activates \/ Batches \/ FlushesSensor \/ SetsOperationMode
  \/ RegistersDirectChannel \/ UnregistersDirectChannel \/ ConfiguresDirectReport
  \/ InitDisableSensor \/ InitDropChannels \/ InitReplaceQueue
  \/ StartsPolling \/ StopsPolling \/ Joins \/ CollectStarts \/ CollectEnds
  \/ SetsCallback \/ Waits \/ SavesLastEvents \/ Sleeps \/ FillsMemory \/ Checks

StartTest ==
  /\ ~Running /\ ran < MaxTests
  /\ \E t \in DOMAIN ScriptsOf[suite] : test' = t /\ script' = ScriptsOf[suite][t]
  /\ ran' = ran + 1
  /\ UNCHANGED <<halVars, testVars, suite, failed>>

\* The memory of the program's channels is no longer that of the running test.
Leaves ==
  /\ test' = "none" /\ script' = <<>>
  /\ queue' = NoEvents /\ polling' = {} /\ mStopThread' = {} /\ collecting' = "none" /\ collected' = 0
  /\ callback' = NewCallback(FALSE) /\ lastEvents' = None /\ channelHandle' = 0 /\ memory' = "zero"
  /\ mDirectChannels' = [c \in DOMAIN mDirectChannels |-> [mDirectChannels[c] EXCEPT !.mine = FALSE]]
  /\ UNCHANGED <<mIsEnabled, mNextChannelHandle, reading, now, suite, ran, failed>>

EndTest ==
  /\ Running /\ script = <<>>
  /\ Leaves /\ mEventQueue' = "gone"

\* The program is killed.  The HAL completes a call it is in, initialize() too.
Killed ==
  /\ script # <<>> /\ Step.op \notin {"initDisable", "initChannels", "initQueue"}
  /\ ran < MaxTests
  /\ Leaves /\ mEventQueue' = IF mEventQueue = "none" THEN "none" ELSE "gone"

Next ==
  \/ \E s \in Handles : Read(s) \/ Report(s)
  \/ \E e \in Envs : ReadEvents(e) \/ PollingThreadEnds(e)
  \/ TestStep \/ StartTest \/ EndTest \/ Killed

Spec == Init /\ [][Next]_vars

\* The threads run.  A run thread waits for 1 ms at least without its mutex
\* between two readings, so a call that wants it gets it in the end.
Fairness ==
  /\ \A s \in Handles : WF_vars(Read(s)) /\ WF_vars(Report(s))
  /\ \A e \in Envs : WF_vars(ReadEvents(e)) /\ WF_vars(PollingThreadEnds(e))
  /\ SF_vars(TestStep) /\ WF_vars(EndTest)

FairSpec == Spec /\ Fairness

-----------------------------------------------------------------------------
(* Properties                                                              *)

\* No assertion of a test fails, however the threads of the HAL and of the
\* environments interleave with it and whatever a killed test has left behind:
\* what the sensor list says, the results of the calls, events that go to the
\* last environment only and none from before a pause, flushes completed once
\* each, and shared memory that is clear when a channel is registered.
AssertionsHold == ~failed

\* A test begins with a HAL that does nothing and knows of no channel, and that
\* posts to the test's own queue, which is empty: initialize() takes back
\* everything an earlier test, ended or killed, has asked for.
StartsClean ==
  At("begin") =>
    /\ mIsEnabled = {} /\ mDirectChannels = <<>> /\ reading = None
    /\ mEventQueue = "first" /\ queue["first"] = <<>>

\* What initialize() and SetUp() are made of.
SetUpOps == {"initDisable", "initChannels", "initQueue", "activate", "startPollingThread"}

AllSteps == UNION {UNION {ToSet(ScriptsOf[s][t]) : t \in DOMAIN ScriptsOf[s]} : s \in DOMAIN ScriptsOf}

\* Before a test begins, initialize() has disabled every sensor, dropped the
\* channels and then or before, but after the sensors, replaced the queue, and
\* nothing has been activated: true of the scripts of both suites, and a
\* hypothesis of the proof, which holds for any scripts like these.
Resets(steps) ==
  \A b \in DOMAIN steps :
    steps[b].op = "begin" =>
      /\ \A k \in 1 .. b - 1 : /\ steps[k].op \in SetUpOps
                               /\ steps[k].op = "activate" => ~steps[k].enable
                               /\ steps[k].op = "initQueue" => steps[k].env = "first"
      /\ \E k \in 1 .. b - 1 : steps[k].op = "initChannels"
      /\ \E q \in 1 .. b - 1 :
           /\ steps[q].op = "initQueue"
           /\ \A h \in Handles : \E k \in 1 .. q - 1 : steps[k].op = "initDisable" /\ steps[k].sensor = h
           /\ \A k \in q + 1 .. b - 1 : steps[k].op # "initDisable"

ScriptsReset ==
  \A s \in DOMAIN ScriptsOf : \A t \in DOMAIN ScriptsOf[s] :
    ScriptsOf[s][t] \in Seq(AllSteps) /\ Resets(ScriptsOf[s][t])

\* Every test ends: no call waits for a run thread for ever, no join for a
\* polling thread, and no test for events that never come.
TestsEnd == Running ~> ~Running
=============================================================================
