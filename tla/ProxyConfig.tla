---------------------------- MODULE ProxyConfig ----------------------------
(***************************************************************************)
(* The multi-HAL proxy as a router (multihal/2.X/HalProxy.cpp): the        *)
(* sub-HALs it loads, the sensor handles that carry a sub-HAL's index, the *)
(* only sub-HAL with direct channels, the operation mode that all sub-HALs *)
(* share, and the dynamic sensors, which threads of the sub-HALs connect   *)
(* and disconnect while the framework's calls are served.                  *)
(*                                                                         *)
(* Queues and wake locks are in HalProxyEvents and HalProxyWakelock.       *)
(***************************************************************************)
EXTENDS Integers, Sequences, FiniteSets

CONSTANTS
  Libraries,       (* hals.conf: [opens, exports, version, sensors, dynamic, modes] *)
  Modes, NORMAL    (* OperationMode                                         *)

ASSUME ConfigAssumption ==
  /\ Libraries \in Seq([opens: BOOLEAN, exports: {"2.0", "2.1", "none"}, version: {"2.0", "2.1"},
                        sensors: Seq([handle: Nat, direct: BOOLEAN]),
                        dynamic: SUBSET Nat, modes: SUBSET Modes])
  /\ Len(Libraries) < 128
  /\ NORMAL \in Modes
  /\ \A k \in 1..Len(Libraries) : NORMAL \in Libraries[k].modes

VARIABLES
  mCurrentOperationMode,
  subHalMode,              (* of each sub-HAL                               *)
  active,                  (* the handles whose sensors are activated, in the sub-HALs *)
  attached,                (* the dynamic sensors the sub-HALs have         *)
  notifier,                (* of each sub-HAL, the handle its thread is reporting *)
  mDynamicSensors,
  known,                   (* the dynamic sensors the framework knows of    *)
  overlapped,              (* the map was cleared under a notification      *)
  initialized,             (* initialize() has returned OK                  *)
  started,                 (* the sub-HALs that have a callback             *)
  forwarded,               (* what the last call passed on, and to whom     *)
  binder                   (* the call being served and what is left to do  *)

dynamicVars == <<attached, notifier, mDynamicSensors, known, overlapped>>
startVars == <<initialized, started>>
modeVars == <<mCurrentOperationMode, subHalMode>>
vars == <<modeVars, active, dynamicVars, startVars, forwarded, binder>>

-----------------------------------------------------------------------------
(* What the constructor sets up for good.                                  *)

(* A library loads when it opens and the symbol it exports hands out the   *)
(* version of a sub-HAL that goes with the symbol.                         *)
Loads(lib) == lib.opens /\ lib.exports \in {"2.0", "2.1"} /\ lib.version = lib.exports

mSubHalList == SelectSeq(Libraries, Loads)

SubHals == 0..Len(mSubHalList) - 1
SubHal(i) == mSubHalList[i + 1]

(* What SelectSeq does, whose definition is recursive: it picks elements.  *)
ASSUME SubHalAssumption ==
  /\ Len(mSubHalList) \in Nat
  /\ \A i \in SubHals : \E k \in 1..Len(Libraries) : SubHal(i) = Libraries[k]

(* Sensor handles: the upper byte of the 32 bits is the sub-HAL's index.   *)
HandleSpan == 16777216
SubHalIndexIsClear(handle) == handle < HandleSpan
SetSubHalIndex(handle, i) == handle + i * HandleSpan
ExtractSubHalIndex(handle) == handle \div HandleSpan
ClearSubHalIndex(handle) == handle % HandleSpan

IsSubHalIndexValid(handle) == ExtractSubHalIndex(handle) \in SubHals

(* The sub-HALs' handles that the proxy accepts, and gives a new name.     *)
Accepted(handles, i) == {SetSubHalIndex(h, i) : h \in {l \in handles : SubHalIndexIsClear(l)}}

SensorHandles(i) == {SubHal(i).sensors[k].handle : k \in DOMAIN SubHal(i).sensors}
DirectHandles(i) ==
  {SubHal(i).sensors[k].handle : k \in {l \in DOMAIN SubHal(i).sensors : SubHal(i).sensors[l].direct}}

mSensors == UNION {Accepted(SensorHandles(i), i) : i \in SubHals}
DynamicHandles == UNION {Accepted(SubHal(i).dynamic, i) : i \in SubHals}

(* setDirectChannelFlags: the first sub-HAL with such a sensor ...         *)
NoSubHal == -1
mDirectChannelSubHal ==
  LET capable == {i \in SubHals : Accepted(DirectHandles(i), i) # {}}
  IN IF capable = {} THEN NoSubHal ELSE CHOOSE i \in capable : \A j \in capable : i <= j

KeepsDirectFlags_All(i) == TRUE

(* ... and nobody else keeps the flags.                                    *)
KeepsDirectFlags(i) == i = mDirectChannelSubHal

DirectSensors == UNION {Accepted(DirectHandles(i), i) : i \in {j \in SubHals : KeepsDirectFlags(j)}}

-----------------------------------------------------------------------------
(* The framework's calls, served one at a time.                            *)

Idle == [call |-> "idle", mode |-> NORMAL, next |-> 0, todo |-> {}]
Serve(call, mode, next, todo) == binder' = [call |-> call, mode |-> mode, next |-> next, todo |-> todo]

NoCall == [handle |-> -1, subHal |-> NoSubHal, local |-> -1]

(* activate, batch, flush and injectSensorData all find the sub-HAL so.    *)
Forward(handle) ==
  forwarded' = IF IsSubHalIndexValid(handle)
               THEN [handle |-> handle, subHal |-> ExtractSubHalIndex(handle), local |-> ClearSubHalIndex(handle)]
               ELSE NoCall

(* The framework activates sensors it knows of; the sub-HAL does if it has *)
(* the sensor (a dynamic one may be gone).                                 *)
Activate(handle, enable) ==
  /\ binder = Idle /\ initialized
  /\ handle \in mSensors \union known
  /\ Forward(handle)
  /\ active' = IF ~enable THEN active \ {handle}
               ELSE active \union ({handle} \intersect (mSensors \union attached))
  /\ UNCHANGED <<modeVars, dynamicVars, startVars, binder>>

(* Only outside mode NORMAL is a sensor's data passed on.                  *)
InjectSensorData(handle) ==
  /\ binder = Idle /\ initialized
  /\ handle \in mSensors
  /\ mCurrentOperationMode # NORMAL
  /\ Forward(handle)
  /\ UNCHANGED <<modeVars, active, dynamicVars, startVars, binder>>

(* The framework configures direct reports of sensors with the flags; the  *)
(* handle's index is cleared, not looked at.                               *)
ConfigDirectReport(handle) ==
  /\ binder = Idle /\ initialized
  /\ mDirectChannelSubHal # NoSubHal
  /\ handle \in DirectSensors
  /\ forwarded' = [handle |-> handle, subHal |-> mDirectChannelSubHal, local |-> ClearSubHalIndex(handle)]
  /\ UNCHANGED <<modeVars, active, dynamicVars, startVars, binder>>

(* setOperationMode: one sub-HAL after the other ...                       *)
SetOperationMode(mode) ==
  /\ binder = Idle /\ initialized
  /\ Serve("flip", mode, 0, {})
  /\ forwarded' = NoCall
  /\ UNCHANGED <<modeVars, active, dynamicVars, startVars>>

Flip(i) ==
  /\ binder.call = "flip" /\ binder.next = i
  /\ binder.mode \in SubHal(i).modes
  /\ subHalMode' = [subHalMode EXCEPT ![i] = binder.mode]
  /\ Serve("flip", binder.mode, i + 1, {})
  /\ UNCHANGED <<mCurrentOperationMode, active, dynamicVars, startVars, forwarded>>

FlippedAll ==
  /\ binder.call = "flip" /\ binder.next \notin SubHals
  /\ mCurrentOperationMode' = binder.mode
  /\ binder' = Idle
  /\ UNCHANGED <<subHalMode, active, dynamicVars, startVars, forwarded>>

Flipped_ButOne(i) == 1..i - 1

(* The sub-HALs to roll back when sub-HAL i refuses.                       *)
Flipped(i) == 0..i - 1

(* ... and back, those that took it, when one refuses: for good a mode it  *)
(* does not have, for now any mode but NORMAL.                             *)
Refuse(i) ==
  /\ binder.call = "flip" /\ binder.next = i
  /\ binder.mode # NORMAL
  /\ Serve("rollBack", binder.mode, i, Flipped(i))
  /\ UNCHANGED <<modeVars, active, dynamicVars, startVars, forwarded>>

RollBack(i) ==
  /\ binder.call = "rollBack" /\ i \in binder.todo
  /\ \A j \in binder.todo : i <= j
  /\ subHalMode' = [subHalMode EXCEPT ![i] = mCurrentOperationMode]
  /\ Serve("rollBack", binder.mode, binder.next, binder.todo \ {i})
  /\ UNCHANGED <<mCurrentOperationMode, active, dynamicVars, startVars, forwarded>>

RolledBack ==
  /\ binder.call = "rollBack" /\ binder.todo = {}
  /\ binder' = Idle
  /\ UNCHANGED <<modeVars, active, dynamicVars, startVars, forwarded>>

-----------------------------------------------------------------------------
(* A sub-HAL's thread reports its dynamic sensors, one at a time.          *)

Silent == [event |-> "none", handle |-> -1]

HoldsDynamicMutex_InCallback(i) == notifier[i] # Silent

(* Its thread has left mDynamicSensorsMutex before it calls the framework. *)
HoldsDynamicMutex(i) == FALSE

(* disableAllSensors holds the mutex while it visits the dynamic sensors.  *)
DynamicSensorsMutexFree ==
  binder.call # "disableDynamic" /\ \A i \in SubHals : ~HoldsDynamicMutex(i)

AfterConnect(handle) == mDynamicSensors \union {handle}

(* onDynamicSensorsConnected up to the release of the mutex.               *)
Connect(i, handle) ==
  /\ notifier[i] = Silent /\ i \in started
  /\ handle \in Accepted(SubHal(i).dynamic, i) \ attached
  /\ DynamicSensorsMutexFree
  /\ attached' = attached \union {handle}
  /\ mDynamicSensors' = AfterConnect(handle)
  /\ notifier' = [notifier EXCEPT ![i] = [event |-> "connected", handle |-> handle]]
  /\ UNCHANGED <<modeVars, active, known, overlapped, startVars, forwarded, binder>>

AfterDisconnect_Kept(handle) == mDynamicSensors

AfterDisconnect(handle) == mDynamicSensors \ {handle}

(* onDynamicSensorsDisconnected; what is not in the map is not reported.   *)
Disconnect(i, handle) ==
  /\ notifier[i] = Silent
  /\ handle \in attached \intersect Accepted(SubHal(i).dynamic, i)
  /\ DynamicSensorsMutexFree
  /\ attached' = attached \ {handle}
  /\ active' = active \ {handle}
  /\ mDynamicSensors' = AfterDisconnect(handle)
  /\ notifier' = [notifier EXCEPT ![i] =
       IF handle \in mDynamicSensors THEN [event |-> "disconnected", handle |-> handle] ELSE Silent]
  /\ UNCHANGED <<modeVars, known, overlapped, startVars, forwarded, binder>>

(* mDynamicSensorsCallback: whatever framework is connected by now.        *)
TellFramework(i) ==
  /\ notifier[i] # Silent
  /\ known' = IF notifier[i].event = "connected" THEN known \union {notifier[i].handle}
              ELSE known \ {notifier[i].handle}
  /\ notifier' = [notifier EXCEPT ![i] = Silent]
  /\ UNCHANGED <<modeVars, active, attached, mDynamicSensors, overlapped, startVars, forwarded, binder>>

-----------------------------------------------------------------------------
(* initialize() of a framework that has (re)started: disableAllSensors ... *)
InitializeCommon ==
  /\ binder = Idle
  /\ initialized' = FALSE
  /\ Serve("disable", NORMAL, 0, mSensors)
  /\ forwarded' = NoCall
  /\ UNCHANGED <<modeVars, active, dynamicVars, started>>

DisableNext(handle) ==
  /\ binder.call \in {"disable", "disableDynamic"}
  /\ handle \in binder.todo
  /\ active' = IF IsSubHalIndexValid(handle) THEN active \ {handle} ELSE active
  /\ Serve(binder.call, NORMAL, 0, binder.todo \ {handle})
  /\ UNCHANGED <<modeVars, dynamicVars, startVars, forwarded>>

DynamicToDisable_None == {}

DynamicToDisable == mDynamicSensors

DisableDynamic ==
  /\ binder.call = "disable" /\ binder.todo = {}
  /\ DynamicSensorsMutexFree
  /\ Serve("disableDynamic", NORMAL, 0, DynamicToDisable)
  /\ UNCHANGED <<modeVars, active, dynamicVars, startVars, forwarded>>

DisabledAll ==
  /\ binder.call = "disableDynamic" /\ binder.todo = {}
  /\ Serve("clear", NORMAL, 0, {})
  /\ UNCHANGED <<modeVars, active, dynamicVars, startVars, forwarded>>

(* ... then the map is cleared and the callback replaced without the mutex *)
(* ...                                                                     *)
ClearDynamicSensors ==
  /\ binder.call = "clear"
  /\ mDynamicSensors' = {}
  /\ known' = {}
  /\ overlapped' = \E i \in SubHals : notifier[i].event = "connected"
  /\ Serve("start", NORMAL, 0, {})
  /\ UNCHANGED <<modeVars, active, attached, notifier, startVars, forwarded>>

(* ... and the sub-HALs reset themselves, in the end announcing their      *)
(* dynamic sensors anew; one that fails does not.                          *)
StartSubHal(i) ==
  /\ binder.call = "start" /\ binder.next = i
  /\ subHalMode' = [subHalMode EXCEPT ![i] = NORMAL]
  /\ active' = {h \in active : ExtractSubHalIndex(h) # i}
  /\ attached' = {h \in attached : ExtractSubHalIndex(h) # i}
  /\ started' = started \union {i}
  /\ Serve("start", binder.mode, i + 1, binder.todo)
  /\ UNCHANGED <<mCurrentOperationMode, notifier, mDynamicSensors, known, overlapped, initialized, forwarded>>

SubHalFails(i) ==
  /\ binder.call = "start" /\ binder.next = i
  /\ Serve("start", binder.mode, i + 1, {i})
  /\ UNCHANGED <<modeVars, active, dynamicVars, startVars, forwarded>>

StartedAll ==
  /\ binder.call = "start" /\ binder.next \notin SubHals
  /\ mCurrentOperationMode' = NORMAL
  /\ initialized' = (binder.todo = {})
  /\ binder' = Idle
  /\ UNCHANGED <<subHalMode, active, dynamicVars, started, forwarded>>

-----------------------------------------------------------------------------
Init ==
  /\ mCurrentOperationMode = NORMAL
  /\ subHalMode = [i \in SubHals |-> NORMAL]
  /\ active = {}
  /\ attached = {}
  /\ notifier = [i \in SubHals |-> Silent]
  /\ mDynamicSensors = {}
  /\ known = {}
  /\ overlapped = FALSE
  /\ initialized = FALSE
  /\ started = {}
  /\ forwarded = NoCall
  /\ binder = Idle

(* The steps of a call that has begun.                                     *)
Continue ==
  \/ \E i \in SubHals : Flip(i) \/ Refuse(i) \/ RollBack(i)
  \/ FlippedAll
  \/ RolledBack
  \/ \E handle \in mSensors \union DynamicHandles : DisableNext(handle)
  \/ DisableDynamic
  \/ DisabledAll
  \/ ClearDynamicSensors
  \/ \E i \in SubHals : StartSubHal(i) \/ SubHalFails(i)
  \/ StartedAll

Next ==
  \/ \E handle \in mSensors \union DynamicHandles, enable \in BOOLEAN : Activate(handle, enable)
  \/ \E handle \in mSensors : InjectSensorData(handle) \/ ConfigDirectReport(handle)
  \/ \E mode \in Modes : SetOperationMode(mode)
  \/ InitializeCommon
  \/ \E i \in SubHals, handle \in DynamicHandles : Connect(i, handle) \/ Disconnect(i, handle)
  \/ \E i \in SubHals : TellFramework(i)
  \/ Continue

Spec == Init /\ [][Next]_vars

(* The binder thread runs.  The framework takes a callback at least when   *)
(* it is not itself waiting for a call to return.                          *)
Fairness ==
  /\ WF_vars(Continue)
  /\ \A i \in SubHals : WF_vars(binder = Idle /\ TellFramework(i))

FairSpec == Spec /\ Fairness

-----------------------------------------------------------------------------
Notices ==
  {Silent} \union [event: {"connected", "disconnected"}, handle: DynamicHandles]

TypeOK ==
  /\ mCurrentOperationMode \in Modes
  /\ subHalMode \in [SubHals -> Modes]
  /\ active \subseteq mSensors \union DynamicHandles
  /\ attached \subseteq DynamicHandles
  /\ notifier \in [SubHals -> Notices]
  /\ mDynamicSensors \subseteq DynamicHandles
  /\ known \subseteq DynamicHandles
  /\ overlapped \in BOOLEAN
  /\ initialized \in BOOLEAN
  /\ started \subseteq SubHals
  /\ forwarded \in [handle: Int, subHal: SubHals \union {NoSubHal}, local: Int]
  /\ binder.call \in {"idle", "flip", "rollBack", "disable", "disableDynamic", "clear", "start"}
  /\ binder.mode \in Modes
  /\ binder.next \in 0..Len(mSubHalList)
  /\ binder.todo \subseteq mSensors \union DynamicHandles \union SubHals

(* A call on a sensor reaches the sub-HAL that listed or announced it,     *)
(* under the handle this sub-HAL knows; a direct report, too, although     *)
(* configDirectReport() clears the handle's index without looking at it    *)
(* (setSubHalIndex, setDirectChannelFlags, configDirectReport).            *)
ReachesItsOwner ==
  forwarded # NoCall =>
    LET i == forwarded.subHal
        own == SensorHandles(i) \union SubHal(i).dynamic
    IN /\ forwarded.local \in own
       /\ forwarded.handle \in Accepted(own, i)

(* Between calls every sub-HAL is in the mode the proxy believes it to be  *)
(* in, whichever of them refused a mode on the way: data is injected only  *)
(* into sub-HALs that have agreed to it (setOperationMode).                *)
ModesAgree ==
  binder = Idle /\ initialized => \A i \in SubHals : subHalMode[i] = mCurrentOperationMode

(* "So that the pending write events queue can be cleared safely and [...] *)
(* we do not get new events until after initialize resets the subhals":    *)
(* when initialize() clears the queue and the map no sensor of any sub-HAL *)
(* is active, no matter which dynamic sensors came and went meanwhile and  *)
(* under earlier calls (disableAllSensors).                                *)
SilentWhenCleared == binder.call = "clear" => active = {}

(* What the framework knows of the dynamic sensors is what the map has,    *)
(* but for the one a thread is about to report.  The exception is real:    *)
(* initialize() clears the map without mDynamicSensorsMutex, and a sensor  *)
(* whose connection is being reported at that moment is announced but not  *)
(* in the map, so that its disconnection is never reported.                *)
KnowsDynamicSensors ==
  ~overlapped => \A i \in SubHals, h \in DynamicHandles :
    ExtractSubHalIndex(h) = i /\ notifier[i].handle # h => (h \in known <=> h \in mDynamicSensors)

(* Calls return: disableAllSensors() holds mDynamicSensorsMutex while it   *)
(* calls the sub-HALs, whose threads want it too, and the framework may    *)
(* refuse callbacks as long as it waits for initialize().                  *)
CallsReturn == binder # Idle ~> binder = Idle
=============================================================================
