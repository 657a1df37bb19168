------------------------- MODULE ProxyConfigProofs -------------------------
(***************************************************************************)
(* Routing, modes and dynamic sensors of the proxy, for any libraries and  *)
(* modes.  The invariant says what each stage of a call has achieved for   *)
(* the sub-HALs' modes (ModesFollow) and for the active sensors            *)
(* (ActiveFollow), and what a sub-HAL's thread is about to report          *)
(* (NoticesFollow).                                                        *)
(***************************************************************************)
EXTENDS ProxyConfig, TLAPS

BinderType ==
  binder \in [call: {"idle", "flip", "rollBack", "disable", "disableDynamic", "clear", "start"},
              mode: Modes, next: 0..Len(mSubHalList),
              todo: SUBSET (mSensors \union DynamicHandles \union SubHals)]

StateTypes ==
  /\ mCurrentOperationMode \in Modes
  /\ subHalMode \in [SubHals -> Modes]
  /\ active \subseteq mSensors \union DynamicHandles
  /\ attached \subseteq DynamicHandles
  /\ notifier \in [SubHals -> Notices]
  /\ mDynamicSensors \subseteq DynamicHandles
  /\ known \subseteq DynamicHandles
  /\ overlapped \in BOOLEAN
  /\ initialized \in BOOLEAN
  /\ started \subseteq SubHals
  /\ forwarded \in [handle: Int, subHal: SubHals \union {NoSubHal}, local: Int]

(* setOperationMode has flipped the sub-HALs before next; those it still   *)
(* has to roll back are in todo.                                           *)
ModesFollow ==
  /\ initialized /\ binder.call \notin {"flip", "rollBack"} =>
       \A i \in SubHals : subHalMode[i] = mCurrentOperationMode
  /\ binder.call = "flip" =>
       /\ initialized
       /\ \A i \in SubHals : i < binder.next => subHalMode[i] = binder.mode
       /\ \A i \in SubHals : i >= binder.next => subHalMode[i] = mCurrentOperationMode
  /\ binder.call = "rollBack" =>
       /\ initialized
       /\ \A i \in SubHals : i \notin binder.todo => subHalMode[i] = mCurrentOperationMode
  /\ binder.call = "start" /\ binder.todo = {} =>
       \A i \in SubHals : i < binder.next => subHalMode[i] = NORMAL
  /\ binder.call \in {"disable", "disableDynamic", "clear", "start"} => ~initialized

(* disableAllSensors has left active only what is in todo and, until it    *)
(* has the mutex, the dynamic sensors of the map.                          *)
ActiveFollow ==
  /\ binder.call \in {"idle", "flip", "rollBack"} => active \subseteq mSensors \union (attached \intersect mDynamicSensors)
  /\ binder.call = "disable" => active \subseteq binder.todo \union (attached \intersect mDynamicSensors)
  /\ binder.call = "disableDynamic" => active \subseteq binder.todo
  /\ binder.call \in {"clear", "start"} => active = {}
  /\ initialized => attached \subseteq mDynamicSensors
  /\ binder.call = "start" /\ binder.todo = {} =>
       \A h \in attached : ExtractSubHalIndex(h) < binder.next => h \in mDynamicSensors

(* A thread reports its own sub-HAL's sensors; one it reports connected is *)
(* in the map, unless the map was cleared meanwhile.                       *)
NoticesFollow ==
  \A i \in SubHals :
    /\ notifier[i].event # "none" => ExtractSubHalIndex(notifier[i].handle) = i
    /\ notifier[i].event = "connected" /\ ~overlapped => notifier[i].handle \in mDynamicSensors
    /\ notifier[i].event = "disconnected" => notifier[i].handle \notin mDynamicSensors
    /\ notifier[i].event = "none" => notifier[i] = Silent

ConfigInv ==
  /\ StateTypes /\ BinderType /\ ModesFollow /\ ActiveFollow /\ NoticesFollow
  /\ KnowsDynamicSensors /\ ReachesItsOwner

-----------------------------------------------------------------------------
(* Handles.                                                                *)

LEMMA RoundTrip ==
  ASSUME NEW h \in Nat, SubHalIndexIsClear(h), NEW i \in Nat
  PROVE  /\ SetSubHalIndex(h, i) \in Nat
         /\ ExtractSubHalIndex(SetSubHalIndex(h, i)) = i
         /\ ClearSubHalIndex(SetSubHalIndex(h, i)) = h
BY DEF SubHalIndexIsClear, SetSubHalIndex, ExtractSubHalIndex, ClearSubHalIndex, HandleSpan

Own(i) == SensorHandles(i) \union SubHal(i).dynamic

LEMMA OwnHandles ==
  ASSUME ConfigAssumption, SubHalAssumption, NEW i \in SubHals
  PROVE  i \in Nat /\ SensorHandles(i) \subseteq Nat /\ DirectHandles(i) \subseteq SensorHandles(i) /\ SubHal(i).dynamic \subseteq Nat
<1>1. i \in Nat
  BY DEF SubHals, SubHalAssumption
<1> DEFINE Entry == [handle: Nat, direct: BOOLEAN]
           Library == [opens: BOOLEAN, exports: {"2.0", "2.1", "none"}, version: {"2.0", "2.1"},
                       sensors: Seq(Entry), dynamic: SUBSET Nat, modes: SUBSET Modes]
<1>2. PICK k \in 1..Len(Libraries) : SubHal(i) = Libraries[k]
  BY DEF SubHalAssumption
<1>3. SubHal(i) \in Library
  <2>1. Libraries \in Seq(Library)
    BY DEF ConfigAssumption
  <2> HIDE DEF Library
  <2>2. Libraries[k] \in Library
    BY <2>1
  <2> QED BY <1>2, <2>2
<1>4. SubHal(i).sensors \in Seq(Entry) /\ SubHal(i).dynamic \subseteq Nat
  <2> HIDE DEF Entry
  <2> QED BY <1>3
<1>5. \A l \in DOMAIN SubHal(i).sensors : SubHal(i).sensors[l].handle \in Nat
  <2>1. \A l \in DOMAIN SubHal(i).sensors : SubHal(i).sensors[l] \in Entry
    <3> HIDE DEF Entry
    <3> QED BY <1>4
  <2> QED BY <2>1
<1> QED BY <1>1, <1>4, <1>5 DEF SensorHandles, DirectHandles

LEMMA AcceptedHandle ==
  ASSUME ConfigAssumption, SubHalAssumption, NEW i \in SubHals, NEW handles \in SUBSET Own(i),
         NEW h \in Accepted(handles, i)
  PROVE  /\ h \in Nat /\ ExtractSubHalIndex(h) = i /\ ClearSubHalIndex(h) \in handles
         /\ h \in Accepted(Own(i), i)
<1>1. PICK l \in handles : SubHalIndexIsClear(l) /\ h = SetSubHalIndex(l, i)
  BY DEF Accepted
<1>2. l \in Nat /\ i \in Nat
  BY OwnHandles DEF Own
<1> QED BY <1>1, <1>2, RoundTrip DEF Accepted

LEMMA HandlesHaveOwners ==
  ASSUME ConfigAssumption, SubHalAssumption, NEW h \in mSensors \union DynamicHandles
  PROVE  /\ h \in Nat /\ IsSubHalIndexValid(h)
         /\ ClearSubHalIndex(h) \in Own(ExtractSubHalIndex(h))
         /\ h \in Accepted(Own(ExtractSubHalIndex(h)), ExtractSubHalIndex(h))
<1>1. CASE h \in mSensors
  <2>1. PICK i \in SubHals : h \in Accepted(SensorHandles(i), i)
    BY <1>1 DEF mSensors
  <2> QED BY <2>1, AcceptedHandle DEF Own, IsSubHalIndexValid
<1>2. CASE h \in DynamicHandles
  <2>1. PICK i \in SubHals : h \in Accepted(SubHal(i).dynamic, i)
    BY <1>2 DEF DynamicHandles
  <2> QED BY <2>1, AcceptedHandle DEF Own, IsSubHalIndexValid
<1> QED BY <1>1, <1>2

LEMMA DynamicOfSubHal ==
  ASSUME ConfigAssumption, SubHalAssumption, NEW i \in SubHals, NEW h \in Accepted(SubHal(i).dynamic, i)
  PROVE  h \in DynamicHandles /\ ExtractSubHalIndex(h) = i /\ h # -1
<1>1. h \in DynamicHandles
  BY DEF DynamicHandles
<1>2. SubHal(i).dynamic \in SUBSET Own(i)
  BY DEF Own
<1>3. h \in Nat /\ ExtractSubHalIndex(h) = i
  BY <1>2, AcceptedHandle
<1> QED BY <1>1, <1>3

LEMMA SubHalsAreNumbers ==
  ASSUME SubHalAssumption
  PROVE  /\ SubHals \subseteq Nat /\ Len(mSubHalList) \in Nat
         /\ \A i \in SubHals : i < Len(mSubHalList) /\ i \in 0..Len(mSubHalList) /\ i + 1 \in 0..Len(mSubHalList)
         /\ \A n \in 0..Len(mSubHalList) : n \notin SubHals => n = Len(mSubHalList)
         /\ 0 \in 0..Len(mSubHalList)
BY DEF SubHalAssumption, SubHals

LEMMA ForwardReaches ==
  ASSUME ConfigAssumption, SubHalAssumption, NEW h \in mSensors \union DynamicHandles, Forward(h)
  PROVE  forwarded' \in [handle: Int, subHal: SubHals \union {NoSubHal}, local: Int] /\ ReachesItsOwner'
<1>1. /\ h \in Nat /\ ExtractSubHalIndex(h) \in SubHals
      /\ ClearSubHalIndex(h) \in Own(ExtractSubHalIndex(h))
      /\ h \in Accepted(Own(ExtractSubHalIndex(h)), ExtractSubHalIndex(h))
  BY HandlesHaveOwners DEF IsSubHalIndexValid
<1>2. ClearSubHalIndex(h) \in Int
  BY <1>1 DEF ClearSubHalIndex, HandleSpan
<1>3. forwarded' = [handle |-> h, subHal |-> ExtractSubHalIndex(h), local |-> ClearSubHalIndex(h)]
  BY <1>1 DEF Forward, IsSubHalIndexValid
<1>4. forwarded'.handle = h /\ forwarded'.subHal = ExtractSubHalIndex(h) /\ forwarded'.local = ClearSubHalIndex(h)
  BY <1>3
<1> QED BY <1>1, <1>2, <1>3, <1>4 DEF ReachesItsOwner, Own

-----------------------------------------------------------------------------
(* Steps. Each lemma first says what the step changes, then goes through   *)
(* the conjuncts of the invariant.                                         *)

LEMMA NoCallReaches ==
  ASSUME forwarded' = NoCall
  PROVE  forwarded' \in [handle: Int, subHal: SubHals \union {NoSubHal}, local: Int] /\ ReachesItsOwner'
BY DEF NoCall, ReachesItsOwner

LEMMA InitHolds == ConfigAssumption /\ SubHalAssumption /\ Init => ConfigInv
<1> SUFFICES ASSUME ConfigAssumption, SubHalAssumption, Init PROVE ConfigInv
  OBVIOUS
<1> USE DEF Init
<1>1. binder.call = "idle" /\ BinderType
  BY SubHalsAreNumbers DEF ConfigAssumption, Idle, BinderType
<1>2. overlapped \in BOOLEAN /\ initialized \in BOOLEAN
  BY Zenon
<1>3. \A i \in SubHals : notifier[i] = Silent /\ notifier[i].event = "none"
  BY DEF Silent
<1>4. StateTypes
  BY <1>2 DEF StateTypes, ConfigAssumption, Notices, NoCall
<1>5. ModesFollow /\ ActiveFollow
  BY <1>1 DEF ModesFollow, ActiveFollow
<1>6. NoticesFollow /\ KnowsDynamicSensors /\ ReachesItsOwner
  BY <1>3 DEF NoticesFollow, KnowsDynamicSensors, ReachesItsOwner
<1> QED BY <1>1, <1>4, <1>5, <1>6 DEF ConfigInv

(* HalProxy::activate: an active dynamic sensor is attached, so in the map. *)
LEMMA ActivateKeeps ==
  ASSUME ConfigAssumption, SubHalAssumption, ConfigInv,
         NEW handle \in mSensors \union DynamicHandles, NEW enable \in BOOLEAN, Activate(handle, enable)
  PROVE  ConfigInv'
<1>1. /\ binder = Idle
      /\ initialized
      /\ Forward(handle)
      /\ active' = IF ~enable THEN active \ {handle} ELSE active \union ({handle} \intersect (mSensors \union attached))
      /\ UNCHANGED <<mCurrentOperationMode, subHalMode, attached, notifier, mDynamicSensors, known, overlapped, initialized, started, binder>>
  BY DEF Activate, Serve, modeVars, dynamicVars, startVars
<1>2. binder.call = "idle"
  BY <1>1 DEF Idle
<1>3. StateTypes'
  BY <1>1, ForwardReaches DEF ConfigInv, StateTypes
<1>4. BinderType'
  BY <1>1, <1>2 DEF ConfigInv, BinderType
<1>5. ModesFollow'
  BY <1>1, <1>2 DEF ConfigInv, ModesFollow
<1>6. ActiveFollow'
  BY <1>1, <1>2 DEF ConfigInv, ActiveFollow
<1>7. NoticesFollow'
  BY <1>1, <1>2 DEF ConfigInv, NoticesFollow
<1>8. KnowsDynamicSensors'
  BY <1>1, <1>2 DEF ConfigInv, KnowsDynamicSensors
<1>9. ReachesItsOwner'
  BY <1>1, ForwardReaches
<1> QED BY <1>3, <1>4, <1>5, <1>6, <1>7, <1>8, <1>9 DEF ConfigInv

LEMMA InjectKeeps ==
  ASSUME ConfigAssumption, SubHalAssumption, ConfigInv,
         NEW handle \in mSensors, InjectSensorData(handle)
  PROVE  ConfigInv'
<1>1. /\ Forward(handle)
      /\ UNCHANGED <<mCurrentOperationMode, subHalMode, active, attached, notifier, mDynamicSensors, known, overlapped, initialized, started, binder>>
  BY DEF InjectSensorData, Serve, modeVars, dynamicVars, startVars
<1>3. StateTypes'
  BY <1>1, ForwardReaches DEF ConfigInv, StateTypes
<1>4. BinderType'
  BY <1>1 DEF ConfigInv, BinderType
<1>5. ModesFollow'
  BY <1>1 DEF ConfigInv, ModesFollow
<1>6. ActiveFollow'
  BY <1>1 DEF ConfigInv, ActiveFollow
<1>7. NoticesFollow'
  BY <1>1 DEF ConfigInv, NoticesFollow
<1>8. KnowsDynamicSensors'
  BY <1>1 DEF ConfigInv, KnowsDynamicSensors
<1>9. ReachesItsOwner'
  BY <1>1, ForwardReaches
<1> QED BY <1>3, <1>4, <1>5, <1>6, <1>7, <1>8, <1>9 DEF ConfigInv

(* configDirectReport: the only sub-HAL with direct channels is the owner. *)
LEMMA ConfigDirectReportKeeps ==
  ASSUME ConfigAssumption, SubHalAssumption, ConfigInv,
         NEW handle \in mSensors, ConfigDirectReport(handle)
  PROVE  ConfigInv'
<1>1. /\ handle \in DirectSensors
      /\ forwarded' = [handle |-> handle, subHal |-> mDirectChannelSubHal, local |-> ClearSubHalIndex(handle)]
      /\ UNCHANGED <<mCurrentOperationMode, subHalMode, active, attached, notifier, mDynamicSensors, known, overlapped, initialized, started, binder>>
  BY DEF ConfigDirectReport, Serve, modeVars, dynamicVars, startVars
<1>10. PICK i \in SubHals : i = mDirectChannelSubHal /\ handle \in Accepted(DirectHandles(i), i)
  BY <1>1 DEF DirectSensors, KeepsDirectFlags
<1>11. DirectHandles(i) \in SUBSET Own(i)
  BY OwnHandles DEF Own
<1>12. handle \in Nat /\ ClearSubHalIndex(handle) \in DirectHandles(i) /\ handle \in Accepted(Own(i), i)
  BY <1>10, <1>11, AcceptedHandle
<1>13. forwarded'.handle = handle /\ forwarded'.subHal = i /\ forwarded'.local = ClearSubHalIndex(handle)
  BY <1>1, <1>10
<1>14. ClearSubHalIndex(handle) \in Nat
  BY <1>12, OwnHandles, <1>11
<1>3. StateTypes'
  BY <1>1, <1>10, <1>12, <1>14 DEF ConfigInv, StateTypes
<1>4. BinderType'
  BY <1>1 DEF ConfigInv, BinderType
<1>5. ModesFollow'
  BY <1>1 DEF ConfigInv, ModesFollow
<1>6. ActiveFollow'
  BY <1>1 DEF ConfigInv, ActiveFollow
<1>7. NoticesFollow'
  BY <1>1 DEF ConfigInv, NoticesFollow
<1>8. KnowsDynamicSensors'
  BY <1>1 DEF ConfigInv, KnowsDynamicSensors
<1>9. ReachesItsOwner'
  BY <1>11, <1>12, <1>13 DEF ReachesItsOwner, Own
<1> QED BY <1>3, <1>4, <1>5, <1>6, <1>7, <1>8, <1>9 DEF ConfigInv

LEMMA SetOperationModeKeeps ==
  ASSUME ConfigAssumption, SubHalAssumption, ConfigInv,
         NEW mode \in Modes, SetOperationMode(mode)
  PROVE  ConfigInv'
<1>1. /\ binder = Idle
      /\ initialized
      /\ binder' = [call |-> "flip", mode |-> mode, next |-> 0, todo |-> {}]
      /\ forwarded' = NoCall
      /\ UNCHANGED <<mCurrentOperationMode, subHalMode, active, attached, notifier, mDynamicSensors, known, overlapped, initialized, started>>
  BY DEF SetOperationMode, Serve, modeVars, dynamicVars, startVars
<1>2. binder'.call = "flip" /\ binder'.mode = mode /\ binder'.next = 0 /\ binder'.todo = {} /\ binder.call = "idle"
  BY <1>1 DEF Idle
<1>3. StateTypes'
  BY <1>1, NoCallReaches DEF ConfigInv, StateTypes
<1>4. BinderType'
  BY <1>1, SubHalsAreNumbers DEF BinderType
<1>5. ModesFollow'
  BY <1>1, <1>2, SubHalsAreNumbers DEF ConfigInv, ModesFollow
<1>6. ActiveFollow'
  BY <1>1, <1>2 DEF ConfigInv, ActiveFollow
<1>7. NoticesFollow'
  BY <1>1, <1>2 DEF ConfigInv, NoticesFollow
<1>8. KnowsDynamicSensors'
  BY <1>1, <1>2 DEF ConfigInv, KnowsDynamicSensors
<1>9. ReachesItsOwner'
  BY <1>1, NoCallReaches
<1> QED BY <1>3, <1>4, <1>5, <1>6, <1>7, <1>8, <1>9 DEF ConfigInv

LEMMA FlipKeeps ==
  ASSUME ConfigAssumption, SubHalAssumption, ConfigInv,
         NEW i \in SubHals, Flip(i)
  PROVE  ConfigInv'
<1>1. /\ binder.call = "flip"
      /\ binder.next = i
      /\ subHalMode' = [subHalMode EXCEPT ![i] = binder.mode]
      /\ binder' = [call |-> "flip", mode |-> binder.mode, next |-> i + 1, todo |-> {}]
      /\ UNCHANGED <<mCurrentOperationMode, active, attached, notifier, mDynamicSensors, known, overlapped, initialized, started, forwarded>>
  BY DEF Flip, Serve, modeVars, dynamicVars, startVars
<1>2. binder'.call = "flip" /\ binder'.mode = binder.mode /\ binder'.next = i + 1 /\ binder'.todo = {} /\ i \in Nat /\ binder.mode \in Modes
  BY <1>1, SubHalsAreNumbers DEF ConfigInv, BinderType
<1>3. StateTypes'
  BY <1>1, <1>2 DEF ConfigInv, StateTypes
<1>4. BinderType'
  BY <1>1, <1>2, SubHalsAreNumbers DEF BinderType
<1>5. ModesFollow'
  <2>1. /\ subHalMode'[i] = binder.mode
        /\ \A j \in SubHals : j # i => subHalMode'[j] = subHalMode[j]
    BY <1>1 DEF ConfigInv, StateTypes
  <2>2. \A j \in SubHals : (j < i + 1 => j = i \/ j < i) /\ (j >= i + 1 => j # i /\ j >= i)
    BY SubHalsAreNumbers
  <2> QED BY <1>1, <1>2, <2>1, <2>2 DEF ConfigInv, ModesFollow
<1>6. ActiveFollow'
  BY <1>1, <1>2 DEF ConfigInv, ActiveFollow
<1>7. NoticesFollow'
  BY <1>1, <1>2 DEF ConfigInv, NoticesFollow
<1>8. KnowsDynamicSensors'
  BY <1>1, <1>2 DEF ConfigInv, KnowsDynamicSensors
<1>9. ReachesItsOwner'
  BY <1>1, <1>2 DEF ConfigInv, ReachesItsOwner
<1> QED BY <1>3, <1>4, <1>5, <1>6, <1>7, <1>8, <1>9 DEF ConfigInv

LEMMA FlippedAllKeeps ==
  ASSUME ConfigAssumption, SubHalAssumption, ConfigInv,
         FlippedAll
  PROVE  ConfigInv'
<1>1. /\ binder.call = "flip"
      /\ binder.next \notin SubHals
      /\ mCurrentOperationMode' = binder.mode
      /\ binder' = Idle
      /\ UNCHANGED <<subHalMode, active, attached, notifier, mDynamicSensors, known, overlapped, initialized, started, forwarded>>
  BY DEF FlippedAll, Serve, modeVars, dynamicVars, startVars
<1>2. binder'.call = "idle" /\ binder'.todo = {} /\ binder.mode \in Modes /\ binder.next = Len(mSubHalList)
  BY <1>1, SubHalsAreNumbers DEF Idle, ConfigInv, BinderType
<1>3. StateTypes'
  BY <1>1, <1>2 DEF ConfigInv, StateTypes
<1>4. BinderType'
  BY <1>1, SubHalsAreNumbers DEF Idle, BinderType, ConfigAssumption
<1>5. ModesFollow'
  BY <1>1, <1>2, SubHalsAreNumbers DEF ConfigInv, ModesFollow, StateTypes
<1>6. ActiveFollow'
  BY <1>1, <1>2 DEF ConfigInv, ActiveFollow
<1>7. NoticesFollow'
  BY <1>1, <1>2 DEF ConfigInv, NoticesFollow
<1>8. KnowsDynamicSensors'
  BY <1>1, <1>2 DEF ConfigInv, KnowsDynamicSensors
<1>9. ReachesItsOwner'
  BY <1>1, <1>2 DEF ConfigInv, ReachesItsOwner
<1> QED BY <1>3, <1>4, <1>5, <1>6, <1>7, <1>8, <1>9 DEF ConfigInv

LEMMA RefuseKeeps ==
  ASSUME ConfigAssumption, SubHalAssumption, ConfigInv,
         NEW i \in SubHals, Refuse(i)
  PROVE  ConfigInv'
<1>1. /\ binder.call = "flip"
      /\ binder.next = i
      /\ binder' = [call |-> "rollBack", mode |-> binder.mode, next |-> i, todo |-> 0..i - 1]
      /\ UNCHANGED <<mCurrentOperationMode, subHalMode, active, attached, notifier, mDynamicSensors, known, overlapped, initialized, started, forwarded>>
  BY DEF Refuse, Serve, modeVars, dynamicVars, startVars, Flipped
<1>2. binder'.call = "rollBack" /\ binder'.mode = binder.mode /\ binder'.next = i /\ binder'.todo = 0..i - 1 /\ binder.mode \in Modes /\ i \in Nat /\ 0..i - 1 \subseteq SubHals
  BY <1>1, SubHalsAreNumbers DEF ConfigInv, BinderType, SubHals
<1>3. StateTypes'
  BY <1>1, <1>2 DEF ConfigInv, StateTypes
<1>4. BinderType'
  BY <1>1, <1>2, SubHalsAreNumbers DEF BinderType
<1>5. ModesFollow'
  BY <1>1, <1>2, SubHalsAreNumbers DEF ConfigInv, ModesFollow
<1>6. ActiveFollow'
  BY <1>1, <1>2 DEF ConfigInv, ActiveFollow
<1>7. NoticesFollow'
  BY <1>1, <1>2 DEF ConfigInv, NoticesFollow
<1>8. KnowsDynamicSensors'
  BY <1>1, <1>2 DEF ConfigInv, KnowsDynamicSensors
<1>9. ReachesItsOwner'
  BY <1>1, <1>2 DEF ConfigInv, ReachesItsOwner
<1> QED BY <1>3, <1>4, <1>5, <1>6, <1>7, <1>8, <1>9 DEF ConfigInv

LEMMA RollBackKeeps ==
  ASSUME ConfigAssumption, SubHalAssumption, ConfigInv,
         NEW i \in SubHals, RollBack(i)
  PROVE  ConfigInv'
<1>1. /\ binder.call = "rollBack"
      /\ subHalMode' = [subHalMode EXCEPT ![i] = mCurrentOperationMode]
      /\ binder' = [call |-> "rollBack", mode |-> binder.mode, next |-> binder.next, todo |-> binder.todo \ {i}]
      /\ UNCHANGED <<mCurrentOperationMode, active, attached, notifier, mDynamicSensors, known, overlapped, initialized, started, forwarded>>
  BY DEF RollBack, Serve, modeVars, dynamicVars, startVars
<1>2. binder'.call = "rollBack" /\ binder'.mode = binder.mode /\ binder'.next = binder.next /\ binder'.todo = binder.todo \ {i}
  BY <1>1 DEF Idle
<1>3. StateTypes'
  BY <1>1, <1>2 DEF ConfigInv, StateTypes
<1>4. BinderType'
  BY <1>1 DEF ConfigInv, BinderType
<1>5. ModesFollow'
  BY <1>1, <1>2 DEF ConfigInv, ModesFollow, StateTypes
<1>6. ActiveFollow'
  BY <1>1, <1>2 DEF ConfigInv, ActiveFollow
<1>7. NoticesFollow'
  BY <1>1, <1>2 DEF ConfigInv, NoticesFollow
<1>8. KnowsDynamicSensors'
  BY <1>1, <1>2 DEF ConfigInv, KnowsDynamicSensors
<1>9. ReachesItsOwner'
  BY <1>1, <1>2 DEF ConfigInv, ReachesItsOwner
<1> QED BY <1>3, <1>4, <1>5, <1>6, <1>7, <1>8, <1>9 DEF ConfigInv

LEMMA RolledBackKeeps ==
  ASSUME ConfigAssumption, SubHalAssumption, ConfigInv,
         RolledBack
  PROVE  ConfigInv'
<1>1. /\ binder.call = "rollBack"
      /\ binder.todo = {}
      /\ binder' = Idle
      /\ UNCHANGED <<mCurrentOperationMode, subHalMode, active, attached, notifier, mDynamicSensors, known, overlapped, initialized, started, forwarded>>
  BY DEF RolledBack, Serve, modeVars, dynamicVars, startVars
<1>2. binder'.call = "idle" /\ binder'.todo = {}
  BY <1>1 DEF Idle
<1>3. StateTypes'
  BY <1>1, <1>2 DEF ConfigInv, StateTypes
<1>4. BinderType'
  BY <1>1, SubHalsAreNumbers DEF Idle, BinderType, ConfigAssumption
<1>5. ModesFollow'
  BY <1>1, <1>2 DEF ConfigInv, ModesFollow
<1>6. ActiveFollow'
  BY <1>1, <1>2 DEF ConfigInv, ActiveFollow
<1>7. NoticesFollow'
  BY <1>1, <1>2 DEF ConfigInv, NoticesFollow
<1>8. KnowsDynamicSensors'
  BY <1>1, <1>2 DEF ConfigInv, KnowsDynamicSensors
<1>9. ReachesItsOwner'
  BY <1>1, <1>2 DEF ConfigInv, ReachesItsOwner
<1> QED BY <1>3, <1>4, <1>5, <1>6, <1>7, <1>8, <1>9 DEF ConfigInv

(* onDynamicSensorsConnected                                               *)
LEMMA ConnectKeeps ==
  ASSUME ConfigAssumption, SubHalAssumption, ConfigInv,
         NEW i \in SubHals, NEW handle \in DynamicHandles, Connect(i, handle)
  PROVE  ConfigInv'
<1>1. /\ notifier[i] = Silent
      /\ handle \in Accepted(SubHal(i).dynamic, i)
      /\ binder.call # "disableDynamic"
      /\ attached' = attached \union {handle}
      /\ mDynamicSensors' = mDynamicSensors \union {handle}
      /\ notifier' = [notifier EXCEPT ![i] = [event |-> "connected", handle |-> handle]]
      /\ UNCHANGED <<mCurrentOperationMode, subHalMode, active, known, overlapped, initialized, started, forwarded, binder>>
  BY DEF Connect, Serve, modeVars, dynamicVars, startVars, DynamicSensorsMutexFree, AfterConnect
<1>10. /\ ExtractSubHalIndex(handle) = i
       /\ notifier'[i].event = "connected" /\ notifier'[i].handle = handle
       /\ \A j \in SubHals : j # i => notifier'[j] = notifier[j]
  BY <1>1, DynamicOfSubHal DEF ConfigInv, StateTypes
<1>11. notifier[i].handle \notin DynamicHandles
  BY <1>1, HandlesHaveOwners DEF Silent
<1>3. StateTypes'
  BY <1>1 DEF ConfigInv, StateTypes, Notices
<1>4. BinderType'
  BY <1>1 DEF ConfigInv, BinderType
<1>5. ModesFollow'
  BY <1>1 DEF ConfigInv, ModesFollow
<1>6. ActiveFollow'
  BY <1>1 DEF ConfigInv, ActiveFollow
<1>7. NoticesFollow'
  BY <1>1, <1>10 DEF ConfigInv, NoticesFollow
<1>8. KnowsDynamicSensors'
  <2> SUFFICES ASSUME ~overlapped, NEW j \in SubHals, NEW h \in DynamicHandles, ExtractSubHalIndex(h) = j,
                      notifier'[j].handle # h
               PROVE  h \in known <=> h \in mDynamicSensors'
    BY <1>1 DEF KnowsDynamicSensors
  <2>1. CASE j # i
    BY <1>1, <1>10, <2>1 DEF ConfigInv, KnowsDynamicSensors
  <2>2. CASE j = i
    BY <1>1, <1>10, <1>11, <2>2 DEF ConfigInv, KnowsDynamicSensors
  <2> QED BY <2>1, <2>2
<1>9. ReachesItsOwner'
  BY <1>1 DEF ConfigInv, ReachesItsOwner
<1> QED BY <1>3, <1>4, <1>5, <1>6, <1>7, <1>8, <1>9 DEF ConfigInv

(* onDynamicSensorsDisconnected                                            *)
LEMMA DisconnectKeeps ==
  ASSUME ConfigAssumption, SubHalAssumption, ConfigInv,
         NEW i \in SubHals, NEW handle \in DynamicHandles, Disconnect(i, handle)
  PROVE  ConfigInv'
<1>1. /\ notifier[i] = Silent
      /\ handle \in Accepted(SubHal(i).dynamic, i)
      /\ binder.call # "disableDynamic"
      /\ attached' = attached \ {handle}
      /\ active' = active \ {handle}
      /\ mDynamicSensors' = mDynamicSensors \ {handle}
      /\ notifier' = [notifier EXCEPT ![i] =
           IF handle \in mDynamicSensors THEN [event |-> "disconnected", handle |-> handle] ELSE Silent]
      /\ UNCHANGED <<mCurrentOperationMode, subHalMode, known, overlapped, initialized, started, forwarded, binder>>
  BY DEF Disconnect, Serve, modeVars, dynamicVars, startVars, DynamicSensorsMutexFree, AfterDisconnect
<1>10. /\ ExtractSubHalIndex(handle) = i
       /\ handle \in mDynamicSensors => notifier'[i].event = "disconnected" /\ notifier'[i].handle = handle
       /\ handle \notin mDynamicSensors => notifier'[i] = Silent
       /\ \A j \in SubHals : j # i => notifier'[j] = notifier[j]
  BY <1>1, DynamicOfSubHal DEF ConfigInv, StateTypes
<1>11. Silent.event = "none" /\ Silent.handle = -1 /\ -1 \notin DynamicHandles
  BY HandlesHaveOwners DEF Silent
<1>3. StateTypes'
  BY <1>1 DEF ConfigInv, StateTypes, Notices
<1>4. BinderType'
  BY <1>1 DEF ConfigInv, BinderType
<1>5. ModesFollow'
  BY <1>1 DEF ConfigInv, ModesFollow
<1>6. ActiveFollow'
  BY <1>1 DEF ConfigInv, ActiveFollow
<1>7. NoticesFollow'
  BY <1>1, <1>10, <1>11 DEF ConfigInv, NoticesFollow
<1>8. KnowsDynamicSensors'
  BY <1>1, <1>10, <1>11 DEF ConfigInv, KnowsDynamicSensors
<1>9. ReachesItsOwner'
  BY <1>1 DEF ConfigInv, ReachesItsOwner
<1> QED BY <1>3, <1>4, <1>5, <1>6, <1>7, <1>8, <1>9 DEF ConfigInv

(* The report reaches the framework after mDynamicSensorsMutex is left.    *)
LEMMA TellFrameworkKeeps ==
  ASSUME ConfigAssumption, SubHalAssumption, ConfigInv,
         NEW i \in SubHals, TellFramework(i)
  PROVE  ConfigInv'
<1>1. /\ notifier[i] # Silent
      /\ known' = IF notifier[i].event = "connected" THEN known \union {notifier[i].handle} ELSE known \ {notifier[i].handle}
      /\ notifier' = [notifier EXCEPT ![i] = Silent]
      /\ UNCHANGED <<mCurrentOperationMode, subHalMode, active, attached, mDynamicSensors, overlapped, initialized, started, forwarded, binder>>
  BY DEF TellFramework, Serve, modeVars, dynamicVars, startVars
<1>10. /\ notifier'[i] = Silent
       /\ \A j \in SubHals : j # i => notifier'[j] = notifier[j]
       /\ notifier[i].event \in {"connected", "disconnected"} /\ notifier[i].handle \in DynamicHandles
       /\ ExtractSubHalIndex(notifier[i].handle) = i
  BY <1>1 DEF ConfigInv, StateTypes, Notices, NoticesFollow
<1>11. Silent.event = "none" /\ Silent.handle = -1 /\ -1 \notin DynamicHandles
  BY HandlesHaveOwners DEF Silent
<1>3. StateTypes'
  BY <1>1, <1>10 DEF ConfigInv, StateTypes, Notices
<1>4. BinderType'
  BY <1>1 DEF ConfigInv, BinderType
<1>5. ModesFollow'
  BY <1>1 DEF ConfigInv, ModesFollow
<1>6. ActiveFollow'
  BY <1>1 DEF ConfigInv, ActiveFollow
<1>7. NoticesFollow'
  BY <1>1, <1>10, <1>11 DEF ConfigInv, NoticesFollow
<1>8. KnowsDynamicSensors'
  <2> SUFFICES ASSUME ~overlapped, NEW j \in SubHals, NEW h \in DynamicHandles, ExtractSubHalIndex(h) = j,
                      notifier'[j].handle # h
               PROVE  h \in known' <=> h \in mDynamicSensors
    BY <1>1 DEF KnowsDynamicSensors
  <2>1. CASE j # i
    BY <1>1, <1>10, <2>1 DEF ConfigInv, KnowsDynamicSensors
  <2>2. CASE j = i /\ h # notifier[i].handle
    BY <1>1, <2>2 DEF ConfigInv, KnowsDynamicSensors
  <2>3. CASE j = i /\ h = notifier[i].handle
    BY <1>1, <1>10, <2>3 DEF ConfigInv, NoticesFollow
  <2> QED BY <2>1, <2>2, <2>3
<1>9. ReachesItsOwner'
  BY <1>1 DEF ConfigInv, ReachesItsOwner
<1> QED BY <1>3, <1>4, <1>5, <1>6, <1>7, <1>8, <1>9 DEF ConfigInv

(* initialize()                                                            *)
LEMMA InitializeCommonKeeps ==
  ASSUME ConfigAssumption, SubHalAssumption, ConfigInv,
         InitializeCommon
  PROVE  ConfigInv'
<1>1. /\ binder = Idle
      /\ initialized' = FALSE
      /\ binder' = [call |-> "disable", mode |-> NORMAL, next |-> 0, todo |-> mSensors]
      /\ forwarded' = NoCall
      /\ UNCHANGED <<mCurrentOperationMode, subHalMode, active, attached, notifier, mDynamicSensors, known, overlapped, started>>
  BY DEF InitializeCommon, Serve, modeVars, dynamicVars, startVars
<1>2. binder'.call = "disable" /\ binder'.mode = NORMAL /\ binder'.next = 0 /\ binder'.todo = mSensors /\ binder.call = "idle"
  BY <1>1 DEF Idle
<1>10. initialized' \in BOOLEAN /\ ~initialized'
  BY <1>1, Zenon
<1>3. StateTypes'
  BY <1>1, <1>10, NoCallReaches DEF ConfigInv, StateTypes
<1>4. BinderType'
  BY <1>1, SubHalsAreNumbers DEF BinderType, ConfigAssumption
<1>5. ModesFollow'
  BY <1>1, <1>2, <1>10 DEF ModesFollow
<1>6. ActiveFollow'
  BY <1>1, <1>2, <1>10 DEF ConfigInv, ActiveFollow
<1>7. NoticesFollow'
  BY <1>1, <1>2 DEF ConfigInv, NoticesFollow
<1>8. KnowsDynamicSensors'
  BY <1>1, <1>2 DEF ConfigInv, KnowsDynamicSensors
<1>9. ReachesItsOwner'
  BY <1>1, NoCallReaches
<1> QED BY <1>3, <1>4, <1>5, <1>6, <1>7, <1>8, <1>9 DEF ConfigInv

(* Every handle in the proxy's maps has a sub-HAL.                         *)
LEMMA DisableNextKeeps ==
  ASSUME ConfigAssumption, SubHalAssumption, ConfigInv,
         NEW handle \in mSensors \union DynamicHandles, DisableNext(handle)
  PROVE  ConfigInv'
<1>1. /\ binder.call \in {"disable", "disableDynamic"}
      /\ active' = active \ {handle}
      /\ binder' = [call |-> binder.call, mode |-> NORMAL, next |-> 0, todo |-> binder.todo \ {handle}]
      /\ UNCHANGED <<mCurrentOperationMode, subHalMode, attached, notifier, mDynamicSensors, known, overlapped, initialized, started, forwarded>>
  BY HandlesHaveOwners DEF DisableNext, Serve, modeVars, dynamicVars, startVars
<1>2. binder'.call = binder.call /\ binder'.mode = NORMAL /\ binder'.next = 0 /\ binder'.todo = binder.todo \ {handle}
  BY <1>1 DEF Idle
<1>3. StateTypes'
  BY <1>1, <1>2 DEF ConfigInv, StateTypes
<1>4. BinderType'
  BY <1>1, SubHalsAreNumbers DEF ConfigInv, BinderType, ConfigAssumption
<1>5. ModesFollow'
  BY <1>1, <1>2 DEF ConfigInv, ModesFollow
<1>6. ActiveFollow'
  BY <1>1, <1>2 DEF ConfigInv, ActiveFollow
<1>7. NoticesFollow'
  BY <1>1, <1>2 DEF ConfigInv, NoticesFollow
<1>8. KnowsDynamicSensors'
  BY <1>1, <1>2 DEF ConfigInv, KnowsDynamicSensors
<1>9. ReachesItsOwner'
  BY <1>1, <1>2 DEF ConfigInv, ReachesItsOwner
<1> QED BY <1>3, <1>4, <1>5, <1>6, <1>7, <1>8, <1>9 DEF ConfigInv

LEMMA DisableDynamicKeeps ==
  ASSUME ConfigAssumption, SubHalAssumption, ConfigInv,
         DisableDynamic
  PROVE  ConfigInv'
<1>1. /\ binder.call = "disable"
      /\ binder.todo = {}
      /\ binder' = [call |-> "disableDynamic", mode |-> NORMAL, next |-> 0, todo |-> mDynamicSensors]
      /\ UNCHANGED <<mCurrentOperationMode, subHalMode, active, attached, notifier, mDynamicSensors, known, overlapped, initialized, started, forwarded>>
  BY DEF DisableDynamic, Serve, modeVars, dynamicVars, startVars, DynamicToDisable
<1>2. binder'.call = "disableDynamic" /\ binder'.mode = NORMAL /\ binder'.next = 0 /\ binder'.todo = mDynamicSensors
  BY <1>1 DEF Idle
<1>3. StateTypes'
  BY <1>1, <1>2 DEF ConfigInv, StateTypes
<1>4. BinderType'
  BY <1>1, SubHalsAreNumbers DEF ConfigInv, BinderType, StateTypes, ConfigAssumption
<1>5. ModesFollow'
  BY <1>1, <1>2 DEF ConfigInv, ModesFollow
<1>6. ActiveFollow'
  BY <1>1, <1>2 DEF ConfigInv, ActiveFollow
<1>7. NoticesFollow'
  BY <1>1, <1>2 DEF ConfigInv, NoticesFollow
<1>8. KnowsDynamicSensors'
  BY <1>1, <1>2 DEF ConfigInv, KnowsDynamicSensors
<1>9. ReachesItsOwner'
  BY <1>1, <1>2 DEF ConfigInv, ReachesItsOwner
<1> QED BY <1>3, <1>4, <1>5, <1>6, <1>7, <1>8, <1>9 DEF ConfigInv

LEMMA DisabledAllKeeps ==
  ASSUME ConfigAssumption, SubHalAssumption, ConfigInv,
         DisabledAll
  PROVE  ConfigInv'
<1>1. /\ binder.call = "disableDynamic"
      /\ binder.todo = {}
      /\ binder' = [call |-> "clear", mode |-> NORMAL, next |-> 0, todo |-> {}]
      /\ UNCHANGED <<mCurrentOperationMode, subHalMode, active, attached, notifier, mDynamicSensors, known, overlapped, initialized, started, forwarded>>
  BY DEF DisabledAll, Serve, modeVars, dynamicVars, startVars
<1>2. binder'.call = "clear" /\ binder'.mode = NORMAL /\ binder'.next = 0 /\ binder'.todo = {}
  BY <1>1 DEF Idle
<1>3. StateTypes'
  BY <1>1, <1>2 DEF ConfigInv, StateTypes
<1>4. BinderType'
  BY <1>1, SubHalsAreNumbers DEF BinderType, ConfigAssumption
<1>5. ModesFollow'
  BY <1>1, <1>2 DEF ConfigInv, ModesFollow
<1>6. ActiveFollow'
  BY <1>1, <1>2 DEF ConfigInv, ActiveFollow
<1>7. NoticesFollow'
  BY <1>1, <1>2 DEF ConfigInv, NoticesFollow
<1>8. KnowsDynamicSensors'
  BY <1>1, <1>2 DEF ConfigInv, KnowsDynamicSensors
<1>9. ReachesItsOwner'
  BY <1>1, <1>2 DEF ConfigInv, ReachesItsOwner
<1> QED BY <1>3, <1>4, <1>5, <1>6, <1>7, <1>8, <1>9 DEF ConfigInv

(* The map is cleared without the mutex.                                   *)
LEMMA ClearDynamicSensorsKeeps ==
  ASSUME ConfigAssumption, SubHalAssumption, ConfigInv,
         ClearDynamicSensors
  PROVE  ConfigInv'
<1>1. /\ binder.call = "clear"
      /\ mDynamicSensors' = {}
      /\ known' = {}
      /\ binder' = [call |-> "start", mode |-> NORMAL, next |-> 0, todo |-> {}]
      /\ UNCHANGED <<mCurrentOperationMode, subHalMode, active, attached, notifier, initialized, started, forwarded>>
  BY DEF ClearDynamicSensors, Serve, modeVars, dynamicVars, startVars
<1>2. binder'.call = "start" /\ binder'.mode = NORMAL /\ binder'.next = 0 /\ binder'.todo = {}
  BY <1>1 DEF Idle
<1>10. overlapped' \in BOOLEAN /\ (overlapped' <=> \E i \in SubHals : notifier[i].event = "connected")
  BY Zenon DEF ClearDynamicSensors
<1>11. ~initialized
  BY <1>1 DEF ConfigInv, ModesFollow
<1>12. \A h \in attached : ExtractSubHalIndex(h) \in SubHals /\ ~(ExtractSubHalIndex(h) < 0)
  <2>1. \A h \in attached : ExtractSubHalIndex(h) \in SubHals
    BY HandlesHaveOwners DEF ConfigInv, StateTypes, IsSubHalIndexValid
  <2> QED BY <2>1, SubHalsAreNumbers
<1>3. StateTypes'
  BY <1>1, <1>10 DEF ConfigInv, StateTypes
<1>4. BinderType'
  BY <1>1, SubHalsAreNumbers DEF BinderType, ConfigAssumption
<1>5. ModesFollow'
  BY <1>1, <1>2, <1>11, SubHalsAreNumbers DEF ModesFollow
<1>6. ActiveFollow'
  BY <1>1, <1>2, <1>11, <1>12 DEF ConfigInv, ActiveFollow
<1>7. NoticesFollow'
  BY <1>1, <1>10 DEF ConfigInv, NoticesFollow
<1>8. KnowsDynamicSensors'
  BY <1>1 DEF KnowsDynamicSensors
<1>9. ReachesItsOwner'
  BY <1>1, <1>2 DEF ConfigInv, ReachesItsOwner
<1> QED BY <1>3, <1>4, <1>5, <1>6, <1>7, <1>8, <1>9 DEF ConfigInv

LEMMA StartSubHalKeeps ==
  ASSUME ConfigAssumption, SubHalAssumption, ConfigInv,
         NEW i \in SubHals, StartSubHal(i)
  PROVE  ConfigInv'
<1>1. /\ binder.call = "start"
      /\ binder.next = i
      /\ subHalMode' = [subHalMode EXCEPT ![i] = NORMAL]
      /\ active' = {h \in active : ExtractSubHalIndex(h) # i}
      /\ attached' = {h \in attached : ExtractSubHalIndex(h) # i}
      /\ started' = started \union {i}
      /\ binder' = [call |-> "start", mode |-> binder.mode, next |-> i + 1, todo |-> binder.todo]
      /\ UNCHANGED <<mCurrentOperationMode, notifier, mDynamicSensors, known, overlapped, initialized, forwarded>>
  BY DEF StartSubHal, Serve, modeVars, dynamicVars, startVars
<1>2. binder'.call = "start" /\ binder'.mode = binder.mode /\ binder'.next = i + 1 /\ binder'.todo = binder.todo /\ binder.mode \in Modes
  BY <1>1 DEF ConfigInv, BinderType
<1>10. ~initialized
  BY <1>1 DEF ConfigInv, ModesFollow
<1>11. \A h \in attached' : h \in attached /\ (ExtractSubHalIndex(h) < i + 1 => ExtractSubHalIndex(h) < i)
  <2>1. \A h \in attached : ExtractSubHalIndex(h) \in SubHals
    BY HandlesHaveOwners DEF ConfigInv, StateTypes, IsSubHalIndexValid
  <2> QED BY <1>1, <2>1, SubHalsAreNumbers
<1>3. StateTypes'
  BY <1>1 DEF ConfigInv, StateTypes, ConfigAssumption
<1>4. BinderType'
  BY <1>1, <1>2, SubHalsAreNumbers DEF ConfigInv, BinderType
<1>5. ModesFollow'
  <2>1. ~initialized'
    BY <1>1, <1>10
  <2>2. ASSUME binder.todo = {}, NEW k \in SubHals, k < i + 1 PROVE subHalMode'[k] = NORMAL
    <3>1. subHalMode \in [SubHals -> Modes]
      BY DEF ConfigInv, StateTypes
    <3>2. CASE k = i
      BY <1>1, <3>1, <3>2
    <3>3. CASE k # i
      <4>1. k < i
        BY <2>2, <3>3, SubHalsAreNumbers
      <4>2. subHalMode[k] = NORMAL
        BY <1>1, <2>2, <4>1 DEF ConfigInv, ModesFollow
      <4> QED BY <1>1, <3>1, <3>3, <4>2
    <3> QED BY <3>2, <3>3
  <2> QED BY <1>1, <1>2, <2>1, <2>2 DEF ModesFollow
<1>6. ActiveFollow'
  BY <1>1, <1>2, <1>10, <1>11 DEF ConfigInv, ActiveFollow
<1>7. NoticesFollow'
  BY <1>1, <1>2 DEF ConfigInv, NoticesFollow
<1>8. KnowsDynamicSensors'
  BY <1>1, <1>2 DEF ConfigInv, KnowsDynamicSensors
<1>9. ReachesItsOwner'
  BY <1>1, <1>2 DEF ConfigInv, ReachesItsOwner
<1> QED BY <1>3, <1>4, <1>5, <1>6, <1>7, <1>8, <1>9 DEF ConfigInv

LEMMA SubHalFailsKeeps ==
  ASSUME ConfigAssumption, SubHalAssumption, ConfigInv,
         NEW i \in SubHals, SubHalFails(i)
  PROVE  ConfigInv'
<1>1. /\ binder.call = "start"
      /\ binder.next = i
      /\ binder' = [call |-> "start", mode |-> binder.mode, next |-> i + 1, todo |-> {i}]
      /\ UNCHANGED <<mCurrentOperationMode, subHalMode, active, attached, notifier, mDynamicSensors, known, overlapped, initialized, started, forwarded>>
  BY DEF SubHalFails, Serve, modeVars, dynamicVars, startVars
<1>2. binder'.call = "start" /\ binder'.mode = binder.mode /\ binder'.next = i + 1 /\ binder'.todo = {i}
  BY <1>1 DEF Idle
<1>3. StateTypes'
  BY <1>1, <1>2 DEF ConfigInv, StateTypes
<1>4. BinderType'
  BY <1>1, <1>2, SubHalsAreNumbers DEF ConfigInv, BinderType
<1>5. ModesFollow'
  BY <1>1, <1>2 DEF ConfigInv, ModesFollow
<1>6. ActiveFollow'
  BY <1>1, <1>2 DEF ConfigInv, ActiveFollow
<1>7. NoticesFollow'
  BY <1>1, <1>2 DEF ConfigInv, NoticesFollow
<1>8. KnowsDynamicSensors'
  BY <1>1, <1>2 DEF ConfigInv, KnowsDynamicSensors
<1>9. ReachesItsOwner'
  BY <1>1, <1>2 DEF ConfigInv, ReachesItsOwner
<1> QED BY <1>3, <1>4, <1>5, <1>6, <1>7, <1>8, <1>9 DEF ConfigInv

LEMMA StartedAllKeeps ==
  ASSUME ConfigAssumption, SubHalAssumption, ConfigInv,
         StartedAll
  PROVE  ConfigInv'
<1>1. /\ binder.call = "start"
      /\ binder.next \notin SubHals
      /\ mCurrentOperationMode' = NORMAL
      /\ binder' = Idle
      /\ UNCHANGED <<subHalMode, active, attached, notifier, mDynamicSensors, known, overlapped, started, forwarded>>
  BY DEF StartedAll, Serve, modeVars, dynamicVars, startVars
<1>2. binder'.call = "idle" /\ binder'.todo = {} /\ binder.next = Len(mSubHalList)
  BY <1>1, SubHalsAreNumbers DEF Idle, ConfigInv, BinderType
<1>10. initialized' \in BOOLEAN /\ (initialized' <=> binder.todo = {})
  BY Zenon DEF StartedAll
<1>11. \A h \in attached : ExtractSubHalIndex(h) < binder.next
  <2>1. \A h \in attached : ExtractSubHalIndex(h) \in SubHals
    BY HandlesHaveOwners DEF ConfigInv, StateTypes, IsSubHalIndexValid
  <2> QED BY <1>2, <2>1, SubHalsAreNumbers
<1>3. StateTypes'
  BY <1>1, <1>10 DEF ConfigInv, StateTypes, ConfigAssumption
<1>4. BinderType'
  BY <1>1, SubHalsAreNumbers DEF Idle, BinderType, ConfigAssumption
<1>5. ModesFollow'
  BY <1>1, <1>2, <1>10, SubHalsAreNumbers DEF ConfigInv, ModesFollow
<1>6. ActiveFollow'
  BY <1>1, <1>2, <1>10, <1>11 DEF ConfigInv, ActiveFollow
<1>7. NoticesFollow'
  BY <1>1, <1>2 DEF ConfigInv, NoticesFollow
<1>8. KnowsDynamicSensors'
  BY <1>1, <1>2 DEF ConfigInv, KnowsDynamicSensors
<1>9. ReachesItsOwner'
  BY <1>1, <1>2 DEF ConfigInv, ReachesItsOwner
<1> QED BY <1>3, <1>4, <1>5, <1>6, <1>7, <1>8, <1>9 DEF ConfigInv

LEMMA NextKeeps == ASSUME ConfigAssumption, SubHalAssumption, ConfigInv, [Next]_vars PROVE ConfigInv'
<1>1. CASE \E handle \in mSensors \union DynamicHandles, enable \in BOOLEAN : Activate(handle, enable)
  BY <1>1, ActivateKeeps
<1>2. CASE \E handle \in mSensors : InjectSensorData(handle) \/ ConfigDirectReport(handle)
  BY <1>2, InjectKeeps, ConfigDirectReportKeeps
<1>3. CASE \E mode \in Modes : SetOperationMode(mode)
  BY <1>3, SetOperationModeKeeps
<1>4. CASE InitializeCommon
  BY <1>4, InitializeCommonKeeps
<1>5. CASE \E i \in SubHals, handle \in DynamicHandles : Connect(i, handle) \/ Disconnect(i, handle)
  BY <1>5, ConnectKeeps, DisconnectKeeps
<1>6. CASE \E i \in SubHals : TellFramework(i)
  BY <1>6, TellFrameworkKeeps
<1>7. CASE Continue
  BY <1>7, FlipKeeps, RefuseKeeps, RollBackKeeps, FlippedAllKeeps, RolledBackKeeps, DisableNextKeeps,
     DisableDynamicKeeps, DisabledAllKeeps, ClearDynamicSensorsKeeps, StartSubHalKeeps, SubHalFailsKeeps,
     StartedAllKeeps DEF Continue
<1>8. CASE UNCHANGED vars
  BY <1>8 DEF vars, modeVars, dynamicVars, startVars, ConfigInv, StateTypes, BinderType, ModesFollow, ActiveFollow,
     NoticesFollow, KnowsDynamicSensors, ReachesItsOwner
<1> QED BY <1>1, <1>2, <1>3, <1>4, <1>5, <1>6, <1>7, <1>8 DEF Next

THEOREM ConfigInvariant == Spec => []ConfigInv
BY ConfigAssumption, SubHalAssumption, InitHolds, NextKeeps, PTL DEF Spec

(* Type correctness of the proxy's configuration.                          *)
THEOREM ConfigTypeCorrect == Spec => []TypeOK
<1>1. ConfigInv => TypeOK
  BY DEF ConfigInv, StateTypes, BinderType, TypeOK
<1> QED BY <1>1, ConfigInvariant, PTL

(* A call on a sensor reaches the sub-HAL that has it, under its own       *)
(* handle, whatever sub-HALs are loaded (setSubHalIndex,                   *)
(* setDirectChannelFlags, configDirectReport).                             *)
THEOREM CallsReachTheirOwner == Spec => []ReachesItsOwner
<1>1. ConfigInv => ReachesItsOwner
  BY DEF ConfigInv
<1> QED BY <1>1, ConfigInvariant, PTL

(* Whichever sub-HAL refuses a mode, between calls all are in the mode of  *)
(* the proxy (setOperationMode).                                           *)
THEOREM ModesAgreeBetweenCalls == Spec => []ModesAgree
<1>1. ConfigInv => ModesAgree
  BY DEF ConfigInv, ModesFollow, ModesAgree, Idle
<1> QED BY <1>1, ConfigInvariant, PTL

(* Nothing is active when initialize() clears the queue and the map,       *)
(* whatever dynamic sensors come and go (disableAllSensors).               *)
THEOREM SilentWhenInitialized == Spec => []SilentWhenCleared
<1>1. ConfigInv => SilentWhenCleared
  BY DEF ConfigInv, ActiveFollow, SilentWhenCleared
<1> QED BY <1>1, ConfigInvariant, PTL

(* The framework knows the dynamic sensors of the map, unless initialize() *)
(* cleared it under the report of a connection                             *)
(* (onDynamicSensorsConnected, onDynamicSensorsDisconnected).              *)
THEOREM DynamicSensorsKnown == Spec => []KnowsDynamicSensors
<1>1. ConfigInv => KnowsDynamicSensors
  BY DEF ConfigInv
<1> QED BY <1>1, ConfigInvariant, PTL
=============================================================================
