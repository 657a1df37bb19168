------------------------ MODULE ImuArbitrationProofs ------------------------
(***************************************************************************)
(* The power switches of a chip, for any sensors, composites of any cores, *)
(* any periods and any assignment of cores to its halves.  While a call    *)
(* goes through its cores, those still to come (Pending) may disagree with *)
(* what the framework has enabled; all others follow it.  The second part  *)
(* of the module is about the chip's rate.                                 *)
(***************************************************************************)
EXTENDS ImuArbitration, SequenceTheorems, WellFoundedInduction, TLAPS

Todos == Seq(Cores) \ {<<>>}

Steps == {"enable", "power", "rate"}

Calls == {Idle} \union [op: {"activate"}, type: Types, enable: BOOLEAN, todo: Todos, step: Steps]
                \union [op: {"batch"}, type: Types, period: Nat, todo: Todos, step: {"enable"}]

StateTypes ==
  /\ enabledSensors \subseteq Types
  /\ mEnableState \in [Cores -> SUBSET Types]
  /\ mIsEnabled \in [Cores -> BOOLEAN]
  /\ imuIsEnabled \in [Indices -> BOOLEAN]
  /\ powerMode \in [Indices -> BOOLEAN]
  /\ contended \subseteq Indices
  /\ call \in Calls

(* A core has been switched on or off, and the half is not done yet.       *)
Switching == call.op = "activate" /\ call.step # "enable"

PowerDue(i) == call.op = "activate" /\ call.step = "power" /\ i = Half

(* The cores whose mEnableState an activation has yet to reach.            *)
Pending(t) ==
  IF call.op = "activate" /\ call.type = t
  THEN IF call.step = "enable" THEN ToSet(call.todo) ELSE ToSet(Tail(call.todo)) \ {Core}
  ELSE {}

(* activate() flips mIsEnabled before it goes through the cores.           *)
CallFollows ==
  call.op = "activate" => /\ call.enable <=> call.type \in enabledSensors
                          /\ ToSet(call.todo) \subseteq CoresOf(call.type)

(* mEnableState of the cores that are not pending follows the framework.   *)
CoresFollow ==
  \A c \in Cores, t \in Types :
    /\ t \in mEnableState[c] => c \in CoresOf(t)
    /\ c \notin Pending(t) => (t \in mEnableState[c] <=> t \in enabledSensors /\ c \in CoresOf(t))

(* A core is on when it is enabled for some type; a half that is on has a  *)
(* core that is; and the power switch follows the half's flag.             *)
HalvesFollow ==
  /\ \A c \in Cores : mIsEnabled[c] <=> mEnableState[c] # {}
  /\ \A i \in Indices :
       /\ imuIsEnabled[i] => \E c \in Cores : Index[c] = i /\ mIsEnabled[c]
       /\ ~PowerDue(i) => (powerMode[i] <=> imuIsEnabled[i])
       /\ PowerDue(i) => (mIsEnabled[Core] <=> imuIsEnabled[i])

(* Where no core has interfered with another, a core that is on has its    *)
(* half on.                                                                *)
Uncontended ==
  /\ \A c \in Cores : mIsEnabled[c] /\ Index[c] \notin contended => imuIsEnabled[Index[c]]
  /\ Switching /\ OthersEnabled # {} => Half \in contended

PowerInv == StateTypes /\ CallFollows /\ CoresFollow /\ HalvesFollow /\ Uncontended

LEMMA ToSetOfTail ==
  ASSUME NEW todo \in Todos
  PROVE  /\ Head(todo) \in Cores
         /\ ToSet(todo) = {Head(todo)} \union ToSet(Tail(todo))
         /\ Tail(todo) # <<>> => Tail(todo) \in Todos
         /\ Tail(todo) = <<>> => ToSet(todo) = {Head(todo)}
<1>1. /\ todo \in Seq(Cores) /\ Len(todo) \in Nat /\ Len(todo) > 0 /\ Head(todo) = todo[1] /\ Tail(todo) \in Seq(Cores)
      /\ Len(Tail(todo)) = Len(todo) - 1 /\ \A k \in 1..Len(todo) - 1 : Tail(todo)[k] = todo[k + 1]
  BY DEF Todos
<1>2. Head(todo) \in Cores
  BY <1>1
<1>3. \A x : x \in ToSet(todo) => x = Head(todo) \/ x \in ToSet(Tail(todo))
  <2> SUFFICES ASSUME NEW k \in 1..Len(todo), k # 1 PROVE todo[k] \in ToSet(Tail(todo))
    BY <1>1 DEF ToSet
  <2>1. k - 1 \in 1..Len(todo) - 1 /\ Tail(todo)[k - 1] = todo[k]
    BY <1>1
  <2>2. k - 1 \in DOMAIN Tail(todo)
    BY <1>1, <2>1
  <2> QED BY <2>1, <2>2 DEF ToSet
<1>4. \A x : x \in ToSet(Tail(todo)) => x \in ToSet(todo)
  <2> SUFFICES ASSUME NEW k \in DOMAIN Tail(todo) PROVE Tail(todo)[k] \in ToSet(todo)
    BY DEF ToSet
  <2>1. k \in 1..Len(todo) - 1
    BY <1>1
  <2>2. k + 1 \in DOMAIN todo /\ Tail(todo)[k] = todo[k + 1]
    BY <1>1, <2>1
  <2> QED BY <2>2 DEF ToSet
<1>5. Head(todo) \in ToSet(todo)
  <2>1. 1 \in DOMAIN todo
    BY <1>1
  <2> QED BY <1>1, <2>1 DEF ToSet
<1>6. Tail(todo) = <<>> => ToSet(Tail(todo)) = {}
  BY DEF ToSet
<1> QED BY <1>1, <1>2, <1>3, <1>4, <1>5, <1>6 DEF Todos

LEMMA InitHolds == ImuAssumption /\ Init => PowerInv
<1> SUFFICES ASSUME ImuAssumption, Init PROVE PowerInv
  OBVIOUS
<1>1. /\ enabledSensors = {} /\ mEnableState = [c \in Cores |-> {}] /\ mIsEnabled = [c \in Cores |-> FALSE]
      /\ imuIsEnabled = [i \in Indices |-> FALSE] /\ powerMode = [i \in Indices |-> FALSE]
      /\ call = Idle /\ contended = {}
  BY DEF Init
<1>2. call.op = "idle"
  BY <1>1 DEF Idle
<1>3. /\ mIsEnabled \in [Cores -> BOOLEAN] /\ imuIsEnabled \in [Indices -> BOOLEAN]
      /\ powerMode \in [Indices -> BOOLEAN]
  BY <1>1, Zenon
<1>4. StateTypes
  BY <1>1, <1>3 DEF StateTypes, Calls
<1>5. \A c \in Cores : Index[c] \in Indices /\ ~mIsEnabled[c] /\ mEnableState[c] = {}
  BY <1>1 DEF ImuAssumption
<1>6. \A i \in Indices : ~powerMode[i] /\ ~imuIsEnabled[i]
  BY <1>1
<1>7. CallFollows /\ CoresFollow /\ HalvesFollow /\ Uncontended
  BY <1>1, <1>2, <1>5, <1>6 DEF CallFollows, CoresFollow, HalvesFollow, Uncontended, Pending, PowerDue, Switching
<1> QED BY <1>4, <1>7 DEF PowerInv

(* Sensor::activate: all cores of the sensor are pending.                  *)
LEMMA ActivateKeeps ==
  ASSUME ImuAssumption, PowerInv, NEW t \in Types, NEW enable \in BOOLEAN, Activate(t, enable)
  PROVE  PowerInv'
<1>1. /\ call = Idle /\ enabledSensors' = IF enable THEN enabledSensors \union {t} ELSE enabledSensors \ {t}
      /\ call' = [op |-> "activate", type |-> t, enable |-> enable, todo |-> mDependencyList[t], step |-> "enable"]
      /\ UNCHANGED <<mEnableState, mIsEnabled, imuIsEnabled, powerMode, contended>>
  BY DEF Activate, coreVars, imuVars, chipVars
<1>2. mDependencyList[t] \in Todos
  BY DEF ImuAssumption, Todos
<1>3. /\ call.op = "idle" /\ call'.op = "activate" /\ call'.type = t /\ call'.todo = mDependencyList[t]
      /\ call'.enable = enable /\ call'.step = "enable"
  BY <1>1 DEF Idle
<1>4. StateTypes'
  <2>1. call' \in Calls
    BY <1>1, <1>2 DEF Calls, Steps
  <2>2. enabledSensors' \subseteq Types
    BY <1>1 DEF PowerInv, StateTypes
  <2> QED BY <1>1, <2>1, <2>2 DEF PowerInv, StateTypes
<1>5. CallFollows'
  BY <1>1, <1>3 DEF CallFollows, CoresOf
<1>6. CoresFollow'
  <2> SUFFICES ASSUME NEW c \in Cores, NEW u \in Types
               PROVE  /\ u \in mEnableState[c] => c \in CoresOf(u)
                      /\ c \notin Pending(u)' => (u \in mEnableState[c] <=> u \in enabledSensors' /\ c \in CoresOf(u))
    BY <1>1 DEF CoresFollow, CoresOf
  <2>1. Pending(u) = {} /\ Pending(u)' = IF u = t THEN CoresOf(t) ELSE {}
    BY <1>3 DEF Pending, CoresOf
  <2>2. /\ u \in mEnableState[c] => c \in CoresOf(u)
        /\ u \in mEnableState[c] <=> u \in enabledSensors /\ c \in CoresOf(u)
    BY <2>1 DEF PowerInv, CoresFollow
  <2>3. u # t => (u \in enabledSensors' <=> u \in enabledSensors)
    BY <1>1
  <2> QED BY <2>1, <2>2, <2>3
<1>7. HalvesFollow' /\ Uncontended'
  BY <1>1, <1>3 DEF PowerInv, HalvesFollow, Uncontended, PowerDue, Switching
<1> QED BY <1>4, <1>5, <1>6, <1>7 DEF PowerInv

LEMMA BatchKeeps ==
  ASSUME ImuAssumption, PowerInv, NEW t \in Types, NEW period \in Requests[t], Batch(t, period)
  PROVE  PowerInv'
<1>1. /\ call = Idle
      /\ call' = [op |-> "batch", type |-> t, period |-> period, todo |-> mDependencyList[t], step |-> "enable"]
      /\ UNCHANGED <<enabledSensors, mEnableState, mIsEnabled, imuIsEnabled, powerMode, contended>>
  BY DEF Batch, coreVars, imuVars, chipVars, historyVars
<1>2. mDependencyList[t] \in Todos /\ period \in Nat
  BY DEF ImuAssumption, Todos
<1>3. call.op = "idle" /\ call'.op = "batch"
  BY <1>1 DEF Idle
<1>4. StateTypes'
  BY <1>1, <1>2 DEF PowerInv, StateTypes, Calls
<1>5. CallFollows' /\ CoresFollow' /\ HalvesFollow' /\ Uncontended'
  BY <1>1, <1>3 DEF PowerInv, CallFollows, CoresFollow, HalvesFollow, Uncontended, Pending, PowerDue, Switching,
     CoresOf
<1> QED BY <1>4, <1>5 DEF PowerInv

(* A call goes on with its next core, or ends.                             *)
LEMMA CoreDoneFollows ==
  ASSUME PowerInv, call # Idle, CoreDone
  PROVE  /\ call' \in Calls
         /\ \/ call' = Idle /\ ToSet(call.todo) = {Core}
            \/ /\ call'.op = call.op /\ call'.type = call.type /\ call'.todo = Tail(call.todo)
               /\ call'.step = "enable"
               /\ call.op = "activate" => (call'.enable <=> call.enable)
<1>1. call.todo \in Todos
  BY DEF PowerInv, StateTypes, Calls
<1>2. CASE Tail(call.todo) = <<>>
  BY <1>1, <1>2, ToSetOfTail DEF CoreDone, Core, Calls
<1>3. CASE Tail(call.todo) # <<>>
  <2>1. call' = [call EXCEPT !.todo = Tail(call.todo), !.step = "enable"] /\ Tail(call.todo) \in Todos
    BY <1>1, <1>3, ToSetOfTail DEF CoreDone
  <2>2. CASE call \in [op: {"activate"}, type: Types, enable: BOOLEAN, todo: Todos, step: Steps]
    BY <2>1, <2>2 DEF Calls, Steps
  <2>3. CASE call \in [op: {"batch"}, type: Types, period: Nat, todo: Todos, step: {"enable"}]
    BY <2>1, <2>3 DEF Calls
  <2> QED BY <2>2, <2>3 DEF PowerInv, StateTypes, Calls
<1> QED BY <1>2, <1>3

(* Only the number of contended halves may grow.                           *)
LEMMA BatchByTypeKeeps == ASSUME ImuAssumption, PowerInv, BatchByType PROVE PowerInv'
<1>1. /\ call.op = "batch" /\ CoreDone
      /\ UNCHANGED <<enabledSensors, mEnableState, mIsEnabled, imuIsEnabled, powerMode>>
      /\ contended' = contended \union {Half} \/ contended' = contended
  BY DEF BatchByType
<1>2. call # Idle /\ call.todo \in Todos
  BY <1>1 DEF Idle, PowerInv, StateTypes, Calls
<1>3. Half \in Indices
  BY <1>2, ToSetOfTail DEF Half, Core, ImuAssumption
<1>4. call' \in Calls /\ call'.op # "activate"
  BY <1>1, <1>2, CoreDoneFollows DEF Idle
<1>5. StateTypes'
  BY <1>1, <1>3, <1>4 DEF PowerInv, StateTypes
<1>6. CallFollows' /\ CoresFollow' /\ HalvesFollow'
  BY <1>1, <1>4 DEF PowerInv, CallFollows, CoresFollow, HalvesFollow, Pending, PowerDue, CoresOf
<1>7. Uncontended'
  BY <1>1, <1>4 DEF PowerInv, Uncontended, Switching
<1> QED BY <1>5, <1>6, <1>7 DEF PowerInv

(* The rest of an activation: the core at hand has been reached.           *)
LEMMA SwitchPowerKeeps == ASSUME ImuAssumption, PowerInv, SwitchPower PROVE PowerInv'
<1>1. /\ call.op = "activate" /\ call.step = "power" /\ call' = [call EXCEPT !.step = "rate"]
      /\ powerMode' = [powerMode EXCEPT ![Half] = mIsEnabled[Core]]
      /\ UNCHANGED <<enabledSensors, mEnableState, mIsEnabled, imuIsEnabled, contended>>
  BY DEF SwitchPower, coreVars, imuVars, historyVars
<1>2. call \in [op: {"activate"}, type: Types, enable: BOOLEAN, todo: Todos, step: Steps]
  BY <1>1 DEF PowerInv, StateTypes, Calls, Idle
<1>3. /\ call' \in [op: {"activate"}, type: Types, enable: BOOLEAN, todo: Todos, step: Steps]
      /\ call'.op = "activate" /\ call'.type = call.type /\ call'.todo = call.todo /\ call'.step = "rate"
      /\ call'.enable = call.enable
  BY <1>1, <1>2 DEF Steps
<1>4. /\ Core \in Cores /\ Half \in Indices /\ mIsEnabled[Core] \in BOOLEAN
      /\ Core' = Core /\ Half' = Half /\ OthersEnabled' = OthersEnabled
  BY <1>1, <1>2, <1>3, ToSetOfTail DEF Core, Half, OthersEnabled, ImuAssumption, PowerInv, StateTypes
<1>5. /\ powerMode' \in [Indices -> BOOLEAN] /\ (powerMode'[Half] <=> mIsEnabled[Core])
      /\ \A i \in Indices : i # Half => (powerMode'[i] <=> powerMode[i])
  <2>1. powerMode \in [Indices -> BOOLEAN]
    BY DEF PowerInv, StateTypes
  <2> QED BY <1>1, <1>4, <2>1, Zenon
<1>6. StateTypes'
  BY <1>1, <1>3, <1>5 DEF PowerInv, StateTypes, Calls
<1>7. CallFollows' /\ CoresFollow'
  BY <1>1, <1>3, <1>4 DEF PowerInv, CallFollows, CoresFollow, Pending, CoresOf
<1>8. HalvesFollow'
  BY <1>1, <1>3, <1>4, <1>5 DEF PowerInv, HalvesFollow, PowerDue
<1>9. Uncontended'
  BY <1>1, <1>3, <1>4 DEF PowerInv, Uncontended, Switching
<1> QED BY <1>6, <1>7, <1>8, <1>9 DEF PowerInv

(* An activation goes on: what its next cores owe grows, nothing else.     *)
LEMMA ActivationGoesOn ==
  ASSUME PowerInv, call.op = "activate", CoreDone, UNCHANGED enabledSensors
  PROVE  /\ call' \in Calls /\ CallFollows'
         /\ call'.op = "activate" => call'.step = "enable" /\ call'.type = call.type
         /\ call'.op # "batch"
         /\ \A t \in Types : Pending(t) \ {Core} \subseteq Pending(t)'
<1>1. call # Idle /\ call.todo \in Todos
  BY DEF Idle, PowerInv, StateTypes, Calls
<1>2. /\ call' \in Calls
      /\ \/ call' = Idle /\ ToSet(call.todo) = {Core}
         \/ /\ call'.op = call.op /\ call'.type = call.type /\ call'.todo = Tail(call.todo)
            /\ call'.step = "enable" /\ (call'.enable <=> call.enable)
  BY <1>1, CoreDoneFollows
<1>3. ToSet(call.todo) = {Core} \union ToSet(Tail(call.todo))
  BY <1>1, ToSetOfTail DEF Core
<1>4. CallFollows'
  BY <1>2, <1>3 DEF PowerInv, CallFollows, Idle, CoresOf
<1>5. Idle.op = "idle"
  BY DEF Idle
<1>6. \A t \in Types : Pending(t) \ {Core} \subseteq ToSet(Tail(call.todo)) /\ Pending(t) \ {Core} \subseteq ToSet(call.todo)
                       /\ (t # call.type => Pending(t) = {})
  BY <1>3 DEF Pending
<1> QED BY <1>2, <1>4, <1>5, <1>6 DEF Pending

(* The end of an activation's work on a core.                              *)
LEMMA SetRateKeeps == ASSUME ImuAssumption, PowerInv, SetRate PROVE PowerInv'
<1>1. /\ call.op = "activate" /\ call.step = "rate" /\ CoreDone
      /\ UNCHANGED <<enabledSensors, mEnableState, mIsEnabled, imuIsEnabled, powerMode, contended>>
  BY DEF SetRate, coreVars, historyVars
<1>2. /\ call' \in Calls /\ CallFollows' /\ call'.op # "batch"
      /\ call'.op = "activate" => call'.step = "enable" /\ call'.type = call.type
      /\ \A t \in Types : Pending(t) \ {Core} \subseteq Pending(t)'
  BY <1>1, ActivationGoesOn
<1>3. \A t \in Types : Core \notin Pending(t)
  BY <1>1 DEF Pending
<1>4. StateTypes'
  BY <1>1, <1>2 DEF PowerInv, StateTypes
<1>5. CoresFollow'
  <2> SUFFICES ASSUME NEW c \in Cores, NEW u \in Types
               PROVE  /\ u \in mEnableState[c] => c \in CoresOf(u)
                      /\ c \notin Pending(u)' => (u \in mEnableState[c] <=> u \in enabledSensors /\ c \in CoresOf(u))
    BY <1>1 DEF CoresFollow, CoresOf
  <2>1. c \notin Pending(u)' => c \notin Pending(u)
    BY <1>2, <1>3
  <2> QED BY <2>1 DEF PowerInv, CoresFollow
<1>6. HalvesFollow' /\ Uncontended'
  BY <1>1, <1>2 DEF PowerInv, HalvesFollow, Uncontended, PowerDue, Switching
<1> QED BY <1>2, <1>4, <1>5, <1>6 DEF PowerInv

(* SensorCore::activateByType: the core at hand follows, and the flag of   *)
(* its half.                                                               *)
LEMMA EnableCoreKeeps == ASSUME ImuAssumption, PowerInv, EnableCore PROVE PowerInv'
<1> DEFINE c == Core
           t == call.type
           types == IF call.enable THEN mEnableState[c] \union {t} ELSE mEnableState[c] \ {t}
           i == Half
           Switched == (types # {}) # mIsEnabled[c]
<1>1. /\ call.op = "activate" /\ call.step = "enable" /\ UNCHANGED <<enabledSensors, powerMode>>
      /\ mEnableState' = [mEnableState EXCEPT ![c] = types]
      /\ ~Switched => CoreDone /\ UNCHANGED <<mIsEnabled, imuIsEnabled, contended>>
      /\ Switched => /\ mIsEnabled' = [mIsEnabled EXCEPT ![c] = (types # {})]
                     /\ imuIsEnabled' = [imuIsEnabled EXCEPT ![i] = (types # {})]
                     /\ contended' = IF OthersEnabled # {} THEN contended \union {i} ELSE contended \ {i}
                     /\ call' = [call EXCEPT !.step = "power"]
  BY DEF EnableCore, AnyEnabled
<1>2. call \in [op: {"activate"}, type: Types, enable: BOOLEAN, todo: Todos, step: Steps]
  BY <1>1 DEF PowerInv, StateTypes, Calls, Idle
<1>3. /\ t \in Types /\ call.todo \in Todos /\ call.enable \in BOOLEAN
      /\ (call.enable <=> t \in enabledSensors)
      /\ ToSet(call.todo) \subseteq CoresOf(t)
  BY <1>1, <1>2 DEF PowerInv, CallFollows
<1>4. c \in Cores /\ c \in CoresOf(t) /\ i \in Indices /\ i = Index[c] /\ ToSet(call.todo) = {c} \union ToSet(Tail(call.todo))
  BY <1>3, ToSetOfTail DEF Core, Half, ImuAssumption
<1>5. /\ types \subseteq Types /\ mEnableState'[c] = types
      /\ mEnableState' \in [Cores -> SUBSET Types]
      /\ \A d \in Cores : d # c => mEnableState'[d] = mEnableState[d]
      /\ t \in types <=> t \in enabledSensors
      /\ \A u \in Types : u # t => (u \in types <=> u \in mEnableState[c])
  BY <1>1, <1>3, <1>4 DEF PowerInv, StateTypes
<1>6. Switched => /\ call' \in [op: {"activate"}, type: Types, enable: BOOLEAN, todo: Todos, step: Steps]
                  /\ call'.op = "activate" /\ call'.type = t /\ call'.todo = call.todo /\ call'.step = "power"
                  /\ call'.enable = call.enable
  BY <1>1, <1>2 DEF Steps
<1>7. ~Switched => /\ call' \in Calls /\ CallFollows' /\ call'.op # "batch"
                   /\ (call'.op = "activate" => call'.step = "enable" /\ call'.type = call.type)
                   /\ \A u \in Types : Pending(u) \ {c} \subseteq Pending(u)'
  BY <1>1, ActivationGoesOn
<1>8. Switched => Core' = c /\ Half' = i
  BY <1>6 DEF Core, Half
<1> HIDE DEF c, t, types, i, Switched
<1>9. call' \in Calls /\ CallFollows'
  <2>1. Switched => call' \in Calls /\ CallFollows'
    BY <1>1, <1>3, <1>6 DEF Calls, CallFollows, CoresOf, t
  <2> QED BY <1>7, <2>1
<1>10. \A u \in Types : Pending(u) \ {c} \subseteq Pending(u)' /\ (u # t => Pending(u) = {})
  <2>1. Switched => \A u \in Types : Pending(u)' = IF u = t THEN ToSet(Tail(call.todo)) \ {c} ELSE {}
    BY <1>6, <1>8 DEF Pending
  <2>2. \A u \in Types : Pending(u) = IF u = t THEN ToSet(call.todo) ELSE {}
    BY <1>1 DEF Pending, t
  <2> QED BY <1>4, <1>7, <2>1, <2>2
<1>11. CoresFollow'
  <2> SUFFICES ASSUME NEW d \in Cores, NEW u \in Types
               PROVE  /\ u \in mEnableState'[d] => d \in CoresOf(u)
                      /\ d \notin Pending(u)' => (u \in mEnableState'[d] <=> u \in enabledSensors /\ d \in CoresOf(u))
    BY <1>1 DEF CoresFollow, CoresOf
  <2> DEFINE Follows == u \in mEnableState'[d] <=> u \in enabledSensors /\ d \in CoresOf(u)
             Known == u \in mEnableState'[d] => d \in CoresOf(u)
             Left == d \in Pending(u)'
  <2> SUFFICES Known /\ (~Left => Follows)
    OBVIOUS
  <2>1. /\ u \in mEnableState[d] => d \in CoresOf(u)
        /\ d \notin Pending(u) => (u \in mEnableState[d] <=> u \in enabledSensors /\ d \in CoresOf(u))
    BY DEF PowerInv, CoresFollow
  <2>2. u # t => Known /\ Follows
    <3> SUFFICES ASSUME u # t PROVE Known /\ Follows
      OBVIOUS
    <3>1. Pending(u) = {} /\ (u \in mEnableState'[d] <=> u \in mEnableState[d])
      BY <1>5, <1>10
    <3> QED BY <2>1, <3>1
  <2>3. u = t /\ d = c => Known /\ Follows
    BY <1>4, <1>5
  <2>4. u = t /\ d # c => Known /\ (~Left => Follows)
    BY <1>5, <1>10, <2>1
  <2> HIDE DEF Known, Left, Follows
  <2> QED BY <2>2, <2>3, <2>4
<1>12. /\ mIsEnabled' \in [Cores -> BOOLEAN] /\ (mIsEnabled'[c] <=> types # {})
       /\ \A d \in Cores : d # c => (mIsEnabled'[d] <=> mIsEnabled[d])
  <2>1. mIsEnabled \in [Cores -> BOOLEAN] /\ mIsEnabled[c] \in BOOLEAN
    BY <1>4 DEF PowerInv, StateTypes
  <2>2. CASE ~Switched
    BY <1>1, <2>1, <2>2, Zenon DEF Switched
  <2>3. CASE Switched
    BY <1>1, <1>4, <2>1, <2>3, Zenon
  <2> QED BY <2>2, <2>3
<1>13. /\ imuIsEnabled' \in [Indices -> BOOLEAN]
       /\ \A j \in Indices : j # i => (imuIsEnabled'[j] <=> imuIsEnabled[j])
       /\ IF Switched THEN imuIsEnabled'[i] <=> types # {} ELSE imuIsEnabled'[i] <=> imuIsEnabled[i]
  <2>1. imuIsEnabled \in [Indices -> BOOLEAN]
    BY DEF PowerInv, StateTypes
  <2>2. CASE ~Switched
    BY <1>1, <2>1, <2>2
  <2>3. CASE Switched
    <3>1. /\ imuIsEnabled' \in [Indices -> BOOLEAN] /\ (imuIsEnabled'[i] <=> types # {})
          /\ \A j \in Indices : j # i => (imuIsEnabled'[j] <=> imuIsEnabled[j])
      BY <1>1, <1>4, <2>1, <2>3, Zenon
    <3> QED BY <2>3, <3>1
  <2> QED BY <2>2, <2>3
<1>14. /\ contended' \subseteq Indices /\ (~Switched => contended' = contended)
       /\ Switched => IF OthersEnabled # {} THEN contended' = contended \union {i} ELSE contended' = contended \ {i}
  BY <1>1, <1>4 DEF PowerInv, StateTypes
<1>15. StateTypes'
  BY <1>1, <1>5, <1>9, <1>12, <1>13, <1>14 DEF PowerInv, StateTypes
<1>16. HalvesFollow'
  <2>1. \A d \in Cores : mIsEnabled'[d] <=> mEnableState'[d] # {}
    BY <1>5, <1>12 DEF PowerInv, HalvesFollow
  <2>2. ASSUME NEW j \in Indices, imuIsEnabled'[j] PROVE \E d \in Cores : Index[d] = j /\ mIsEnabled'[d]
    <3>1. CASE Switched /\ j = i
      BY <1>4, <1>12, <1>13, <2>2, <3>1
    <3>2. CASE ~(Switched /\ j = i)
      <4>1. PICK d \in Cores : Index[d] = j /\ mIsEnabled[d]
        BY <1>13, <2>2, <3>2 DEF PowerInv, HalvesFollow
      <4>2. d = c => ~Switched
        BY <1>4, <3>2, <4>1
      <4>3. mIsEnabled'[d]
        <5>1. ~Switched => UNCHANGED mIsEnabled
          BY <1>1
        <5> QED BY <1>12, <4>1, <4>2, <5>1
      <4> QED BY <4>1, <4>3
    <3> QED BY <3>1, <3>2
  <2>3. ASSUME NEW j \in Indices PROVE ~PowerDue(j)
    BY <1>1 DEF PowerDue
  <2>4. ASSUME NEW j \in Indices
        PROVE  PowerDue(j)' <=> Switched /\ j = i
    BY <1>6, <1>7, <1>8 DEF PowerDue
  <2>5. ASSUME NEW j \in Indices
        PROVE  /\ ~PowerDue(j)' => (powerMode'[j] <=> imuIsEnabled'[j])
               /\ PowerDue(j)' => (mIsEnabled'[Core'] <=> imuIsEnabled'[j])
    <3>1. powerMode[j] <=> imuIsEnabled[j]
      BY <2>3 DEF PowerInv, HalvesFollow
    <3>2. powerMode'[j] <=> powerMode[j]
      BY <1>1
    <3>3. CASE Switched /\ j = i
      BY <1>8, <1>12, <1>13, <2>4, <3>3
    <3>4. CASE ~(Switched /\ j = i)
      BY <1>13, <2>4, <3>1, <3>2, <3>4
    <3> QED BY <3>3, <3>4
  <2> QED BY <2>1, <2>2, <2>5 DEF HalvesFollow
<1>17. Uncontended'
  <2>1. ASSUME NEW d \in Cores, mIsEnabled'[d], Index[d] \notin contended' PROVE imuIsEnabled'[Index[d]]
    <3>1. Index[d] \in Indices
      BY DEF ImuAssumption
    <3>2. CASE ~Switched
      BY <1>1, <1>13, <1>14, <2>1, <3>1, <3>2 DEF PowerInv, Uncontended
    <3>3. CASE Switched /\ d = c
      BY <1>4, <1>12, <1>13, <2>1, <3>3
    <3>4. CASE Switched /\ d # c /\ Index[d] = i
      <4>1. mIsEnabled[d] /\ d \in OthersEnabled
        BY <1>12, <2>1, <3>4 DEF OthersEnabled, c, i
      <4> QED BY <1>14, <2>1, <3>4, <4>1
    <3>5. CASE Switched /\ Index[d] # i
      <4>1. mIsEnabled[d] /\ Index[d] \notin contended
        BY <1>4, <1>12, <1>14, <2>1, <3>5
      <4> QED BY <1>13, <3>1, <3>5, <4>1 DEF PowerInv, Uncontended
    <3> QED BY <3>2, <3>3, <3>4, <3>5
  <2>2. Switching' /\ OthersEnabled' # {} => Half' \in contended'
    <3>1. CASE ~Switched
      BY <1>7, <3>1 DEF Switching
    <3>2. CASE Switched
      <4>1. OthersEnabled' = OthersEnabled
        BY <1>8, <1>12, <3>2 DEF OthersEnabled, c, i
      <4> QED BY <1>8, <1>14, <3>2, <4>1
    <3> QED BY <3>1, <3>2
  <2> QED BY <2>1, <2>2 DEF Uncontended
<1> QED BY <1>9, <1>11, <1>15, <1>16, <1>17 DEF PowerInv

LEMMA NextKeeps == ASSUME ImuAssumption, PowerInv, [Next]_vars PROVE PowerInv'
<1>1. CASE \E t \in Types, enable \in BOOLEAN : Activate(t, enable)
  BY <1>1, ActivateKeeps
<1>2. CASE \E t \in Types : \E period \in Requests[t] : Batch(t, period)
  BY <1>2, BatchKeeps
<1>3. CASE EnableCore
  BY <1>3, EnableCoreKeeps
<1>4. CASE SwitchPower
  BY <1>4, SwitchPowerKeeps
<1>5. CASE SetRate
  BY <1>5, SetRateKeeps
<1>6. CASE BatchByType
  BY <1>6, BatchByTypeKeeps
<1>7. CASE UNCHANGED vars
  BY <1>7 DEF vars, coreVars, imuVars, chipVars, historyVars, PowerInv, StateTypes, CallFollows, CoresFollow,
     HalvesFollow, Uncontended, Pending, PowerDue, Switching, OthersEnabled, Half, Core, CoresOf
<1> QED BY <1>1, <1>2, <1>3, <1>4, <1>5, <1>6, <1>7 DEF Next

THEOREM PowerInvariant == Spec => []PowerInv
BY ImuAssumption, InitHolds, NextKeeps, PTL DEF Spec

(* Between calls no half of the chip is left powered that nobody uses,     *)
(* whatever its cores do to each other; and a half on which no core has    *)
(* interfered with another is powered exactly while a sensor in use works  *)
(* on it, however activations and deactivations of plain and composite     *)
(* sensors follow one another (SensorCore::activateByType).  For any       *)
(* sensors, cores, composites and assignment of the cores to the halves.   *)
THEOREM PoweredAsUsed == Spec => []PowerFollowsUse
<1>1. ASSUME PowerInv, ImuAssumption PROVE PowerFollowsUse
  <2> SUFFICES ASSUME call = Idle, NEW i \in Indices
               PROVE  LET used == \E t \in enabledSensors : i \in HalvesUsedBy(t)
                      IN (powerMode[i] => used) /\ (used /\ i \notin contended => powerMode[i])
    BY DEF PowerFollowsUse
  <2>1. (\A t \in Types : Pending(t) = {}) /\ ~PowerDue(i)
    BY DEF Pending, Idle, PowerDue
  <2>2. \A c \in Cores, t \in Types : t \in mEnableState[c] <=> t \in enabledSensors /\ c \in CoresOf(t)
    BY <1>1, <2>1 DEF PowerInv, CoresFollow
  <2>3. \A t \in Types : CoresOf(t) \subseteq Cores
    BY <1>1 DEF ImuAssumption, CoresOf, ToSet
  <2>4. enabledSensors \subseteq Types /\ mEnableState \in [Cores -> SUBSET Types]
    BY <1>1 DEF PowerInv, StateTypes
  <2>5. \A c \in Cores : mIsEnabled[c] <=> mEnableState[c] # {}
    BY <1>1 DEF PowerInv, HalvesFollow
  <2>6. powerMode[i] <=> imuIsEnabled[i]
    BY <1>1, <2>1 DEF PowerInv, HalvesFollow
  <2>7. ASSUME powerMode[i] PROVE \E t \in enabledSensors : i \in HalvesUsedBy(t)
    <3>1. PICK c \in Cores : Index[c] = i /\ mIsEnabled[c]
      BY <1>1, <2>6, <2>7 DEF PowerInv, HalvesFollow
    <3>2. PICK t \in mEnableState[c] : TRUE
      BY <2>5, <3>1
    <3>3. t \in enabledSensors /\ c \in CoresOf(t)
      BY <2>2, <2>4, <3>1, <3>2
    <3> QED BY <3>1, <3>3 DEF HalvesUsedBy
  <2>8. ASSUME NEW t \in enabledSensors, i \in HalvesUsedBy(t), i \notin contended PROVE powerMode[i]
    <3>1. PICK c \in CoresOf(t) : Index[c] = i
      BY <2>8 DEF HalvesUsedBy
    <3>2. t \in Types /\ c \in Cores
      BY <2>3, <2>4
    <3>3. mIsEnabled[c]
      BY <2>2, <2>5, <3>2
    <3> QED BY <1>1, <2>6, <2>8, <3>1, <3>2, <3>3 DEF PowerInv, Uncontended
  <2> QED BY <2>7, <2>8
<1>2. PowerInv => PowerFollowsUse
  BY <1>1, ImuAssumption
<1> QED BY <1>2, PowerInvariant, PTL

-----------------------------------------------------------------------------
(* The rate of a chip: the periods in use are among those of the cores     *)
(* (OdrFollows, UnusedIsSlow), and those of sensors in use are taken into  *)
(* account, on halves that no cores contend for (ServedIsIncluded).        *)

Periods == MinSamplingRate..MaxSamplingRate

EnabledHalves == {i \in Indices : imuIsEnabled[i]}

RateTypes ==
  /\ mSamplingPeriods \in [Cores -> [Types -> {0} \union Periods]]
  /\ imuSamplingPeriodNs \in [Indices -> Periods]
  /\ odr \in Nat
  /\ served \subseteq enabledSensors
  /\ call.op = "batch" => call.period \in Periods

OdrFollows ==
  EnabledHalves # {} => odr = Hz(RoundedTo(FastestOf(imuSamplingPeriodNs, EnabledHalves)))

(* No core of the half is on, nor on its way.                              *)
Unused(i) == ~(Switching /\ i = Half) /\ \A c \in Cores : Index[c] = i => ~mIsEnabled[c]

UnusedIsSlow == \A i \in Indices : Unused(i) => imuSamplingPeriodNs[i] = MaxSamplingRate

(* The period that a half goes by covers that of a type on a core.         *)
Includes(c, t) == Index[c] \in contended \/ imuSamplingPeriodNs[Index[c]] <= mSamplingPeriods[c][t]

ServedIsIncluded ==
  /\ \A t \in served : \A c \in CoresOf(t) : Includes(c, t)
  /\ call.op = "activate" => call.type \notin served
  /\ call.op = "batch" /\ call.type \in enabledSensors =>
       \A c \in CoresOf(call.type) \ ToSet(call.todo) : Includes(c, call.type)

SamePeriods ==
  /\ \A t \in Types : \A c \in CoresOf(t) :
       (call.op = "batch" /\ call.type = t) \/ mSamplingPeriods[c][t] = PeriodOf(t)
  /\ call.op = "batch" =>
       /\ \A c \in CoresOf(call.type) \ ToSet(call.todo) : mSamplingPeriods[c][call.type] = call.period
       /\ call.todo = mDependencyList[call.type] \/ PeriodOf(call.type) = call.period

RateInv == PowerInv /\ RateTypes /\ OdrFollows /\ UnusedIsSlow /\ ServedIsIncluded /\ SamePeriods

(* What a step that speeds the chip up may be: see NotSpedUpByUnused.      *)
Justified ==
  odr' > odr /\ odr' > Hz(MaxSamplingRate) =>
    \/ \E t \in enabledSensors : Hz(RoundedTo(PeriodOf(t)')) = odr'
    \/ Half \in contended

-----------------------------------------------------------------------------
(* Minimum, maximum and the rates of the chip                              *)

LEMMA LeastExists ==
  ASSUME NEW S \in SUBSET Nat, S # {}
  PROVE  \E x \in S : \A y \in S : x <= y
<1>1. PICK x \in S : \A y \in S : ~(<<y, x>> \in OpToRel(<, Nat))
  BY WFMin, NatLessThanWellFounded
<1>2. x \in Nat /\ S \subseteq Nat
  OBVIOUS
<1>3. \A y \in S : <<y, x>> \in OpToRel(<, Nat) <=> y < x
  BY <1>2 DEF OpToRel
<1>4. \A y \in S : ~(y < x)
  BY <1>1, <1>3, Zenon
<1> QED BY <1>2, <1>4

LEMMA MinIsLeast ==
  ASSUME NEW S \in SUBSET Nat, S # {}
  PROVE  Min(S) \in S /\ \A y \in S : Min(S) <= y
BY LeastExists DEF Min

LEMMA MaxIsGreatest ==
  ASSUME NEW S \in SUBSET Nat, S # {}, NEW b \in Nat, \A x \in S : x <= b
  PROVE  Max(S) \in S /\ \A y \in S : y <= Max(S)
<1> DEFINE T == {b - x : x \in S}
<1>1. T \in SUBSET Nat /\ T # {}
  <2>1. \A x \in S : x \in Nat /\ x <= b /\ b - x \in Nat
    OBVIOUS
  <2> QED BY <2>1
<1>2. PICK t \in T : \A u \in T : t <= u
  BY <1>1, LeastExists
<1>3. PICK x \in S : t = b - x
  OBVIOUS
<1>4. \A y \in S : x >= y
  BY <1>2, <1>3
<1> QED BY <1>4 DEF Max

(* RoundedTo finds a rate that is fast enough, the same for the slowest    *)
(* period and never a faster one for a slower period.                      *)
LEMMA RoundedIsFastEnough ==
  ASSUME ImuAssumption, RatesAssumption, NEW p \in Periods
  PROVE  RoundedTo(p) \in Rates /\ RoundedTo(p) <= p
         /\ \A h \in Rates : h <= p => h <= RoundedTo(p)
<1> DEFINE fastEnough == {h \in Rates : p >= h}
<1>1. Rates \subseteq Periods /\ Periods \subseteq Nat
  BY DEF Rates, Periods, ImuAssumption
<1>2. MinSamplingRate \in fastEnough
  BY <1>1 DEF RatesAssumption, Periods, ImuAssumption
<1>3. RoundedTo(p) = Max(fastEnough)
  BY <1>2 DEF RoundedTo
<1>4. fastEnough \in SUBSET Nat /\ p \in Nat /\ \A h \in fastEnough : h <= p
  BY <1>1
<1>5. Max(fastEnough) \in fastEnough /\ \A h \in fastEnough : h <= Max(fastEnough)
  BY <1>2, <1>4, MaxIsGreatest
<1> QED BY <1>1, <1>3, <1>5

LEMMA RoundedIsMonotonic ==
  ASSUME ImuAssumption, RatesAssumption, NEW p \in Periods, NEW q \in Periods, p <= q
  PROVE  RoundedTo(p) <= RoundedTo(q)
<1>1. Rates \subseteq Periods /\ Periods \subseteq Nat
  BY DEF Rates, Periods, ImuAssumption
<1>2. RoundedTo(p) \in Rates /\ RoundedTo(p) <= p
  BY RoundedIsFastEnough
<1>3. RoundedTo(p) <= q
  <2>1. RoundedTo(p) \in Nat /\ p \in Nat /\ q \in Nat
    BY <1>1, <1>2
  <2> QED BY <1>2, <2>1
<1> QED BY <1>2, <1>3, RoundedIsFastEnough

LEMMA SlowestIsOffered ==
  ASSUME ImuAssumption, RatesAssumption
  PROVE  MaxSamplingRate \in Periods /\ RoundedTo(MaxSamplingRate) = MaxSamplingRate
<1>1. Rates \subseteq Periods /\ Periods \subseteq Nat
  BY DEF Rates, Periods, ImuAssumption
<1>2. MaxSamplingRate \in Rates
  BY DEF RatesAssumption
<1>3. /\ RoundedTo(MaxSamplingRate) \in Rates
      /\ RoundedTo(MaxSamplingRate) <= MaxSamplingRate /\ MaxSamplingRate <= RoundedTo(MaxSamplingRate)
  BY <1>1, <1>2, RoundedIsFastEnough
<1>4. RoundedTo(MaxSamplingRate) \in Nat /\ MaxSamplingRate \in Nat
  BY <1>1, <1>2, <1>3
<1> QED BY <1>1, <1>2, <1>3, <1>4

LEMMA FastestIsLeast ==
  ASSUME ImuAssumption, NEW periods \in [Indices -> Periods], NEW S \in SUBSET Indices, S # {}
  PROVE  /\ FastestOf(periods, S) \in Periods
         /\ \E i \in S : FastestOf(periods, S) = periods[i]
         /\ \A i \in S : FastestOf(periods, S) <= periods[i]
<1> DEFINE P == {periods[i] : i \in S}
<1>1. P \in SUBSET Nat /\ P # {} /\ P \subseteq Periods
  BY DEF Periods, ImuAssumption
<1>2. Min(P) \in P /\ \A y \in P : Min(P) <= y
  BY <1>1, MinIsLeast
<1> QED BY <1>1, <1>2 DEF FastestOf

LEMMA UsedPeriodIsLeast ==
  ASSUME ImuAssumption, RatesAssumption, NEW types \in SUBSET Types, NEW periods \in [Types -> {0} \union Periods]
  PROVE  /\ UsedSamplingPeriod(types, periods) \in Periods
         /\ \A t \in types : periods[t] # 0 => UsedSamplingPeriod(types, periods) <= periods[t]
         /\ \/ UsedSamplingPeriod(types, periods) = MaxSamplingRate
            \/ \E t \in types : periods[t] # 0 /\ UsedSamplingPeriod(types, periods) = periods[t]
<1> DEFINE P == {periods[t] : t \in {u \in types : periods[u] # 0}} \union {MaxSamplingRate}
<1>1. P \in SUBSET Nat /\ P # {} /\ P \subseteq Periods
  BY SlowestIsOffered DEF Periods, ImuAssumption
<1>2. Min(P) \in P /\ \A y \in P : Min(P) <= y
  BY <1>1, MinIsLeast
<1>3. UsedSamplingPeriod(types, periods) = Min(P)
  BY DEF UsedSamplingPeriod
<1>4. \A t \in types : periods[t] # 0 => periods[t] \in P
  OBVIOUS
<1>5. \A y \in P : y = MaxSamplingRate \/ \E t \in types : periods[t] # 0 /\ y = periods[t]
  OBVIOUS
<1> HIDE DEF P
<1> QED BY <1>1, <1>2, <1>3, <1>4, <1>5

LEMMA HzIsNatural ==
  ASSUME ImuAssumption, NEW p \in Periods
  PROVE  Hz(p) \in Nat
<1>1. OneSecond \in Nat /\ p \in Nat /\ p > 0
  BY DEF ImuAssumption, Periods
<1>2. PICK h \in Int : h = OneSecond \div p
  BY <1>1
<1>3. OneSecond < (h + 1) * p
  BY <1>1, <1>2
<1>4. h >= 0
  <2> SUFFICES ASSUME h + 1 <= 0 PROVE FALSE
    OBVIOUS
  <2>1. (h + 1) * p <= 0 /\ (h + 1) * p \in Int
    BY <1>1
  <2>2. \A n \in Nat, m \in Int : n < m => ~(m <= 0)
    OBVIOUS
  <2> QED BY <1>1, <1>3, <2>1, <2>2, Zenon
<1> QED BY <1>2, <1>4 DEF Hz

(* Whole hertz: a shorter period is not written as a lower rate.           *)
LEMMA HzIsAntitone ==
  ASSUME ImuAssumption, NEW p \in Periods, NEW q \in Periods, p <= q
  PROVE  Hz(p) \in Nat /\ Hz(q) \in Nat /\ Hz(q) <= Hz(p)
<1>1. OneSecond \in Nat /\ p \in Nat /\ q \in Nat /\ p > 0 /\ q > 0
  BY DEF ImuAssumption, Periods
<1>2. Hz(p) \in Nat /\ Hz(q) \in Nat
  BY HzIsNatural
<1> DEFINE g == Hz(p)
           h == Hz(q)
<1>0. g \in Nat /\ h \in Nat
  BY <1>2
<1>4. h * q <= OneSecond
  BY <1>1 DEF Hz
<1>5. OneSecond < (g + 1) * p
  BY <1>1 DEF Hz
<1> HIDE DEF g, h
<1>6. h * p <= h * q
  BY <1>0, <1>1
<1>7. h * p < (g + 1) * p
  <2>1. \A a, b, c \in Nat : a <= b /\ b <= OneSecond /\ OneSecond < c => a < c
    BY <1>1
  <2>2. h * p \in Nat /\ h * q \in Nat /\ (g + 1) * p \in Nat
    BY <1>0, <1>1
  <2> QED BY <1>4, <1>5, <1>6, <2>1, <2>2, Zenon
<1>8. h < g + 1
  <2> SUFFICES ASSUME h >= g + 1 PROVE FALSE
    BY <1>0
  <2>1. h * p >= (g + 1) * p
    BY <1>0, <1>1
  <2>2. h * p \in Nat /\ (g + 1) * p \in Nat
    BY <1>0, <1>1
  <2>3. \A a, b \in Nat : a < b => ~(a >= b)
    OBVIOUS
  <2> QED BY <1>7, <2>1, <2>2, <2>3, Zenon
<1> QED BY <1>0, <1>8 DEF g, h

-----------------------------------------------------------------------------
(* Smi330Imu::updateSamplingRate follows the halves that are on, and       *)
(* speeds the chip up only for the half that has changed.                  *)

On(enabled) == {i \in Indices : enabled[i]}

LEMMA UpdateFollows ==
  ASSUME ImuAssumption, RatesAssumption, odr \in Nat,
         NEW enabled \in [Indices -> BOOLEAN], NEW periods \in [Indices -> Periods],
         UpdateOdr(enabled, periods)
  PROVE  /\ odr' \in Nat
         /\ On(enabled) # {} => odr' = Hz(RoundedTo(FastestOf(periods, On(enabled))))
         /\ On(enabled) = {} => odr' = odr
<1>1. odr' = IF On(enabled) = {} THEN odr ELSE Hz(RoundedTo(FastestOf(periods, On(enabled))))
  BY DEF UpdateOdr, On
<1>2. ASSUME On(enabled) # {} PROVE Hz(RoundedTo(FastestOf(periods, On(enabled)))) \in Nat
  <2>1. FastestOf(periods, On(enabled)) \in Periods
    BY <1>2, FastestIsLeast DEF On
  <2>2. RoundedTo(FastestOf(periods, On(enabled))) \in Periods
    BY <2>1, RoundedIsFastEnough DEF Rates, Periods
  <2> QED BY <2>2, HzIsNatural
<1> QED BY <1>1, <1>2

LEMMA SpeedsUpForTheChanged ==
  ASSUME ImuAssumption, RatesAssumption, RateTypes, StateTypes, OdrFollows, NEW i \in Indices,
         imuIsEnabled' \in [Indices -> BOOLEAN], imuSamplingPeriodNs' \in [Indices -> Periods],
         \A j \in Indices : j # i => /\ imuIsEnabled'[j] <=> imuIsEnabled[j]
                                    /\ imuSamplingPeriodNs'[j] = imuSamplingPeriodNs[j],
         UpdateOdr(imuIsEnabled', imuSamplingPeriodNs'), odr' > odr, odr' > Hz(MaxSamplingRate)
  PROVE  /\ imuIsEnabled'[i] /\ imuSamplingPeriodNs'[i] # MaxSamplingRate
         /\ odr' = Hz(RoundedTo(imuSamplingPeriodNs'[i]))
<1> DEFINE S == On(imuIsEnabled)
           T == On(imuIsEnabled')
<1>1. imuIsEnabled \in [Indices -> BOOLEAN] /\ imuSamplingPeriodNs \in [Indices -> Periods]
      /\ odr \in Nat /\ S \subseteq Indices /\ T \subseteq Indices
  BY DEF RateTypes, StateTypes, On
<1>2. /\ odr' \in Nat
      /\ T # {} /\ odr' = Hz(RoundedTo(FastestOf(imuSamplingPeriodNs', T)))
  <2>1. odr' # odr
    BY <1>1
  <2> QED BY <1>1, <2>1, UpdateFollows
<1>3. PICK k \in T : FastestOf(imuSamplingPeriodNs', T) = imuSamplingPeriodNs'[k]
  BY <1>1, <1>2, FastestIsLeast
<1>4. k \in Indices /\ imuIsEnabled'[k] /\ imuSamplingPeriodNs'[k] \in Periods
  BY <1>3 DEF On
<1>5. k = i
  <2> SUFFICES ASSUME k # i PROVE FALSE
    OBVIOUS
  <2>1. k \in S /\ imuSamplingPeriodNs[k] = imuSamplingPeriodNs'[k]
    BY <1>4 DEF On
  <2>2. odr = Hz(RoundedTo(FastestOf(imuSamplingPeriodNs, S)))
    BY <2>1 DEF OdrFollows, EnabledHalves, On
  <2>3. /\ FastestOf(imuSamplingPeriodNs, S) \in Periods
        /\ FastestOf(imuSamplingPeriodNs, S) <= imuSamplingPeriodNs[k]
    BY <1>1, <2>1, FastestIsLeast
  <2>4. RoundedTo(FastestOf(imuSamplingPeriodNs, S)) <= RoundedTo(imuSamplingPeriodNs[k])
    BY <1>4, <2>1, <2>3, RoundedIsMonotonic
  <2>5. /\ RoundedTo(FastestOf(imuSamplingPeriodNs, S)) \in Periods
        /\ RoundedTo(imuSamplingPeriodNs[k]) \in Periods
    BY <1>4, <2>1, <2>3, RoundedIsFastEnough DEF Rates, Periods
  <2>6. Hz(RoundedTo(imuSamplingPeriodNs[k])) <= Hz(RoundedTo(FastestOf(imuSamplingPeriodNs, S)))
    BY <2>4, <2>5, HzIsAntitone
  <2>7. odr' <= odr
    BY <1>2, <1>3, <2>1, <2>2, <2>6
  <2> QED BY <1>1, <1>2, <2>7
<1>6. imuSamplingPeriodNs'[i] # MaxSamplingRate
  <2> SUFFICES ASSUME imuSamplingPeriodNs'[i] = MaxSamplingRate PROVE FALSE
    OBVIOUS
  <2>1. odr' = Hz(MaxSamplingRate)
    BY <1>2, <1>3, <1>5, SlowestIsOffered
  <2> QED BY <1>2, <2>1
<1> QED BY <1>2, <1>3, <1>4, <1>5, <1>6

-----------------------------------------------------------------------------
LEMMA FirstIsACore ==
  ASSUME ImuAssumption, NEW t \in Types
  PROVE  Head(mDependencyList[t]) \in CoresOf(t) /\ CoresOf(t) \subseteq Cores
<1>1. mDependencyList[t] \in Todos
  BY DEF ImuAssumption, Todos
<1>2. Head(mDependencyList[t]) \in CoresOf(t)
  BY <1>1, ToSetOfTail DEF CoresOf
<1>3. CoresOf(t) \subseteq Cores
  BY DEF ImuAssumption, CoresOf, ToSet
<1> QED BY <1>2, <1>3

LEMMA RateInit == ASSUME ImuAssumption, RatesAssumption, Init PROVE RateInv
<1>1. /\ enabledSensors = {} /\ mSamplingPeriods = [c \in Cores |-> [t \in Types |-> 0]]
      /\ imuIsEnabled = [i \in Indices |-> FALSE]
      /\ imuSamplingPeriodNs = [i \in Indices |-> MaxSamplingRate]
      /\ odr = 0 /\ call = Idle /\ served = {}
  BY DEF Init
<1>2. call.op = "idle"
  BY <1>1 DEF Idle
<1>3. \A i \in Indices : ~imuIsEnabled[i]
  BY <1>1
<1>4. RateTypes
  BY <1>1, <1>2, SlowestIsOffered DEF RateTypes
<1>5. OdrFollows
  BY <1>3 DEF OdrFollows, EnabledHalves
<1>6. UnusedIsSlow
  BY <1>1 DEF UnusedIsSlow
<1>7. ServedIsIncluded
  BY <1>1, <1>2 DEF ServedIsIncluded
<1>8. \A t \in Types : Head(mDependencyList[t]) \in Cores /\ CoresOf(t) \subseteq Cores
  BY FirstIsACore
<1>9. SamePeriods
  BY <1>1, <1>2, <1>8 DEF SamePeriods, PeriodOf
<1>10. PowerInv
  BY InitHolds
<1> QED BY <1>4, <1>5, <1>6, <1>7, <1>9, <1>10 DEF RateInv

(* Sensor::activate: a sensor that is switched off is no longer served.    *)
LEMMA RateActivate ==
  ASSUME ImuAssumption, RateInv, NEW t \in Types, NEW enable \in BOOLEAN, Activate(t, enable)
  PROVE  RateTypes' /\ OdrFollows' /\ UnusedIsSlow' /\ ServedIsIncluded' /\ SamePeriods'
<1>1. /\ call = Idle /\ enabledSensors' = IF enable THEN enabledSensors \union {t} ELSE enabledSensors \ {t}
      /\ call' = [op |-> "activate", type |-> t, enable |-> enable, todo |-> mDependencyList[t], step |-> "enable"]
      /\ served' = served \ {t}
      /\ UNCHANGED <<mSamplingPeriods, mIsEnabled, imuIsEnabled, imuSamplingPeriodNs, odr, contended>>
  BY DEF Activate, coreVars, imuVars, chipVars
<1>2. call.op = "idle" /\ call'.op = "activate" /\ call'.type = t /\ call'.step = "enable"
  BY <1>1 DEF Idle
<1>3. RateTypes'
  BY <1>1, <1>2 DEF RateInv, RateTypes
<1>4. OdrFollows'
  BY <1>1 DEF RateInv, OdrFollows, EnabledHalves
<1>5. UnusedIsSlow'
  BY <1>1, <1>2 DEF RateInv, UnusedIsSlow, Unused, Switching
<1>6. ServedIsIncluded' /\ SamePeriods'
  BY <1>1, <1>2 DEF RateInv, ServedIsIncluded, SamePeriods, Includes, PeriodOf, CoresOf
<1> QED BY <1>3, <1>4, <1>5, <1>6

(* Sensor::batch: no core has the new period yet.                          *)
LEMMA RateBatch ==
  ASSUME ImuAssumption, RateInv, NEW t \in Types, NEW period \in Requests[t], Batch(t, period)
  PROVE  RateTypes' /\ OdrFollows' /\ UnusedIsSlow' /\ ServedIsIncluded' /\ SamePeriods'
<1>1. /\ call = Idle
      /\ call' = [op |-> "batch", type |-> t, period |-> period, todo |-> mDependencyList[t], step |-> "enable"]
      /\ UNCHANGED <<enabledSensors, mSamplingPeriods, mIsEnabled, imuIsEnabled, imuSamplingPeriodNs, odr, served,
                     contended>>
  BY DEF Batch, coreVars, imuVars, chipVars, historyVars
<1>2. /\ call.op = "idle" /\ call'.op = "batch" /\ call'.type = t /\ call'.period = period
      /\ call'.todo = mDependencyList[t] /\ ToSet(call'.todo) = CoresOf(t)
  BY <1>1 DEF Idle, CoresOf
<1>3. period \in Periods
  BY DEF ImuAssumption, Periods
<1>4. RateTypes'
  BY <1>1, <1>2, <1>3 DEF RateInv, RateTypes
<1>5. OdrFollows' /\ UnusedIsSlow'
  BY <1>1, <1>2 DEF RateInv, OdrFollows, EnabledHalves, UnusedIsSlow, Unused, Switching
<1>6. ServedIsIncluded'
  <2>1. CoresOf(call'.type) \ ToSet(call'.todo) = {}
    BY <1>2
  <2>2. \A u \in served : \A c \in CoresOf(u) : Includes(c, u)'
    BY <1>1 DEF RateInv, ServedIsIncluded, Includes
  <2> QED BY <1>1, <1>2, <2>1, <2>2 DEF ServedIsIncluded, CoresOf
<1>7. SamePeriods'
  <2>1. \A u \in Types : \A c \in CoresOf(u) : mSamplingPeriods[c][u] = PeriodOf(u)
    BY <1>2 DEF RateInv, SamePeriods
  <2> QED BY <1>1, <1>2, <2>1 DEF SamePeriods, PeriodOf, CoresOf
<1> QED BY <1>4, <1>5, <1>6, <1>7

(* A core that serves a sensor is on and keeps its type, until the         *)
(* sensor is switched off.                                                 *)
LEMMA ServedAreOn ==
  ASSUME ImuAssumption, RateInv, NEW t \in served, NEW c \in CoresOf(t)
  PROVE  /\ t \in Types /\ t \in enabledSensors /\ c \in Cores /\ Index[c] \in Indices
         /\ t \in mEnableState[c] /\ mIsEnabled[c]
         /\ call.op = "activate" => t # call.type
<1>1. t \in enabledSensors /\ t \in Types
  BY DEF RateInv, RateTypes, PowerInv, StateTypes
<1>2. c \in Cores /\ Index[c] \in Indices
  BY <1>1, FirstIsACore DEF ImuAssumption
<1>3. call.op = "activate" => t # call.type
  BY DEF RateInv, ServedIsIncluded
<1>4. Pending(t) = {}
  BY <1>3 DEF Pending
<1>5. t \in mEnableState[c]
  BY <1>1, <1>2, <1>4 DEF RateInv, PowerInv, CoresFollow
<1>6. mIsEnabled[c]
  BY <1>2, <1>5 DEF RateInv, PowerInv, HalvesFollow
<1> QED BY <1>1, <1>2, <1>3, <1>5, <1>6

LEMMA RateSwitchPower ==
  ASSUME ImuAssumption, RateInv, SwitchPower
  PROVE  RateTypes' /\ OdrFollows' /\ UnusedIsSlow' /\ ServedIsIncluded' /\ SamePeriods'
<1>1. /\ call.op = "activate" /\ call.step = "power" /\ call' = [call EXCEPT !.step = "rate"]
      /\ UNCHANGED <<enabledSensors, mSamplingPeriods, mIsEnabled, imuIsEnabled, imuSamplingPeriodNs, odr, served,
                     contended>>
  BY DEF SwitchPower, coreVars, imuVars, historyVars
<1>2. call \in [op: {"activate"}, type: Types, enable: BOOLEAN, todo: Todos, step: Steps]
  BY <1>1 DEF RateInv, PowerInv, StateTypes, Calls, Idle
<1>3. call'.op = "activate" /\ call'.type = call.type /\ call'.todo = call.todo /\ call'.step = "rate"
  BY <1>1, <1>2
<1>4. RateTypes' /\ OdrFollows'
  BY <1>1, <1>3 DEF RateInv, RateTypes, OdrFollows, EnabledHalves
<1>5. UnusedIsSlow'
  BY <1>1, <1>3 DEF RateInv, UnusedIsSlow, Unused, Switching, Half, Core
<1>6. ServedIsIncluded' /\ SamePeriods'
  BY <1>1, <1>3 DEF RateInv, ServedIsIncluded, SamePeriods, Includes, PeriodOf, CoresOf
<1> QED BY <1>4, <1>5, <1>6

(* SensorCore::activateByType and the first write of the rate: a half that *)
(* is switched on, and that no other core of it has on, is at its slowest. *)
LEMMA RateEnableCore ==
  ASSUME ImuAssumption, RatesAssumption, RateInv, EnableCore
  PROVE  /\ RateTypes' /\ OdrFollows' /\ UnusedIsSlow' /\ ServedIsIncluded' /\ SamePeriods'
         /\ Justified
<1> DEFINE c == Core
           t == call.type
           types == IF call.enable THEN mEnableState[c] \union {t} ELSE mEnableState[c] \ {t}
           i == Half
           Switched == (types # {}) # mIsEnabled[c]
<1>1. /\ call.op = "activate" /\ call.step = "enable"
      /\ UNCHANGED <<enabledSensors, mSamplingPeriods, imuSamplingPeriodNs, served>>
      /\ ~Switched => CoreDone /\ UNCHANGED <<mIsEnabled, imuIsEnabled, odr, contended>>
      /\ Switched => /\ mIsEnabled' = [mIsEnabled EXCEPT ![c] = (types # {})]
                     /\ imuIsEnabled' = [imuIsEnabled EXCEPT ![i] = (types # {})]
                     /\ UpdateOdr(imuIsEnabled', imuSamplingPeriodNs)
                     /\ contended' = IF OthersEnabled # {} THEN contended \union {i} ELSE contended \ {i}
                     /\ call' = [call EXCEPT !.step = "power"]
  BY DEF EnableCore, AnyEnabled
<1>2. /\ PowerInv /\ RateTypes /\ OdrFollows /\ UnusedIsSlow /\ ServedIsIncluded /\ SamePeriods /\ StateTypes
      /\ call \in [op: {"activate"}, type: Types, enable: BOOLEAN, todo: Todos, step: Steps]
  BY <1>1 DEF RateInv, PowerInv, StateTypes, Calls, Idle
<1>3. c \in Cores /\ i \in Indices /\ i = Index[c] /\ t \in Types /\ types \subseteq Types
  BY <1>2, ToSetOfTail DEF Core, Half, ImuAssumption, StateTypes
<1>4. mIsEnabled \in [Cores -> BOOLEAN] /\ imuIsEnabled \in [Indices -> BOOLEAN] /\ mIsEnabled[c] \in BOOLEAN
  BY <1>2, <1>3 DEF StateTypes
<1>5. Switched => call'.op = "activate" /\ call'.type = t /\ call'.step = "power" /\ Core' = c /\ Half' = i
  BY <1>1, <1>2 DEF Core, Half
<1>6. ~Switched => call'.op # "batch" /\ (call'.op = "activate" => call'.type = t /\ call'.step = "enable")
  <2>1. ASSUME ~Switched PROVE call'.op # "batch" /\ (call'.op = "activate" => call'.type = t /\ call'.step = "enable")
    BY <1>1, <1>2, <2>1, ActivationGoesOn
  <2> QED BY <2>1
<1>7. mIsEnabled[c] <=> mEnableState[c] # {}
  BY <1>2, <1>3 DEF PowerInv, HalvesFollow
<1>8. OthersEnabled = {} => \A d \in Cores : Index[d] = i /\ d # c => ~mIsEnabled[d]
  BY DEF OthersEnabled
<1>9. OthersEnabled # {} /\ i \notin contended => imuIsEnabled[i]
  BY <1>2 DEF OthersEnabled, PowerInv, Uncontended
<1>10. \A u \in Types : u # t => (u \in types <=> u \in mEnableState[c])
  OBVIOUS
<1> HIDE DEF c, t, types, i, Switched
<1>11. Switched => /\ imuIsEnabled' \in [Indices -> BOOLEAN] /\ (imuIsEnabled'[i] <=> types # {})
                   /\ \A j \in Indices : j # i => (imuIsEnabled'[j] <=> imuIsEnabled[j])
                   /\ \A d \in Cores : d # c => (mIsEnabled'[d] <=> mIsEnabled[d])
                   /\ (mIsEnabled[c] <=> types = {})
  <2>1. Switched => imuIsEnabled' \in [Indices -> BOOLEAN] /\ (imuIsEnabled'[i] <=> types # {})
                    /\ \A j \in Indices : j # i => (imuIsEnabled'[j] <=> imuIsEnabled[j])
    BY <1>1, <1>3, <1>4, Zenon
  <2>2. Switched => \A d \in Cores : d # c => (mIsEnabled'[d] <=> mIsEnabled[d])
    BY <1>1, <1>3, <1>4, Zenon
  <2>3. Switched => (mIsEnabled[c] <=> types = {})
    BY <1>4 DEF Switched
  <2> QED BY <2>1, <2>2, <2>3
<1>12. odr \in Nat /\ imuSamplingPeriodNs \in [Indices -> Periods]
  BY <1>2 DEF RateTypes
<1>13. Switched => /\ odr' \in Nat
                   /\ On(imuIsEnabled') # {} => odr' = Hz(RoundedTo(FastestOf(imuSamplingPeriodNs, On(imuIsEnabled'))))
  BY <1>1, <1>11, <1>12, UpdateFollows
<1>14. RateTypes'
  <2>1. odr' \in Nat
    BY <1>1, <1>12, <1>13
  <2> QED BY <1>1, <1>2, <1>5, <1>6, <2>1 DEF RateTypes
<1>15. OdrFollows'
  <2>1. CASE Switched
    BY <1>1, <1>13, <2>1 DEF OdrFollows, EnabledHalves, On
  <2>2. CASE ~Switched
    BY <1>1, <1>2, <2>2 DEF OdrFollows, EnabledHalves
  <2> QED BY <2>1, <2>2
<1>16. UnusedIsSlow'
  <2> SUFFICES ASSUME NEW j \in Indices, Unused(j)' PROVE imuSamplingPeriodNs[j] = MaxSamplingRate
    BY <1>1 DEF UnusedIsSlow
  <2>1. Unused(j)
    <3>1. ~Switching
      BY <1>1 DEF Switching
    <3>2. CASE Switched
      <4>1. j # i
        BY <1>5, <3>2 DEF Unused, Switching
      <4>2. \A d \in Cores : Index[d] = j => d # c
        BY <1>3, <4>1
      <4> QED BY <1>11, <3>1, <3>2, <4>2 DEF Unused
    <3>3. CASE ~Switched
      BY <1>1, <3>1, <3>3 DEF Unused
    <3> QED BY <3>2, <3>3
  <2> QED BY <1>2, <2>1 DEF UnusedIsSlow
<1>17. ServedIsIncluded'
  <2>1. t \notin served
    BY <1>1, <1>2 DEF ServedIsIncluded, t
  <2>2. ASSUME NEW u \in served, NEW d \in CoresOf(u) PROVE Includes(d, u)'
    <3>1. /\ u \in Types /\ d \in Cores /\ Index[d] \in Indices /\ u \in mEnableState[d] /\ mIsEnabled[d] /\ u # t
          /\ Includes(d, u)
      BY <1>1, <1>2, ServedAreOn DEF ServedIsIncluded, t
    <3>2. Index[d] \in contended => Index[d] \in contended'
      <4>1. CASE ~Switched
        BY <1>1, <4>1
      <4>2. CASE Switched /\ Index[d] = i
        <5>1. d # c
          BY <1>10, <1>11, <3>1, <4>2
        <5>2. OthersEnabled # {}
          BY <1>8, <3>1, <4>2, <5>1
        <5> QED BY <1>1, <4>2, <5>2
      <4>3. CASE Switched /\ Index[d] # i
        BY <1>1, <4>3
      <4> QED BY <4>1, <4>2, <4>3
    <3> QED BY <1>1, <3>1, <3>2 DEF Includes
  <2> QED BY <1>1, <1>5, <1>6, <2>1, <2>2 DEF ServedIsIncluded, CoresOf
<1>18. SamePeriods'
  BY <1>1, <1>2, <1>5, <1>6 DEF SamePeriods, PeriodOf, CoresOf
<1>19. Justified
  <2> SUFFICES ASSUME odr' > odr, odr' > Hz(MaxSamplingRate) PROVE i \in contended
    BY DEF Justified, i
  <2>1. Switched
    <3>1. odr' # odr
      BY <1>12
    <3> QED BY <1>1, <3>1
  <2>2. imuIsEnabled'[i] /\ imuSamplingPeriodNs'[i] # MaxSamplingRate
    <3>1. /\ imuIsEnabled' \in [Indices -> BOOLEAN] /\ imuSamplingPeriodNs' = imuSamplingPeriodNs
          /\ imuSamplingPeriodNs' \in [Indices -> Periods]
          /\ \A j \in Indices : j # i => (imuIsEnabled'[j] <=> imuIsEnabled[j])
          /\ UpdateOdr(imuIsEnabled', imuSamplingPeriodNs')
      BY <1>1, <1>11, <1>12, <2>1
    <3> QED BY <1>2, <1>3, <3>1, SpeedsUpForTheChanged
  <2>3. ~mIsEnabled[c]
    BY <1>11, <2>1, <2>2
  <2>4. ~Switching
    BY <1>1 DEF Switching
  <2>5. OthersEnabled # {}
    <3> SUFFICES ASSUME OthersEnabled = {} PROVE FALSE
      OBVIOUS
    <3>1. \A d \in Cores : Index[d] = i => ~mIsEnabled[d]
      BY <1>8, <2>3
    <3>2. imuSamplingPeriodNs[i] = MaxSamplingRate
      BY <1>2, <1>3, <2>4, <3>1 DEF UnusedIsSlow, Unused
    <3> QED BY <1>1, <2>2, <3>2
  <2>6. ASSUME i \notin contended PROVE FALSE
    <3>1. imuIsEnabled[i]
      BY <1>9, <2>5, <2>6
    <3>2. On(imuIsEnabled') = EnabledHalves
      BY <1>11, <2>1, <2>2, <3>1 DEF On, EnabledHalves
    <3>3. EnabledHalves # {}
      BY <1>3, <3>1 DEF EnabledHalves
    <3>4. odr' = odr
      BY <1>2, <1>13, <2>1, <3>2, <3>3 DEF OdrFollows
    <3> QED BY <1>12, <3>4
  <2> QED BY <2>6
<1> QED BY <1>14, <1>15, <1>16, <1>17, <1>18, <1>19

HalfFollowsCore ==
  imuSamplingPeriodNs' = [imuSamplingPeriodNs EXCEPT ![Half] =
    UsedSamplingPeriod(mEnableState[Core], mSamplingPeriods'[Core])]

(* The end of activateByType and batchByType: the half goes by what the    *)
(* core at hand needs, which covers the types enabled on it.  Unless cores *)
(* contend for the half, no other core of it serves a sensor.              *)
LEMMA HalfGoesBy ==
  ASSUME ImuAssumption, RatesAssumption, RateInv, call # Idle,
         mSamplingPeriods' \in [Cores -> [Types -> {0} \union Periods]],
         UNCHANGED <<enabledSensors, mEnableState, mIsEnabled, imuIsEnabled>>,
         HalfFollowsCore,
         UpdateOdr(imuIsEnabled, imuSamplingPeriodNs'),
         OthersEnabled # {} => Half \in contended',
         \A j \in Indices : j \in contended => j \in contended'
  PROVE  /\ imuSamplingPeriodNs' \in [Indices -> Periods] /\ odr' \in Nat /\ OdrFollows'
         /\ (~(call'.op = "activate" /\ call'.step # "enable") => UnusedIsSlow')
         /\ \A d \in Cores : \A u \in mEnableState[d] :
              d = Core /\ mSamplingPeriods'[d][u] # 0 => Includes(d, u)'
         /\ \A d \in Cores, u \in Types :
              d # Core /\ mIsEnabled[d] /\ mSamplingPeriods'[d][u] = mSamplingPeriods[d][u] /\ Includes(d, u)
                => Includes(d, u)'
         /\ odr' > odr /\ odr' > Hz(MaxSamplingRate) =>
              \E u \in mEnableState[Core] : Hz(RoundedTo(mSamplingPeriods'[Core][u])) = odr'
<1> DEFINE c == Core
           i == Half
           used == UsedSamplingPeriod(mEnableState[c], mSamplingPeriods'[c])
<1>1. PowerInv /\ RateTypes /\ OdrFollows /\ UnusedIsSlow /\ StateTypes /\ call.todo \in Todos
  BY DEF RateInv, PowerInv, StateTypes, Calls
<1>2. c \in Cores /\ i \in Indices /\ i = Index[c] /\ mEnableState[c] \subseteq Types
  BY <1>1, ToSetOfTail DEF Core, Half, ImuAssumption, StateTypes
<1>3. imuIsEnabled' \in [Indices -> BOOLEAN] /\ odr \in Nat /\ imuSamplingPeriodNs \in [Indices -> Periods]
  BY <1>1 DEF RateTypes, StateTypes
<1>4. mSamplingPeriods'[c] \in [Types -> {0} \union Periods]
  BY <1>2
<1>5. /\ used \in Periods
      /\ \A u \in mEnableState[c] : mSamplingPeriods'[c][u] # 0 => used <= mSamplingPeriods'[c][u]
      /\ \/ used = MaxSamplingRate
         \/ \E u \in mEnableState[c] : used = mSamplingPeriods'[c][u]
  BY <1>2, <1>4, UsedPeriodIsLeast
<1>6. imuSamplingPeriodNs' = [imuSamplingPeriodNs EXCEPT ![i] = used]
  BY DEF HalfFollowsCore
<1>7. \A d \in Cores : d # c /\ Index[d] = i /\ mIsEnabled[d] => d \in OthersEnabled
  BY DEF OthersEnabled
<1>8. mEnableState[c] = {} => used = MaxSamplingRate
  BY <1>5
<1> HIDE DEF c, i, used
<1>9. /\ imuSamplingPeriodNs' \in [Indices -> Periods] /\ imuSamplingPeriodNs'[i] = used
      /\ \A j \in Indices : j # i => imuSamplingPeriodNs'[j] = imuSamplingPeriodNs[j]
  <2>1. used \in Periods
    BY <1>5
  <2> QED BY <1>2, <1>3, <1>6, <2>1
<1>10. /\ odr' \in Nat
       /\ On(imuIsEnabled') # {} => odr' = Hz(RoundedTo(FastestOf(imuSamplingPeriodNs', On(imuIsEnabled'))))
  BY <1>3, <1>9, UpdateFollows
<1>11. OdrFollows'
  BY <1>10 DEF OdrFollows, EnabledHalves, On
<1>12. ASSUME ~(call'.op = "activate" /\ call'.step # "enable") PROVE UnusedIsSlow'
  <2> SUFFICES ASSUME NEW j \in Indices, Unused(j)' PROVE imuSamplingPeriodNs'[j] = MaxSamplingRate
    BY DEF UnusedIsSlow
  <2>1. \A d \in Cores : Index[d] = j => ~mIsEnabled[d]
    BY DEF Unused
  <2>2. CASE j = i
    <3>1. mEnableState[c] = {}
      BY <1>1, <1>2, <2>1, <2>2 DEF PowerInv, HalvesFollow
    <3> QED BY <1>8, <1>9, <2>2, <3>1
  <2>3. CASE j # i
    <3>1. Unused(j)
      BY <2>1, <2>3 DEF Unused, i
    <3> QED BY <1>1, <1>9, <2>3, <3>1 DEF UnusedIsSlow
  <2> QED BY <2>2, <2>3
<1>13. ASSUME NEW d \in Cores, NEW u \in mEnableState[d], d = c, mSamplingPeriods'[d][u] # 0
       PROVE  Includes(d, u)'
  <2>1. imuSamplingPeriodNs'[Index[d]] = used
    BY <1>2, <1>9, <1>13
  <2>2. used <= mSamplingPeriods'[d][u]
    BY <1>5, <1>13
  <2> QED BY <2>1, <2>2 DEF Includes
<1>14. ASSUME NEW d \in Cores, NEW u \in Types, d # c, mIsEnabled[d],
              mSamplingPeriods'[d][u] = mSamplingPeriods[d][u], Includes(d, u)
       PROVE  Includes(d, u)'
  <2>1. Index[d] \in Indices
    BY DEF ImuAssumption
  <2>2. CASE Index[d] = i
    BY <1>7, <1>14, <2>2 DEF Includes, i
  <2>3. CASE Index[d] # i
    BY <1>9, <1>14, <2>1, <2>3 DEF Includes
  <2> QED BY <2>2, <2>3
<1>15. ASSUME odr' > odr, odr' > Hz(MaxSamplingRate)
       PROVE  \E u \in mEnableState[c] : Hz(RoundedTo(mSamplingPeriods'[c][u])) = odr'
  <2>1. /\ \A j \in Indices : j # i => (imuIsEnabled'[j] <=> imuIsEnabled[j])
        /\ UpdateOdr(imuIsEnabled', imuSamplingPeriodNs')
    OBVIOUS
  <2>2. used # MaxSamplingRate /\ odr' = Hz(RoundedTo(used))
    BY <1>1, <1>2, <1>3, <1>9, <1>15, <2>1, SpeedsUpForTheChanged
  <2> QED BY <1>5, <2>2
<1> QED BY <1>9, <1>10, <1>11, <1>12, <1>13, <1>14, <1>15 DEF c

LEMMA RateSetRate ==
  ASSUME ImuAssumption, RatesAssumption, RateInv, SetRate
  PROVE  /\ RateTypes' /\ OdrFollows' /\ UnusedIsSlow' /\ ServedIsIncluded' /\ SamePeriods'
         /\ Justified
<1> DEFINE c == Core
<1>1. /\ call.op = "activate" /\ call.step = "rate" /\ CoreDone
      /\ UNCHANGED <<enabledSensors, mEnableState, mSamplingPeriods, mIsEnabled, imuIsEnabled, served, contended>>
      /\ HalfFollowsCore /\ UpdateOdr(imuIsEnabled, imuSamplingPeriodNs')
  BY DEF SetRate, HalfFollowsCore, coreVars, historyVars
<1>2. /\ PowerInv /\ RateTypes /\ ServedIsIncluded /\ SamePeriods /\ StateTypes
      /\ call # Idle /\ call.todo \in Todos
  BY <1>1 DEF RateInv, PowerInv, StateTypes, Calls, Idle
<1>3. call'.op # "batch" /\ (call'.op = "activate" => call'.type = call.type /\ call'.step = "enable")
  BY <1>1, <1>2, ActivationGoesOn
<1>4. c \in Cores /\ mEnableState[c] \subseteq Types
  BY <1>2, ToSetOfTail DEF Core, StateTypes
<1>5. /\ OthersEnabled # {} => Half \in contended'
      /\ mSamplingPeriods' \in [Cores -> [Types -> {0} \union Periods]]
  BY <1>1, <1>2 DEF PowerInv, Uncontended, Switching, RateTypes
<1>6. /\ imuSamplingPeriodNs' \in [Indices -> Periods] /\ odr' \in Nat /\ OdrFollows' /\ UnusedIsSlow'
      /\ \A d \in Cores : \A u \in mEnableState[d] :
           d = c /\ mSamplingPeriods'[d][u] # 0 => Includes(d, u)'
      /\ \A d \in Cores, u \in Types :
           d # c /\ mIsEnabled[d] /\ mSamplingPeriods'[d][u] = mSamplingPeriods[d][u] /\ Includes(d, u)
             => Includes(d, u)'
      /\ odr' > odr /\ odr' > Hz(MaxSamplingRate) =>
           \E u \in mEnableState[c] : Hz(RoundedTo(mSamplingPeriods'[c][u])) = odr'
  BY <1>1, <1>2, <1>3, <1>5, HalfGoesBy
<1> HIDE DEF c
<1>7. RateTypes'
  BY <1>1, <1>2, <1>3, <1>5, <1>6 DEF RateTypes
<1>8. ASSUME NEW u \in served, NEW d \in CoresOf(u) PROVE Includes(d, u)'
  <2>1. /\ u \in Types /\ d \in Cores /\ Index[d] \in Indices /\ u \in mEnableState[d] /\ mIsEnabled[d]
        /\ Includes(d, u)
    BY <1>2, ServedAreOn DEF ServedIsIncluded
  <2>2. CASE d # c
    BY <1>1, <1>6, <2>1, <2>2
  <2>3. CASE d = c /\ Index[d] \in contended
    BY <1>1, <2>3 DEF Includes
  <2>4. CASE d = c /\ Index[d] \notin contended
    <3>1. imuSamplingPeriodNs[Index[d]] <= mSamplingPeriods[d][u] /\ imuSamplingPeriodNs[Index[d]] \in Periods
      BY <1>2, <2>1, <2>4 DEF Includes, RateTypes
    <3>2. mSamplingPeriods[d][u] # 0
      BY <3>1 DEF Periods, ImuAssumption
    <3> QED BY <1>1, <1>6, <2>1, <2>4, <3>2
  <2> QED BY <2>2, <2>3, <2>4
<1>9. ServedIsIncluded'
  BY <1>1, <1>2, <1>3, <1>8 DEF ServedIsIncluded, CoresOf
<1>10. SamePeriods'
  BY <1>1, <1>2, <1>3 DEF SamePeriods, PeriodOf, CoresOf
<1>11. Justified
  <2> SUFFICES ASSUME odr' > odr, odr' > Hz(MaxSamplingRate)
               PROVE  \E u \in enabledSensors : Hz(RoundedTo(PeriodOf(u)')) = odr'
    BY DEF Justified
  <2>1. PICK u \in mEnableState[c] : Hz(RoundedTo(mSamplingPeriods'[c][u])) = odr'
    BY <1>6
  <2>2. u \in Types /\ c \notin Pending(u)
    BY <1>1, <1>4 DEF Pending, c
  <2>3. u \in enabledSensors /\ c \in CoresOf(u)
    BY <1>2, <1>4, <2>2 DEF PowerInv, CoresFollow
  <2>4. mSamplingPeriods'[c][u] = PeriodOf(u)'
    BY <1>1, <1>2, <2>2, <2>3 DEF SamePeriods, PeriodOf
  <2> QED BY <2>1, <2>3, <2>4
<1> QED BY <1>6, <1>7, <1>9, <1>10, <1>11

(* A batch() goes on with its next core and the same period, or ends.      *)
LEMMA BatchGoesOn ==
  ASSUME PowerInv, call.op = "batch", CoreDone
  PROVE  \/ call' = Idle /\ ToSet(call.todo) = {Core}
         \/ /\ call'.op = "batch" /\ call'.type = call.type /\ call'.todo = Tail(call.todo)
            /\ call'.period = call.period
<1>1. call \in [op: {"batch"}, type: Types, period: Nat, todo: Todos, step: {"enable"}]
  BY DEF PowerInv, StateTypes, Calls, Idle
<1>2. call.todo \in Todos
  BY <1>1
<1>3. CASE Tail(call.todo) = <<>>
  BY <1>2, <1>3, ToSetOfTail DEF CoreDone, Core
<1>4. CASE Tail(call.todo) # <<>>
  BY <1>1, <1>4 DEF CoreDone
<1> QED BY <1>3, <1>4

(* SensorCore::batchByType: the core at hand takes the new period and      *)
(* keeps up with all sensors enabled on it.                                *)
LEMMA RateBatchByType ==
  ASSUME ImuAssumption, RatesAssumption, RateInv, BatchByType
  PROVE  /\ RateTypes' /\ OdrFollows' /\ UnusedIsSlow' /\ ServedIsIncluded' /\ SamePeriods'
         /\ Justified
<1> DEFINE c == Core
<1>1. PICK t \in Types, period \in Periods : call.type = t /\ call.period = period
  BY DEF BatchByType, RateInv, RateTypes, PowerInv, StateTypes, Calls, Idle
<1>2. /\ PowerInv /\ RateTypes /\ ServedIsIncluded /\ SamePeriods /\ StateTypes
      /\ call.op = "batch" /\ call # Idle /\ call.todo \in Todos /\ CoreDone
      /\ \A u \in Types : Pending(u) = {}
  BY DEF BatchByType, RateInv, PowerInv, StateTypes, Calls, Idle, Pending
<1>3. c \in Cores /\ mEnableState[c] \subseteq Types
  BY <1>2, ToSetOfTail DEF Core, StateTypes
<1>4. mSamplingPeriods \in [Cores -> [Types -> {0} \union Periods]] /\ imuSamplingPeriodNs \in [Indices -> Periods]
  BY <1>2 DEF RateTypes
<1>5. /\ mSamplingPeriods' = [mSamplingPeriods EXCEPT ![c] = [mSamplingPeriods[c] EXCEPT ![t] = period]]
      /\ UNCHANGED <<enabledSensors, mEnableState, mIsEnabled, imuIsEnabled>>
      /\ UpdateOdr(imuIsEnabled, imuSamplingPeriodNs')
      /\ imuSamplingPeriodNs' = [imuSamplingPeriodNs EXCEPT ![Half] =
           UsedSamplingPeriod(mEnableState[c], [mSamplingPeriods[c] EXCEPT ![t] = period])]
      /\ served' = IF Len(call.todo) = 1 THEN served \union ({t} \intersect enabledSensors) ELSE served
      /\ contended' = IF OthersEnabled # {} THEN contended \union {Half} ELSE contended
  BY <1>1 DEF BatchByType
<1>6. /\ mSamplingPeriods' \in [Cores -> [Types -> {0} \union Periods]]
      /\ mSamplingPeriods'[c] = [mSamplingPeriods[c] EXCEPT ![t] = period]
      /\ mSamplingPeriods'[c][t] = period
      /\ \A u \in Types : u # t => mSamplingPeriods'[c][u] = mSamplingPeriods[c][u]
      /\ \A d \in Cores : d # c => mSamplingPeriods'[d] = mSamplingPeriods[d]
  BY <1>3, <1>4, <1>5
<1>7. HalfFollowsCore
  BY <1>5, <1>6 DEF HalfFollowsCore
<1>8. (OthersEnabled # {} => Half \in contended') /\ \A j \in Indices : j \in contended => j \in contended'
  BY <1>5
<1>9. \/ call' = Idle /\ ToSet(call.todo) = {c}
      \/ call'.op = "batch" /\ call'.type = t /\ call'.todo = Tail(call.todo) /\ call'.period = period
  BY <1>1, <1>2, BatchGoesOn
<1>10. Idle.op = "idle"
  BY DEF Idle
<1>11. /\ imuSamplingPeriodNs' \in [Indices -> Periods] /\ odr' \in Nat /\ OdrFollows' /\ UnusedIsSlow'
       /\ \A d \in Cores : \A u \in mEnableState[d] :
            d = c /\ mSamplingPeriods'[d][u] # 0 => Includes(d, u)'
       /\ \A d \in Cores, u \in Types :
            d # c /\ mIsEnabled[d] /\ mSamplingPeriods'[d][u] = mSamplingPeriods[d][u] /\ Includes(d, u)
              => Includes(d, u)'
       /\ odr' > odr /\ odr' > Hz(MaxSamplingRate) =>
            \E u \in mEnableState[c] : Hz(RoundedTo(mSamplingPeriods'[c][u])) = odr'
  BY <1>2, <1>5, <1>6, <1>7, <1>8, <1>9, <1>10, HalfGoesBy
<1>12. ToSet(call.todo) = {c} \union ToSet(Tail(call.todo)) /\ c \in ToSet(call.todo)
  BY <1>2, ToSetOfTail DEF Core
<1> HIDE DEF c
<1>13. RateTypes'
  <2>1. served' \subseteq enabledSensors'
    BY <1>2, <1>5 DEF RateTypes
  <2> QED BY <1>6, <1>9, <1>10, <1>11, <2>1 DEF RateTypes
<1>14. \A u \in enabledSensors : u \in Types /\ \A d \in CoresOf(u) : d \in Cores /\ Index[d] \in Indices
                                   /\ u \in mEnableState[d] /\ mIsEnabled[d]
  <2> SUFFICES ASSUME NEW u \in enabledSensors, NEW d \in CoresOf(u)
               PROVE  u \in Types /\ d \in Cores /\ Index[d] \in Indices /\ u \in mEnableState[d] /\ mIsEnabled[d]
    BY <1>2 DEF StateTypes
  <2>1. u \in Types
    BY <1>2 DEF StateTypes
  <2>2. d \in Cores /\ Index[d] \in Indices
    BY <2>1, FirstIsACore DEF ImuAssumption
  <2>3. u \in mEnableState[d]
    BY <1>2, <2>1, <2>2 DEF PowerInv, CoresFollow
  <2> QED BY <1>2, <2>1, <2>2, <2>3 DEF PowerInv, HalvesFollow
<1>15. ASSUME NEW u \in enabledSensors, NEW d \in CoresOf(u), Includes(d, u) \/ (d = c /\ u = t)
       PROVE  Includes(d, u)'
  <2>1. u \in Types /\ d \in Cores /\ Index[d] \in Indices /\ u \in mEnableState[d] /\ mIsEnabled[d]
    BY <1>14
  <2>2. CASE d # c
    BY <1>6, <1>11, <1>15, <2>1, <2>2
  <2>3. CASE d = c /\ u = t
    <3>1. mSamplingPeriods'[d][u] = period
      BY <1>6, <2>3
    <3>2. period # 0
      BY DEF Periods, ImuAssumption
    <3> QED BY <1>11, <2>1, <2>3, <3>1, <3>2
  <2>4. CASE d = c /\ u # t /\ Index[d] \in contended
    BY <1>8, <2>1, <2>4 DEF Includes
  <2>5. CASE d = c /\ u # t /\ Index[d] \notin contended
    <3>1. imuSamplingPeriodNs[Index[d]] <= mSamplingPeriods[d][u] /\ imuSamplingPeriodNs[Index[d]] \in Periods
      BY <1>4, <1>15, <2>1, <2>5 DEF Includes
    <3>2. mSamplingPeriods[d][u] # 0
      BY <3>1 DEF Periods, ImuAssumption
    <3> QED BY <1>6, <1>11, <2>1, <2>5, <3>2
  <2> QED BY <2>2, <2>3, <2>4, <2>5
<1>16. ASSUME t \in enabledSensors, NEW d \in CoresOf(t), d = c \/ d \notin ToSet(call.todo)
       PROVE  Includes(d, t)'
  <2>1. d # c => Includes(d, t)
    BY <1>1, <1>2, <1>16 DEF ServedIsIncluded
  <2> QED BY <1>15, <1>16, <2>1
<1>17. ServedIsIncluded'
  <2>1. \A u \in served : \A d \in CoresOf(u) : Includes(d, u)'
    <3> SUFFICES ASSUME NEW u \in served, NEW d \in CoresOf(u) PROVE Includes(d, u)'
      OBVIOUS
    <3>1. u \in enabledSensors /\ Includes(d, u)
      BY <1>2 DEF RateTypes, ServedIsIncluded
    <3> QED BY <1>15, <3>1
  <2>2. CASE call' = Idle
    <3>1. served' \subseteq served \union ({t} \intersect enabledSensors)
      BY <1>5
    <3>2. \A u \in served' : \A d \in CoresOf(u) : Includes(d, u)'
      <4> SUFFICES ASSUME NEW u \in served', NEW d \in CoresOf(u), u \notin served PROVE Includes(d, u)'
        BY <2>1
      <4>1. u = t /\ t \in enabledSensors
        BY <3>1
      <4>2. d = c \/ d \notin ToSet(call.todo)
        BY <1>9, <1>10, <2>2
      <4> QED BY <1>16, <4>1, <4>2
    <3> QED BY <1>10, <2>2, <3>2 DEF ServedIsIncluded, CoresOf
  <2>3. CASE call'.op = "batch" /\ call'.type = t /\ call'.todo = Tail(call.todo) /\ call' # Idle
    <3>1. \A d \in CoresOf(t) \ ToSet(Tail(call.todo)) : t \in enabledSensors => Includes(d, t)'
      BY <1>12, <1>16
    <3>2. Len(call.todo) # 1
      <4>1. Tail(call.todo) # <<>>
        BY <1>2, <2>3 DEF CoreDone
      <4>2. call.todo \in Seq(Cores) /\ call.todo # <<>>
        BY <1>2 DEF Todos
      <4>3. Tail(call.todo) \in Seq(Cores) /\ Len(Tail(call.todo)) = Len(call.todo) - 1
        BY <4>2
      <4>4. Len(Tail(call.todo)) # 0
        BY <4>1, <4>3, EmptySeq
      <4> QED BY <4>3, <4>4
    <3>3. served' = served
      BY <1>5, <3>2
    <3> QED BY <1>5, <2>1, <2>3, <3>1, <3>3 DEF ServedIsIncluded, CoresOf
  <2> QED BY <1>9, <1>10, <2>2, <2>3
<1>18. \A u \in Types : PeriodOf(u)' = IF u = t THEN period ELSE PeriodOf(u)
  <2> SUFFICES ASSUME NEW u \in Types PROVE PeriodOf(u)' = IF u = t THEN period ELSE PeriodOf(u)
    OBVIOUS
  <2>1. PeriodOf(u)' = mSamplingPeriods'[Head(mDependencyList[u])][u] /\ Head(mDependencyList[u]) \in Cores
    BY FirstIsACore DEF PeriodOf
  <2>2. CASE u # t
    BY <1>6, <2>1, <2>2 DEF PeriodOf
  <2>3. CASE u = t
    <3>1. call.todo = mDependencyList[t] \/ PeriodOf(t) = period
      BY <1>1, <1>2 DEF SamePeriods
    <3>2. call.todo = mDependencyList[t] => Head(mDependencyList[t]) = c
      BY DEF c, Core
    <3> QED BY <1>6, <2>1, <2>3, <3>1, <3>2 DEF PeriodOf
  <2> QED BY <2>2, <2>3
<1>19. ASSUME NEW d \in CoresOf(t), d = c \/ d \notin ToSet(call.todo) PROVE mSamplingPeriods'[d][t] = period
  <2>1. d \in Cores
    BY FirstIsACore
  <2>2. d # c => mSamplingPeriods[d][t] = period
    BY <1>1, <1>2, <1>19 DEF SamePeriods
  <2> QED BY <1>6, <2>1, <2>2
<1>20. SamePeriods'
  <2>1. \A u \in Types : \A d \in CoresOf(u) : u # t => mSamplingPeriods'[d][u] = PeriodOf(u)'
    <3> SUFFICES ASSUME NEW u \in Types, NEW d \in CoresOf(u), u # t PROVE mSamplingPeriods'[d][u] = PeriodOf(u)'
      OBVIOUS
    <3>1. d \in Cores
      BY FirstIsACore
    <3>2. mSamplingPeriods[d][u] = PeriodOf(u)
      BY <1>1, <1>2 DEF SamePeriods
    <3> QED BY <1>6, <1>18, <3>1, <3>2
  <2>2. CASE call' = Idle
    <3>1. \A d \in CoresOf(t) : mSamplingPeriods'[d][t] = PeriodOf(t)'
      BY <1>9, <1>10, <1>18, <1>19, <2>2
    <3> QED BY <1>10, <2>1, <2>2, <3>1 DEF SamePeriods, CoresOf
  <2>3. CASE call'.op = "batch" /\ call'.type = t /\ call'.todo = Tail(call.todo) /\ call'.period = period
    <3>1. \A d \in CoresOf(t) \ ToSet(Tail(call.todo)) : mSamplingPeriods'[d][t] = period
      BY <1>12, <1>19
    <3>2. PeriodOf(t)' = period
      BY <1>18
    <3> QED BY <2>1, <2>3, <3>1, <3>2 DEF SamePeriods, CoresOf
  <2> QED BY <1>9, <2>2, <2>3
<1>21. Justified
  <2> SUFFICES ASSUME odr' > odr, odr' > Hz(MaxSamplingRate)
               PROVE  \E u \in enabledSensors : Hz(RoundedTo(PeriodOf(u)')) = odr'
    BY DEF Justified
  <2>1. PICK u \in mEnableState[c] : Hz(RoundedTo(mSamplingPeriods'[c][u])) = odr'
    BY <1>11
  <2>2. u \in Types /\ u \in enabledSensors /\ c \in CoresOf(u)
    BY <1>2, <1>3, <2>1 DEF PowerInv, CoresFollow
  <2>3. mSamplingPeriods'[c][u] = PeriodOf(u)'
    <3>1. u # t => mSamplingPeriods[c][u] = PeriodOf(u)
      BY <1>1, <1>2, <2>2 DEF SamePeriods
    <3> QED BY <1>6, <1>18, <2>2, <3>1
  <2> QED BY <2>1, <2>2, <2>3
<1> QED BY <1>11, <1>13, <1>17, <1>20, <1>21

LEMMA RateStep ==
  ASSUME ImuAssumption, RatesAssumption, RateInv, [Next]_vars
  PROVE  RateInv' /\ Justified
<1>1. PowerInv'
  BY NextKeeps DEF RateInv
<1>2. UNCHANGED odr => Justified
  BY DEF RateInv, RateTypes, Justified
<1>3. CASE \E t \in Types, enable \in BOOLEAN : Activate(t, enable)
  BY <1>1, <1>2, <1>3, RateActivate DEF RateInv, Activate, chipVars
<1>4. CASE \E t \in Types : \E period \in Requests[t] : Batch(t, period)
  BY <1>1, <1>2, <1>4, RateBatch DEF RateInv, Batch, chipVars
<1>5. CASE EnableCore
  BY <1>1, <1>5, RateEnableCore DEF RateInv
<1>6. CASE SwitchPower
  BY <1>1, <1>2, <1>6, RateSwitchPower DEF RateInv, SwitchPower
<1>7. CASE SetRate
  BY <1>1, <1>7, RateSetRate DEF RateInv
<1>8. CASE BatchByType
  BY <1>1, <1>8, RateBatchByType DEF RateInv
<1>9. CASE UNCHANGED vars
  <2>1. UNCHANGED <<enabledSensors, mSamplingPeriods, mIsEnabled, imuIsEnabled, imuSamplingPeriodNs, odr, call, served,
                    contended>>
    BY <1>9 DEF vars, coreVars, imuVars, chipVars, historyVars
  <2>2. RateTypes' /\ OdrFollows' /\ UnusedIsSlow'
    BY <2>1 DEF RateInv, RateTypes, OdrFollows, EnabledHalves, UnusedIsSlow, Unused, Switching, Half, Core
  <2>3. ServedIsIncluded' /\ SamePeriods'
    BY <2>1 DEF RateInv, ServedIsIncluded, SamePeriods, Includes, PeriodOf, CoresOf
  <2> QED BY <1>1, <1>2, <2>1, <2>2, <2>3 DEF RateInv
<1> QED BY <1>3, <1>4, <1>5, <1>6, <1>7, <1>8, <1>9 DEF Next

(* Which periods have been taken into account at which point of a call,    *)
(* for any sensors, composites and assignment of the cores to the halves   *)
(* (updateSamplingRate of cores and chip).                                 *)
THEOREM RateInvariant == Spec => []RateInv
<1>1. Init => RateInv
  BY RateInit, ImuAssumption, RatesAssumption
<1>2. RateInv /\ [Next]_vars => RateInv'
  BY RateStep, ImuAssumption, RatesAssumption
<1> QED BY <1>1, <1>2, PTL DEF Spec

(* A sensor whose period was taken into account while it was in use is     *)
(* read from a chip at least that fast, to whole hertz, until it is        *)
(* switched off, whatever other sensors ask for, as long as one half it    *)
(* works on has had no other core interfere (updateSamplingRate of cores   *)
(* and chip).                                                              *)
THEOREM ServedSensorsStayFast == Spec => []ServedStayFast
<1>1. ASSUME RateInv, ImuAssumption, RatesAssumption PROVE ServedStayFast
  <2> SUFFICES ASSUME call = Idle, NEW t \in served, ~(HalvesUsedBy(t) \subseteq contended)
               PROVE  odr >= Hz(PeriodOf(t))
    BY DEF ServedStayFast
  <2>1. PICK c \in CoresOf(t) : Index[c] \notin contended
    BY DEF HalvesUsedBy
  <2>2. PICK i \in Indices : i = Index[c]
    BY <1>1, <2>1, ServedAreOn
  <2>3. t \in Types /\ c \in Cores /\ mIsEnabled[c] /\ call.op # "batch"
    BY <1>1, <2>1, ServedAreOn DEF Idle
  <2>4. i \in EnabledHalves
    BY <1>1, <2>1, <2>2, <2>3 DEF RateInv, PowerInv, Uncontended, EnabledHalves
  <2>5. PICK p \in {0} \union Periods : p = PeriodOf(t) /\ p = mSamplingPeriods[c][t]
    BY <1>1, <2>1, <2>3 DEF RateInv, RateTypes, SamePeriods
  <2>6. imuSamplingPeriodNs \in [Indices -> Periods] /\ imuSamplingPeriodNs[i] <= p
    BY <1>1, <2>1, <2>2, <2>5 DEF RateInv, RateTypes, ServedIsIncluded, Includes
  <2>7. PICK f \in Periods : f = FastestOf(imuSamplingPeriodNs, EnabledHalves) /\ f <= imuSamplingPeriodNs[i]
    BY <1>1, <2>4, <2>6, FastestIsLeast DEF EnabledHalves
  <2>8. PICK r \in Periods : r = RoundedTo(f) /\ r <= f
    BY <1>1, RoundedIsFastEnough DEF Rates, Periods
  <2>9. p \in Periods /\ r <= p
    <3>1. r \in Nat /\ f \in Nat /\ p \in Nat /\ imuSamplingPeriodNs[i] \in Nat /\ r >= 1
      BY <1>1, <2>6 DEF Periods, ImuAssumption
    <3>2. r <= p /\ p # 0
      BY <2>6, <2>7, <2>8, <3>1
    <3> QED BY <3>2
  <2>10. Hz(p) <= Hz(r)
    BY <1>1, <2>9, HzIsAntitone
  <2>11. Hz(p) \in Nat /\ Hz(r) \in Nat
    BY <1>1, <2>9, HzIsNatural
  <2>12. odr = Hz(r)
    BY <1>1, <2>4, <2>7, <2>8 DEF RateInv, OdrFollows
  <2> QED BY <2>5, <2>10, <2>11, <2>12
<1>2. RateInv => ServedStayFast
  BY <1>1, ImuAssumption, RatesAssumption
<1> QED BY <1>2, RateInvariant, PTL

(* The chip is sped up only to the rate of a sensor that is in use, unless *)
(* cores contend for the half that was changed: the period of a sensor     *)
(* that is off, or of a half that is off, does not count                   *)
(* (updateSamplingRate of cores and chip).                                 *)
THEOREM SpedUpByUse == Spec => NotSpedUpByUnused
<1>1. RateInv /\ [Next]_vars => [Justified]_vars
  BY RateStep, ImuAssumption, RatesAssumption
<1>2. Spec => [][Justified]_vars
  BY <1>1, RateInvariant, PTL DEF Spec
<1> QED BY <1>2 DEF NotSpedUpByUnused, Justified

(* With one core for each half of the chip, as for the calibrated sensors  *)
(* alone, no half is ever contended for, and what is above holds without   *)
(* exception: a half is powered exactly while it is used, and every served *)
(* sensor stays fast.                                                      *)
THEOREM OneCoreIsNotContended ==
  ASSUME \A c, d \in Cores : Index[c] = Index[d] => c = d
  PROVE  Spec => [](contended = {})
<1>1. Init => contended = {}
  BY DEF Init
<1>2. ASSUME PowerInv, ImuAssumption, contended = {}, [Next]_vars PROVE contended' = {}
  <2>1. ASSUME call # Idle PROVE OthersEnabled = {}
    <3>1. call.todo \in Todos
      BY <1>2, <2>1 DEF PowerInv, StateTypes, Calls
    <3>2. Core \in Cores
      BY <3>1, ToSetOfTail DEF Core
    <3> QED BY <3>2 DEF OthersEnabled, Half
  <2>2. call.op \in {"activate", "batch"} => call # Idle
    BY DEF Idle
  <2>3. CASE EnableCore
    BY <1>2, <2>1, <2>2, <2>3 DEF EnableCore
  <2>4. CASE BatchByType
    BY <1>2, <2>1, <2>2, <2>4 DEF BatchByType
  <2>5. CASE UNCHANGED contended
    BY <1>2, <2>5
  <2> QED BY <1>2, <2>3, <2>4, <2>5 DEF Next, Activate, Batch, SwitchPower, SetRate, vars, historyVars
<1>3. PowerInv /\ contended = {} /\ [Next]_vars => (contended = {})'
  BY <1>2, ImuAssumption
<1> QED BY <1>1, <1>3, PowerInvariant, PTL DEF Spec
=============================================================================
