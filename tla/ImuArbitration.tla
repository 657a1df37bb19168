--------------------------- MODULE ImuArbitration ---------------------------
(***************************************************************************)
(* One SMI330 chip shared by several sensors: each physical sensor is a    *)
(* SensorCore (core/SensorCore.cpp), a composite sensor registers its type *)
(* with the cores it depends on (core/CompositeSensors.cpp), and the cores *)
(* drive the two halves of one Smi330Imu (sensors/SMI330.cpp), which have  *)
(* a power switch each and one output data rate between them.  A half may  *)
(* have several cores: the list of sensors gives it a calibrated and an    *)
(* uncalibrated one, which write the same flag, period and switch.         *)
(*                                                                         *)
(* The binder thread serves one call at a time and goes through a          *)
(* composite's cores one after the other.  A step ends with a write to     *)
(* sysfs: the chip is in the state between two of them for up to 200 ms.   *)
(***************************************************************************)
EXTENDS Integers, FiniteSets, Sequences, FiniteSetsExt, SequencesExt

CONSTANTS
  Types,         (* BoschSensorType: the sensors on the chip               *)
  Cores,         (* the SensorCore objects                                 *)
  mDependencyList,  (* of each type, the cores it works on, in order       *)
  Index,         (* of each core, the half of the chip: Smi330Imu::Index   *)
  Requests,      (* of each type, the clamped sampling periods             *)
  MinSamplingRate, MaxSamplingRate,  (* mMinSamplingRateNs, mMaxSamplingRateNs *)
  OneSecond      (* 1e9, in the unit of the periods                        *)

Indices == {"ACCEL", "GYRO"}

ASSUME ImuAssumption ==
  /\ mDependencyList \in [Types -> Seq(Cores)]
  /\ \A t \in Types : mDependencyList[t] # <<>>
  /\ Index \in [Cores -> Indices]
  /\ MinSamplingRate \in Nat \ {0} /\ MaxSamplingRate \in Nat /\ OneSecond \in Nat
  /\ Requests \in [Types -> SUBSET (MinSamplingRate..MaxSamplingRate)]

VARIABLES
  enabledSensors,      (* the types whose Sensor::mIsEnabled is set        *)
  mEnableState,        (* of each core, the types it is enabled for        *)
  mSamplingPeriods,    (* of each core and type, 0 when it has no entry    *)
  mIsEnabled,          (* of each core                                     *)
  imuIsEnabled, imuSamplingPeriodNs,   (* Smi330Imu, of each index         *)
  powerMode,           (* of each index: the sysfs power switch            *)
  odr,                 (* the sysfs output data rate, 0 before any         *)
  call,                (* what the binder thread is doing                  *)
  served,              (* history: types that set their period while in use *)
  contended            (* history: the halves that one core has written to *)
                       (* while another was enabled, until none is         *)

coreVars == <<mEnableState, mSamplingPeriods, mIsEnabled>>
imuVars == <<imuIsEnabled, imuSamplingPeriodNs>>
chipVars == <<powerMode, odr>>
historyVars == <<served, contended>>
vars == <<enabledSensors, coreVars, imuVars, chipVars, call, historyVars>>

-----------------------------------------------------------------------------
(* Smi330Imu                                                               *)

(* The periods the chip offers: mMaxSamplingRateNs halved and halved again. *)
Rates ==
  LET halved[k \in 0..MaxSamplingRate] ==
        IF k = 0 THEN MaxSamplingRate ELSE halved[k - 1] \div 2
  IN {halved[k] : k \in 0..MaxSamplingRate} \intersect (MinSamplingRate..MaxSamplingRate)

(* The slowest of them that is fast enough; the slowest of all if none is. *)
RoundedTo(period) ==
  LET fastEnough == {p \in Rates : period >= p}
  IN IF fastEnough = {} THEN MaxSamplingRate ELSE Max(fastEnough)

FastestOf_AccelFirst(periods, indices) ==
  IF "ACCEL" \in indices THEN periods["ACCEL"] ELSE periods["GYRO"]

FastestOf(periods, indices) == Min({periods[i] : i \in indices})

(* The fastest and the slowest rate are among them: 1.28 s halved nine     *)
(* times is 2.5 ms.                                                        *)
ASSUME RatesAssumption == {MinSamplingRate, MaxSamplingRate} \subseteq Rates

(* The rate is written in whole hertz: 1e9 / samplingRate, as an int64_t.  *)
Hz(period) == OneSecond \div period

(* Smi330Imu::updateSamplingRate, which does nothing when both halves are off. *)
UpdateOdr(isEnabled, periods) ==
  LET indices == {i \in Indices : isEnabled[i]}
  IN odr' = IF indices = {} THEN odr ELSE Hz(RoundedTo(FastestOf(periods, indices)))

-----------------------------------------------------------------------------
(* SensorCore                                                              *)

AnyEnabled_LastOnly(types, enable) == enable

(* std::any_of(mEnableState)                                               *)
AnyEnabled(types, enable) == types # {}

UsedSamplingPeriod_OfAll(types, periods) ==
  Min({periods[t] : t \in {u \in Types : periods[u] # 0}} \union {MaxSamplingRate})

(* SensorCore::updateSamplingRate: maxDelay unless a type needs it faster. *)
UsedSamplingPeriod(types, periods) ==
  Min({periods[t] : t \in {u \in types : periods[u] # 0}} \union {MaxSamplingRate})

Idle == [op |-> "idle"]

Core == Head(call.todo)

CoreDone ==
  call' = IF Tail(call.todo) = <<>> THEN Idle
          ELSE [call EXCEPT !.todo = Tail(@), !.step = "enable"]

Half == Index[Core]

OthersEnabled == {c \in Cores \ {Core} : Index[c] = Half /\ mIsEnabled[c]}

(* SensorCore::activateByType, and setPowerMode up to the write of the     *)
(* rate, for which the half still has its old period; a core that stays    *)
(* enabled, or disabled, does nothing more.                                *)
EnableCore ==
  /\ call.op = "activate" /\ call.step = "enable"
  /\ LET types == IF call.enable THEN mEnableState[Core] \union {call.type}
                   ELSE mEnableState[Core] \ {call.type}
         isEnabled == AnyEnabled(types, call.enable)
     IN /\ mEnableState' = [mEnableState EXCEPT ![Core] = types]
        /\ \/ /\ isEnabled = mIsEnabled[Core]
              /\ CoreDone
              /\ UNCHANGED <<mIsEnabled, imuIsEnabled, odr, contended>>
           \/ /\ isEnabled # mIsEnabled[Core]
              /\ mIsEnabled' = [mIsEnabled EXCEPT ![Core] = isEnabled]
              /\ imuIsEnabled' = [imuIsEnabled EXCEPT ![Half] = isEnabled]
              /\ UpdateOdr(imuIsEnabled', imuSamplingPeriodNs)
              /\ contended' = IF OthersEnabled # {} THEN contended \union {Half}
                              ELSE contended \ {Half}
              /\ call' = [call EXCEPT !.step = "power"]
  /\ UNCHANGED <<enabledSensors, mSamplingPeriods, imuSamplingPeriodNs, powerMode, served>>

(* The rest of setPowerMode: the power switch, and 200 ms of sleep.        *)
SwitchPower ==
  /\ call.op = "activate" /\ call.step = "power"
  /\ powerMode' = [powerMode EXCEPT ![Half] = mIsEnabled[Core]]
  /\ call' = [call EXCEPT !.step = "rate"]
  /\ UNCHANGED <<enabledSensors, coreVars, imuVars, odr, historyVars>>

(* The end of activateByType: updateSamplingRate with setSamplingRate.     *)
SetRate ==
  /\ call.op = "activate" /\ call.step = "rate"
  /\ imuSamplingPeriodNs' = [imuSamplingPeriodNs EXCEPT ![Half] =
       UsedSamplingPeriod(mEnableState[Core], mSamplingPeriods[Core])]
  /\ UpdateOdr(imuIsEnabled, imuSamplingPeriodNs')
  /\ CoreDone
  /\ UNCHANGED <<enabledSensors, coreVars, imuIsEnabled, powerMode, historyVars>>

(* SensorCore::batchByType                                                 *)
BatchByType ==
  /\ call.op = "batch"
  /\ LET periods == [mSamplingPeriods[Core] EXCEPT ![call.type] = call.period]
     IN /\ mSamplingPeriods' = [mSamplingPeriods EXCEPT ![Core] = periods]
        /\ imuSamplingPeriodNs' = [imuSamplingPeriodNs EXCEPT ![Half] =
             UsedSamplingPeriod(mEnableState[Core], periods)]
        /\ UpdateOdr(imuIsEnabled, imuSamplingPeriodNs')
  /\ CoreDone
  /\ served' = IF Len(call.todo) = 1 THEN served \union ({call.type} \intersect enabledSensors) ELSE served
  /\ contended' = IF OthersEnabled # {} THEN contended \union {Half} ELSE contended
  /\ UNCHANGED <<enabledSensors, mEnableState, mIsEnabled, imuIsEnabled, powerMode>>

-----------------------------------------------------------------------------
(* Sensor::activate, once the enabled flag changes.                        *)
Activate(t, enable) ==
  /\ call = Idle
  /\ (t \in enabledSensors) # enable
  /\ enabledSensors' = IF enable THEN enabledSensors \union {t} ELSE enabledSensors \ {t}
  /\ served' = served \ {t}
  /\ call' = [op |-> "activate", type |-> t, enable |-> enable,
              todo |-> mDependencyList[t], step |-> "enable"]
  /\ UNCHANGED <<coreVars, imuVars, chipVars, contended>>

(* Sensor::batch, when no direct report needs the sensor faster.           *)
Batch(t, period) ==
  /\ call = Idle
  /\ call' = [op |-> "batch", type |-> t, period |-> period,
              todo |-> mDependencyList[t], step |-> "enable"]
  /\ UNCHANGED <<enabledSensors, coreVars, imuVars, chipVars, historyVars>>

Init ==
  /\ enabledSensors = {}
  /\ mEnableState = [c \in Cores |-> {}]
  /\ mSamplingPeriods = [c \in Cores |-> [t \in Types |-> 0]]
  /\ mIsEnabled = [c \in Cores |-> FALSE]
  /\ imuIsEnabled = [i \in Indices |-> FALSE]
  /\ imuSamplingPeriodNs = [i \in Indices |-> MaxSamplingRate]
  /\ powerMode = [i \in Indices |-> FALSE]
  /\ odr = 0
  /\ call = Idle
  /\ served = {}
  /\ contended = {}

Next ==
  \/ \E t \in Types, enable \in BOOLEAN : Activate(t, enable)
  \/ \E t \in Types : \E period \in Requests[t] : Batch(t, period)
  \/ EnableCore
  \/ SwitchPower
  \/ SetRate
  \/ BatchByType

Spec == Init /\ [][Next]_vars

-----------------------------------------------------------------------------
TypeOK ==
  /\ enabledSensors \subseteq Types
  /\ mEnableState \in [Cores -> SUBSET Types]
  /\ mSamplingPeriods \in [Cores -> [Types -> 0..MaxSamplingRate]]
  /\ mIsEnabled \in [Cores -> BOOLEAN]
  /\ imuIsEnabled \in [Indices -> BOOLEAN]
  /\ imuSamplingPeriodNs \in [Indices -> MinSamplingRate..MaxSamplingRate]
  /\ powerMode \in [Indices -> BOOLEAN]
  /\ odr \in {0} \union {Hz(p) : p \in Rates}
  /\ served \subseteq enabledSensors
  /\ contended \subseteq Indices
  /\ call # Idle => /\ call.op \in {"activate", "batch"} /\ call.type \in Types
                    /\ call.todo \in Seq(Cores) \ {<<>>}
                    /\ call.step \in {"enable", "power", "rate"}

CoresOf(t) == ToSet(mDependencyList[t])

HalvesUsedBy(t) == {Index[c] : c \in CoresOf(t)}

PeriodOf(t) == mSamplingPeriods[Head(mDependencyList[t])][t]

(* "The Android HAL is generic and supports all implemented sensors        *)
(* simultaneously" (README.md:12): whenever no call is being served, every *)
(* half of the chip that a sensor in use works on is powered.  It is not   *)
(* so: switching an uncalibrated sensor off also powers the calibrated one *)
(* down, since the cores of a half share one flag and one switch, and      *)
(* nobody counts them (Smi330Imu::setPowerMode).                           *)
PoweredWhileUsed ==
  call = Idle => \A t \in enabledSensors : \A i \in HalvesUsedBy(t) : powerMode[i]

(* What does hold: a half that nobody uses is not left powered, whatever   *)
(* the cores do to each other, and a half on which no core has interfered  *)
(* with another is powered while a sensor in use works on it, be it a      *)
(* sensor of its own or a composite (activateByType, setPowerMode).        *)
PowerFollowsUse ==
  call = Idle =>
    \A i \in Indices :
      LET used == \E t \in enabledSensors : i \in HalvesUsedBy(t)
      IN /\ powerMode[i] => used
         /\ used /\ i \notin contended => powerMode[i]

(* A sensor that set its period while in use samples at least that fast,   *)
(* to whole hertz, until it is switched off, whatever other sensors on the *)
(* same core, on the other half of the chip or made of both ask for: the   *)
(* minimum is taken over types (updateSamplingRate) and over halves        *)
(* (Smi330Imu).  One half on which no other core interferes is enough.     *)
ServedStayFast ==
  call = Idle =>
    \A t \in served : ~(HalvesUsedBy(t) \subseteq contended) => odr >= Hz(PeriodOf(t))

(* Above the slowest rate, the chip is never asked for one that no sensor  *)
(* in use has asked for: it is not sped up by the periods of sensors that  *)
(* are off, not even between the writes of one call, unless this comes     *)
(* from a half that cores contend for, whose period may be another core's. *)
NotSpedUpByUnused ==
  [][odr' > odr /\ odr' > Hz(MaxSamplingRate) =>
       \/ \E t \in enabledSensors : Hz(RoundedTo(PeriodOf(t)')) = odr'
       \/ Half \in contended]_vars
=============================================================================
