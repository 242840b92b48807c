---------------------- MODULE PrimaryDisplayVrr_proofs ----------------------
(***************************************************************************)
(* Theorems about the primary display and its controller: the display      *)
(* drives the controller as the controller's own specification allows, so  *)
(* that the controller's theorems hold of the two together, and the        *)
(* controller enforces the minimum rate and the delay the votes ask for.   *)
(***************************************************************************)
EXTENDS PrimaryDisplayVrr, VrrController_proofs

(* The calls of the display are calls the controller's HAL may make.       *)
CallsAreModelled ==
  /\ {0, DozeMinimumRate} \subseteq MinimumRate /\ 0 \in LockTime
  /\ TRUE \in EnableValue

DisplayTypeOK ==
  /\ hpc \in {"Idle", "FixDozeRate", "PreSet", "Switch", "PostSet", "FixMinimumRate"}
  /\ hpc # "Idle" => target \in PowerMode
  /\ mMinIdleRefreshRate \in MinimumRate /\ mRefreshRateDelayNanos \in LockTime
  /\ throttle = NoVote \/ throttle \in [step : {"Store"}, rate : MinimumRate]
  /\ delay = NoDelay \/ delay \in [step : {"Call", "Store"}, rate : MinimumRate, time : LockTime]

LEMMA RangeCalls ==
  ASSUME NEW r \in MinimumRate, NEW l \in LockTime, NEW ok \in WriteResult,
         CallSetFixedRefreshRateRange(r, l, ok)
  PROVE  [Next]_vars
BY DEF CallSetFixedRefreshRateRange, Next, HalCalls

LEMMA ModeCalls ==
  ASSUME NEW m \in PowerMode, CallPreSetPowerMode(m) \/ CallPostSetPowerMode(m)
  PROVE  [Next]_vars
BY DEF CallPreSetPowerMode, CallPostSetPowerMode, Next, HalCalls

LEMMA DisplayTypeStep ==
  ASSUME CallsAreModelled, DisplayTypeOK, [DisplayNext]_allVars
  PROVE  DisplayTypeOK'
<1> USE DEF displayVars, callVars
<1>1. ASSUME NEW m \in PowerMode, setPowerMode(m)
      PROVE  DisplayTypeOK'
  BY <1>1 DEF setPowerMode, DisplayTypeOK, MinIdleMutexFree
<1>2. CASE SetPowerModeSteps
  <2>1. /\ hpc # "Idle" /\ hpc' \in {"Idle", "FixDozeRate", "PreSet", "Switch", "PostSet", "FixMinimumRate"}
        /\ UNCHANGED <<target, throttle, delay, mMinIdleRefreshRate, mRefreshRateDelayNanos>>
    BY <1>2 DEF SetPowerModeSteps, FixDozeRate, PreSet, Switch, PostSet, RestoreMinimumRate
  <2> QED  BY <2>1 DEF DisplayTypeOK
<1>3. ASSUME NEW r \in MinimumRate, setMinIdleRefreshRate(r)
      PROVE  DisplayTypeOK'
  <2>1. /\ UNCHANGED <<hpc, target, delay, mRefreshRateDelayNanos>>
        /\ throttle = NoVote /\ mMinIdleRefreshRate' \in {r, mMinIdleRefreshRate}
        /\ throttle' \in {NoVote, throttle, [step |-> "Store", rate |-> r]}
    BY <1>3 DEF setMinIdleRefreshRate, MinIdleMutexFree
  <2> QED  BY <2>1 DEF DisplayTypeOK
<1>4. CASE StoreMinIdleRefreshRate
  <2>1. throttle # NoVote
    BY <1>4 DEF StoreMinIdleRefreshRate, NoVote
  <2> QED  BY <1>4, <2>1 DEF StoreMinIdleRefreshRate, DisplayTypeOK
<1>5. ASSUME NEW t \in LockTime, setRefreshRateThrottleNanos(t)
      PROVE  DisplayTypeOK'
  BY <1>5 DEF setRefreshRateThrottleNanos, DisplayTypeOK
<1>6. CASE CallWithDelay
  <2>1. delay # NoDelay
    BY <1>6 DEF CallWithDelay, NoDelay
  <2>2. delay' = [delay EXCEPT !.step = "Store"] \/ delay' = NoDelay
    BY <1>6 DEF CallWithDelay
  <2> QED  BY <1>6, <2>1, <2>2 DEF CallWithDelay, DisplayTypeOK
<1>7. CASE StoreDelay
  <2>1. delay # NoDelay
    BY <1>7 DEF StoreDelay, NoDelay
  <2> QED  BY <1>7, <2>1 DEF StoreDelay, DisplayTypeOK
<1>8. CASE Forwarded \/ UNCHANGED allVars
  BY <1>8 DEF Forwarded, DisplayTypeOK, allVars
<1> QED  BY <1>1, <1>2, <1>3, <1>4, <1>5, <1>6, <1>7, <1>8 DEF DisplayNext

LEMMA DisplayStepIsControllerStep ==
  ASSUME CallsAreModelled, DisplayTypeOK, [DisplayNext]_allVars
  PROVE  [Next]_vars
<1>1. ASSUME NEW m \in PowerMode, setPowerMode(m)
      PROVE  [Next]_vars
  BY <1>1 DEF setPowerMode
<1>2. CASE SetPowerModeSteps
  <2>1. target \in PowerMode
    BY <1>2 DEF SetPowerModeSteps, FixDozeRate, PreSet, Switch, PostSet, RestoreMinimumRate, DisplayTypeOK
  <2>2. CASE FixDozeRate
    BY <2>2, RangeCalls DEF FixDozeRate, CallsAreModelled
  <2>3. CASE PreSet \/ PostSet
    BY <2>1, <2>3, ModeCalls DEF PreSet, PostSet
  <2>4. CASE Switch
    BY <2>4 DEF Switch
  <2>5. CASE RestoreMinimumRate
    BY <2>5, RangeCalls DEF RestoreMinimumRate, DisplayTypeOK
  <2> QED  BY <1>2, <2>2, <2>3, <2>4, <2>5 DEF SetPowerModeSteps
<1>3. ASSUME NEW r \in MinimumRate, setMinIdleRefreshRate(r)
      PROVE  [Next]_vars
  BY <1>3, RangeCalls DEF setMinIdleRefreshRate, DisplayTypeOK
<1>4. CASE StoreMinIdleRefreshRate \/ StoreDelay
  BY <1>4 DEF StoreMinIdleRefreshRate, StoreDelay
<1>5. ASSUME NEW t \in LockTime, setRefreshRateThrottleNanos(t)
      PROVE  [Next]_vars
  BY <1>5 DEF setRefreshRateThrottleNanos
<1>6. CASE CallWithDelay
  <2>1. delay.rate \in MinimumRate /\ delay.time \in LockTime
    BY <1>6 DEF CallWithDelay, DisplayTypeOK, NoDelay
  <2> QED  BY <1>6, <2>1, RangeCalls DEF CallWithDelay
<1>7. CASE Forwarded
  BY <1>7 DEF Forwarded, Next, HalCalls, CallsAreModelled
<1>8. CASE UNCHANGED allVars
  BY <1>8 DEF allVars
<1> QED  BY <1>1, <1>2, <1>3, <1>4, <1>5, <1>6, <1>7, <1>8 DEF DisplayNext

LEMMA DisplayTypeCorrect ==
  ASSUME CallsAreModelled
  PROVE  DisplaySpec => []DisplayTypeOK
<1>1. DisplayInit => DisplayTypeOK
  BY DEF DisplayInit, DisplayTypeOK, CallsAreModelled
<1>2. DisplayTypeOK /\ [DisplayNext]_allVars => DisplayTypeOK'
  BY DisplayTypeStep
<1> QED  BY <1>1, <1>2, PTL DEF DisplaySpec

(* setPowerMode, the two throttles and the forwarded calls drive the       *)
(* controller only in ways the controller's specification allows: what is  *)
(* proved of the controller holds of the display with its controller.      *)
THEOREM TheDisplayDrivesTheController ==
  ASSUME CallsAreModelled
  PROVE  DisplaySpec => Spec
<1>1. DisplayInit => Init
  BY DEF DisplayInit
<1>2. DisplayTypeOK /\ [DisplayNext]_allVars => [Next]_vars
  BY DisplayStepIsControllerStep
<1> QED  BY <1>1, <1>2, DisplayTypeCorrect, PTL DEF DisplaySpec, Spec

(* Whatever the votes and power modes, the hardware controller of the      *)
(* display's panel keeps the auto mode.                                    *)
THEOREM TheDisplayKeepsAutoMode ==
  ASSUME CallsAreModelled, WriteMayFail = FALSE
  PROVE  DisplaySpec => []HardwareHasAutoMode
BY TheDisplayDrivesTheController, HardwareKeepsAutoMode

-----------------------------------------------------------------------------
(* VotesApplied. The calls exclude each other when the delay's mutex does  *)
(* not matter (DelayMayOverlap = FALSE); a call that has set the range and *)
(* not stored the vote yet has the controller at the vote it will store.   *)

Enforced(rate, time) ==
  \/ mMinimumRefreshRate = rate /\ mMaximumTimeout = time
  \/ mMinimumRefreshRate <= 1 /\ rate <= 1

OneCall ==
  /\ hpc # "Idle" => throttle = NoVote /\ delay = NoDelay
  /\ throttle = NoVote \/ delay = NoDelay

ModesAgree ==
  /\ hpc \in {"FixDozeRate", "PreSet", "Switch"} => mPowerModeState # target
  /\ hpc \in {"PostSet", "FixMinimumRate"} => mPowerModeState = target
  /\ hpc = "FixMinimumRate" => target = "Normal" /\ mPowerMode = target
  /\ hpc = "Idle" /\ mPowerModeState = target => mPowerMode = target
  /\ hpc = "PostSet" => target \in PowerMode

VotesInv ==
  /\ OneCall /\ ModesAgree /\ VotesApplied
  /\ throttle # NoVote => Enforced(throttle.rate, mRefreshRateDelayNanos)
  /\ delay # NoDelay => delay.rate = mMinIdleRefreshRate
  /\ delay # NoDelay /\ delay.step = "Store" => Enforced(delay.rate, delay.time)

LEMMA CallEnforces ==
  ASSUME NEW r \in MinimumRate, NEW l \in LockTime, CallSetFixedRefreshRateRange(r, l, TRUE)
  PROVE  Enforced(r, l)' /\ UNCHANGED mPowerMode
<1>0. r \in Nat
  BY ConfigAssumption
<1>1. CASE setFixedRefreshRateRange(r, l, TRUE)
  <2>1. UNCHANGED mPowerMode
    BY <1>1 DEF setFixedRefreshRateRange, modeVars
  <2>2. CASE FixMinimumRate(r, l, TRUE)
    BY <2>1, <2>2 DEF FixMinimumRate, Enforced
  <2>3. CASE UnsetMinimumRate(r, l, TRUE)
    BY <1>0, <2>1, <2>3 DEF UnsetMinimumRate, Enforced, isMinimumRefreshRateActive
  <2> QED  BY <1>1, <2>2, <2>3 DEF setFixedRefreshRateRange
<1>2. CASE IsEquivalentRange(r, l) /\ UNCHANGED vars
  BY <1>2 DEF IsEquivalentRange, Enforced, vars, rateVars, modeVars
<1> QED  BY <1>1, <1>2 DEF CallSetFixedRefreshRateRange

(* Nothing but setFixedRefreshRateRange changes the range.                 *)
LEMMA ForwardedKeeps ==
  ASSUME Forwarded
  PROVE  UNCHANGED <<mMinimumRefreshRate, mMaximumTimeout, mPowerMode>>
<1> USE DEF rateVars, modeVars
<1>1. CASE Present
  BY <1>1 DEF Present, PresentUnlocked, setExpectedPresentTime, onPresentDisabled, onPresentAtMinimumRate,
              onPresentBegin, presentTakeFence, presentCloseFence, onPresentEnd
<1>2. CASE Thread
  BY <1>2 DEF Thread, ThreadExit, WaitForEnable, Continue, WaitForEvent, WaitForDueTime, ThreadUnchanged,
              OnVendorTimeoutInit, OnVendorTimeoutPost, OnSystemTimeout, OnNotifyExpectedPresent,
              OnHibernateTimeout, OnUpdateDbi, OnCalculator, OnMinLock, threadTakeFence, threadCloseFence
<1>3. CASE SpuriousWakeup \/ Tick
  BY <1>3 DEF SpuriousWakeup, ThreadUnchanged, Tick
<1>4. CASE \/ notifyExpectedPresent \/ (\E c \in Config : setActiveVrrConfiguration(c)) \/ setEnable(TRUE)
           \/ (\E t \in ControllerType : setPresentTimeoutController(t))
  BY <1>4 DEF notifyExpectedPresent, setActiveVrrConfiguration, setEnable, setPresentTimeoutController
<1> QED  BY <1>1, <1>2, <1>3, <1>4 DEF Forwarded

LEMMA SetPowerModeKeepsVotes ==
  ASSUME CallsAreModelled, WriteMayFail = FALSE, DisplayTypeOK, VotesInv, SetPowerModeSteps
  PROVE  VotesInv'
<1> USE DEF displayVars, callVars
<1>0. /\ hpc # "Idle" /\ throttle = NoVote /\ delay = NoDelay
      /\ UNCHANGED <<throttle, delay, target, mMinIdleRefreshRate, mRefreshRateDelayNanos>>
  BY DEF SetPowerModeSteps, FixDozeRate, PreSet, Switch, PostSet, RestoreMinimumRate, VotesInv, OneCall
<1>1. SUFFICES ModesAgree' /\ VotesApplied'
  BY <1>0 DEF VotesInv, OneCall
<1>2. CASE FixDozeRate
  BY <1>0, <1>2 DEF FixDozeRate, VotesInv, ModesAgree, VotesApplied, Quiet
<1>3. CASE PreSet
  BY <1>0, <1>3 DEF PreSet, VotesInv, ModesAgree, VotesApplied, Quiet
<1>4. CASE Switch
  <2>1. target \in PowerMode /\ mPowerModeState # target
    BY <1>0, <1>4 DEF Switch, VotesInv, ModesAgree, DisplayTypeOK
  <2> QED  BY <1>0, <1>4, <2>1 DEF Switch, ModesAgree, VotesApplied, Quiet
<1>5. CASE PostSet
  <2>1. mPowerModeState' = target /\ target \in PowerMode
    BY <1>5 DEF PostSet, VotesInv, ModesAgree
  <2>2. mPowerMode' = target
    BY <1>5 DEF PostSet, CallPostSetPowerMode, postSetPowerMode, vars, modeVars
  <2>3. hpc' = IF target = "Normal" THEN "FixMinimumRate" ELSE "Idle"
    BY <1>5 DEF PostSet
  <2> QED  BY <1>0, <2>1, <2>2, <2>3 DEF ModesAgree, VotesApplied, Quiet
<1>6. CASE RestoreMinimumRate
  <2>1. mMinIdleRefreshRate \in MinimumRate /\ mRefreshRateDelayNanos \in LockTime
    BY DEF DisplayTypeOK
  <2>2. CallSetFixedRefreshRateRange(mMinIdleRefreshRate, mRefreshRateDelayNanos, TRUE)
    BY <1>6 DEF RestoreMinimumRate, WriteResult
  <2>3. Enforced(mMinIdleRefreshRate, mRefreshRateDelayNanos)'
    BY <1>0, <2>1, <2>2, CallEnforces DEF Enforced
  <2>4. mPowerMode' = mPowerMode
    BY <2>1, <2>2, CallEnforces
  <2> QED
    BY <1>0, <1>6, <2>3, <2>4 DEF RestoreMinimumRate, VotesInv, ModesAgree, VotesApplied, Quiet, Enforced
<1> QED  BY <1>2, <1>3, <1>4, <1>5, <1>6 DEF SetPowerModeSteps

LEMMA VotingKeepsVotes ==
  ASSUME CallsAreModelled, WriteMayFail = FALSE, DelayMayOverlap = FALSE, DisplayTypeOK, VotesInv,
         NEW r \in MinimumRate, setMinIdleRefreshRate(r)
  PROVE  VotesInv'
<1> USE DEF displayVars, callVars
<1>1. /\ hpc = "Idle" /\ throttle = NoVote /\ delay = NoDelay
      /\ UNCHANGED <<mPowerModeState, mRefreshRateDelayNanos, hpc, target, delay>>
  BY DEF setMinIdleRefreshRate, MinIdleMutexFree, NoDelayInProgress
<1>2. CASE InDoze /\ r # DozeMinimumRate
  <2>1. UNCHANGED <<vars, throttle>> /\ mPowerModeState = "Doze"
    BY <1>2 DEF setMinIdleRefreshRate, InDoze
  <2>2. mPowerModeState = target => mPowerMode # "Normal"
    BY <1>1, <2>1 DEF VotesInv, ModesAgree
  <2> QED  BY <1>1, <2>1, <2>2 DEF VotesInv, OneCall, ModesAgree, VotesApplied, vars, modeVars
<1>3. CASE ~(InDoze /\ r # DozeMinimumRate)
  <2>1. /\ CallSetFixedRefreshRateRange(r, mRefreshRateDelayNanos, TRUE)
        /\ throttle' = [step |-> "Store", rate |-> r] /\ UNCHANGED mMinIdleRefreshRate
    BY <1>3 DEF setMinIdleRefreshRate, WriteResult
  <2>2. Enforced(r, mRefreshRateDelayNanos)' /\ UNCHANGED mPowerMode
    BY <1>1, <2>1, CallEnforces DEF DisplayTypeOK, Enforced
  <2>3. throttle' # NoVote /\ throttle'.rate = r
    BY <2>1 DEF NoVote
  <2>4. Enforced(throttle.rate, mRefreshRateDelayNanos)'
    BY <2>2, <2>3 DEF Enforced
  <2> QED  BY <1>1, <2>2, <2>3, <2>4 DEF VotesInv, OneCall, ModesAgree, VotesApplied, Quiet, Enforced
<1> QED  BY <1>2, <1>3

(* The steps of setRefreshRateThrottleNanos.                               *)
DelaySteps ==
  \/ \E t \in LockTime : setRefreshRateThrottleNanos(t)
  \/ CallWithDelay \/ StoreDelay

LEMMA DelayKeepsVotes ==
  ASSUME CallsAreModelled, WriteMayFail = FALSE, DelayMayOverlap = FALSE, DisplayTypeOK, VotesInv, DelaySteps
  PROVE  VotesInv'
<1> USE DEF displayVars, callVars
<1>1. ASSUME NEW t \in LockTime, setRefreshRateThrottleNanos(t)
      PROVE  VotesInv'
  <2>1. hpc = "Idle" /\ throttle = NoVote /\ UNCHANGED <<vars, displayVars, hpc, target, throttle>>
    BY <1>1 DEF setRefreshRateThrottleNanos, MinIdleMutexFree
  <2>2. delay' = [step |-> "Call", rate |-> mMinIdleRefreshRate, time |-> t]
    BY <1>1 DEF setRefreshRateThrottleNanos
  <2>3. delay' # NoDelay /\ delay'.step = "Call" /\ delay'.rate = mMinIdleRefreshRate
    BY <2>2 DEF NoDelay
  <2> QED  BY <2>1, <2>3 DEF VotesInv, OneCall, ModesAgree, VotesApplied, Quiet, Enforced, vars, modeVars
<1>2. CASE CallWithDelay
  <2>1. /\ delay.step = "Call" /\ delay # NoDelay
        /\ UNCHANGED <<displayVars, hpc, target, throttle>>
    BY <1>2 DEF CallWithDelay, NoDelay
  <2>2. /\ hpc = "Idle" /\ throttle = NoVote /\ delay.rate = mMinIdleRefreshRate
        /\ delay \in [step : {"Call", "Store"}, rate : MinimumRate, time : LockTime]
    BY <2>1 DEF VotesInv, OneCall, DisplayTypeOK
  <2>3. CallSetFixedRefreshRateRange(delay.rate, delay.time, TRUE) /\ delay' = [delay EXCEPT !.step = "Store"]
    BY <1>2 DEF CallWithDelay, WriteResult
  <2>4. delay'.rate = delay.rate /\ delay'.time = delay.time /\ delay'.step = "Store" /\ delay' # NoDelay
    BY <2>2, <2>3 DEF NoDelay
  <2>5. delay.rate \in MinimumRate /\ delay.time \in LockTime
    BY <2>2
  <2>6. Enforced(delay.rate, delay.time)' /\ UNCHANGED mPowerMode
    BY <2>3, <2>5, CallEnforces, <2>4 DEF Enforced
  <2> QED  BY <2>1, <2>2, <2>4, <2>6 DEF VotesInv, OneCall, ModesAgree, VotesApplied, Quiet
<1>3. CASE StoreDelay
  <2>1. /\ delay.step = "Store" /\ delay # NoDelay /\ delay' = NoDelay
        /\ mRefreshRateDelayNanos' = delay.time
        /\ UNCHANGED <<vars, mPowerModeState, mMinIdleRefreshRate, hpc, target, throttle>>
    BY <1>3 DEF StoreDelay, NoDelay
  <2>2. hpc = "Idle" /\ throttle = NoVote /\ Enforced(mMinIdleRefreshRate, delay.time)
    BY <2>1 DEF VotesInv, OneCall
  <2> QED
    BY <2>1, <2>2 DEF VotesInv, OneCall, ModesAgree, VotesApplied, Quiet, Enforced, vars, modeVars, rateVars
<1> QED  BY <1>1, <1>2, <1>3 DEF DelaySteps

(* Whenever no call is in progress and the display is on, the controller   *)
(* enforces the minimum idle rate and the delay of the votes, if the calls *)
(* do not overlap and the writes of the panel's node succeed.              *)
THEOREM VotesAreApplied ==
  ASSUME CallsAreModelled, WriteMayFail = FALSE, DelayMayOverlap = FALSE
  PROVE  DisplaySpec => []VotesApplied
<1>1. DisplayInit => VotesInv
  BY DEF DisplayInit, Init, VotesInv, OneCall, ModesAgree, VotesApplied
<1>2. DisplayTypeOK /\ VotesInv /\ [DisplayNext]_allVars => VotesInv'
  <2> SUFFICES ASSUME DisplayTypeOK, VotesInv, [DisplayNext]_allVars
               PROVE  VotesInv'
    OBVIOUS
  <2> USE DEF displayVars, callVars
  <2>1. ASSUME NEW m \in PowerMode, setPowerMode(m)
        PROVE  VotesInv'
    <3>1. /\ hpc = "Idle" /\ hpc' \in {"FixDozeRate", "PreSet"} /\ throttle = NoVote /\ delay = NoDelay
          /\ mPowerModeState # m /\ target' = m
          /\ UNCHANGED <<mPowerMode, mPowerModeState, throttle, delay>>
      BY <2>1 DEF setPowerMode, MinIdleMutexFree, NoDelayInProgress, vars, modeVars
    <3> QED  BY <3>1 DEF VotesInv, OneCall, ModesAgree, VotesApplied, Quiet
  <2>2. CASE StoreMinIdleRefreshRate
    <3>1. /\ throttle # NoVote /\ throttle' = NoVote /\ mMinIdleRefreshRate' = throttle.rate
          /\ UNCHANGED <<vars, mPowerModeState, mRefreshRateDelayNanos, hpc, target, delay>>
      BY <2>2 DEF StoreMinIdleRefreshRate, NoVote
    <3>2. hpc = "Idle" /\ delay = NoDelay /\ Enforced(throttle.rate, mRefreshRateDelayNanos)
      BY <3>1 DEF VotesInv, OneCall
    <3> QED
      BY <3>1, <3>2 DEF VotesInv, OneCall, ModesAgree, VotesApplied, Quiet, Enforced, vars, modeVars, rateVars
  <2>3. CASE Forwarded
    <3>1. UNCHANGED <<mMinimumRefreshRate, mMaximumTimeout, mPowerMode, displayVars, callVars>>
      BY <2>3, ForwardedKeeps DEF Forwarded
    <3> QED  BY <3>1 DEF VotesInv, OneCall, ModesAgree, VotesApplied, Quiet, Enforced
  <2>4. CASE UNCHANGED allVars
    BY <2>4 DEF allVars, vars, modeVars, rateVars, VotesInv, OneCall, ModesAgree, VotesApplied, Quiet, Enforced
  <2> QED
    BY <2>1, <2>2, <2>3, <2>4, SetPowerModeKeepsVotes, VotingKeepsVotes, DelayKeepsVotes
       DEF DisplayNext, DelaySteps
<1>3. VotesInv => VotesApplied
  BY DEF VotesInv
<1> QED  BY <1>1, <1>2, <1>3, DisplayTypeCorrect, PTL DEF DisplaySpec
=============================================================================
