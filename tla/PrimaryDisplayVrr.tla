-------------------------- MODULE PrimaryDisplayVrr --------------------------
(***************************************************************************)
(* How the primary display (libmaindisplay/ExynosPrimaryDisplay.cpp) drives *)
(* its variable refresh rate controller: the steps of setPowerMode in the   *)
(* order of the code, and the two throttles setMinIdleRefreshRate and      *)
(* setRefreshRateThrottleNanos, which run on other threads under other     *)
(* mutexes.  Everything else calls the controller as before.               *)
(***************************************************************************)
EXTENDS VrrController

CONSTANTS
    DozeMayFail,     \* may setPowerDoze return HWC2_ERROR_UNSUPPORTED?
    DelayMayOverlap  \* may setRefreshRateThrottleNanos run while one of the others does?

ASSUME DisplayAssumption == DozeMayFail \in BOOLEAN /\ DelayMayOverlap \in BOOLEAN

VARIABLES
    mPowerModeState,        \* of the display; "Unset" before the first setPowerMode
    mMinIdleRefreshRate,    \* the largest vote of the minimum idle rate
    mRefreshRateDelayNanos, \* the largest vote of the delay
    hpc, target,            \* where setPowerMode is, and its argument
    throttle,               \* what setMinIdleRefreshRate has still to store
    delay                   \* the arguments setRefreshRateThrottleNanos has read

displayVars == <<mPowerModeState, mMinIdleRefreshRate, mRefreshRateDelayNanos>>
callVars == <<hpc, target, throttle, delay>>
allVars == <<vars, displayVars, callVars>>

DozeMinimumRate == 1  \* kMinIdleRefreshRateForDozeMode

NoVote == [step |-> "Idle", rate |-> 0]
NoDelay == [step |-> "Idle", rate |-> 0, time |-> 0]

DisplayInit ==
    /\ Init
    /\ mPowerModeState = "Unset" /\ mMinIdleRefreshRate = 0 /\ mRefreshRateDelayNanos = 0
    /\ hpc = "Idle" /\ target = "Unset"
    /\ throttle = NoVote /\ delay = NoDelay

-----------------------------------------------------------------------------
(* Calls of the controller that may return early.                          *)

CallSetFixedRefreshRateRange(rate, lockTime, ok) ==
    \/ setFixedRefreshRateRange(rate, lockTime, ok)
    \/ ok /\ IsEquivalentRange(rate, lockTime) /\ UNCHANGED vars

CallPreSetPowerMode(mode) ==
    \/ preSetPowerMode(mode)
    \/ (mPowerMode = mode \/ mode = "Off") /\ UNCHANGED vars

CallPostSetPowerMode(mode) ==
    \/ postSetPowerMode(mode)
    \/ mPowerMode = mode /\ UNCHANGED vars

-----------------------------------------------------------------------------
(* setPowerMode. From the doze call on it holds mMinIdleRefreshRateMutex.  *)

MinIdleMutexFree == hpc = "Idle" /\ throttle = NoVote
NoDelayInProgress == DelayMayOverlap \/ delay = NoDelay

setPowerMode(mode) ==
    /\ MinIdleMutexFree /\ NoDelayInProgress
    /\ mPowerModeState # mode
    /\ target' = mode
    /\ hpc' = IF mode = "Doze" THEN "FixDozeRate" ELSE "PreSet"
    /\ UNCHANGED <<vars, displayVars, throttle, delay>>

FixDozeRate ==
    /\ hpc = "FixDozeRate"
    /\ \E ok \in WriteResult : CallSetFixedRefreshRateRange(DozeMinimumRate, 0, ok)
    /\ hpc' = "PreSet"
    /\ UNCHANGED <<displayVars, target, throttle, delay>>

PreSet ==
    /\ hpc = "PreSet"
    /\ CallPreSetPowerMode(target)
    /\ hpc' = "Switch"
    /\ UNCHANGED <<displayVars, target, throttle, delay>>

(* setPowerOn, setPowerOff or setPowerDoze; setPowerMode returns when it   *)
(* fails.                                                                  *)
Switch ==
    /\ hpc = "Switch"
    /\ \/ mPowerModeState' = target /\ hpc' = "PostSet"
       \/ DozeMayFail /\ target = "Doze" /\ UNCHANGED mPowerModeState /\ hpc' = "Idle"
    /\ UNCHANGED <<vars, mMinIdleRefreshRate, mRefreshRateDelayNanos, target, throttle, delay>>

(* Mutant: the minimum idle rate is not restored when the display is on.   *)
PostSetOnly ==
    /\ hpc = "PostSet"
    /\ CallPostSetPowerMode(target)
    /\ hpc' = "Idle"
    /\ UNCHANGED <<displayVars, target, throttle, delay>>

PostSet ==
    /\ hpc = "PostSet"
    /\ CallPostSetPowerMode(target)
    /\ hpc' = IF target = "Normal" THEN "FixMinimumRate" ELSE "Idle"
    /\ UNCHANGED <<displayVars, target, throttle, delay>>

RestoreMinimumRate ==
    /\ hpc = "FixMinimumRate"
    /\ \E ok \in WriteResult :
         CallSetFixedRefreshRateRange(mMinIdleRefreshRate, mRefreshRateDelayNanos, ok)
    /\ hpc' = "Idle"
    /\ UNCHANGED <<displayVars, target, throttle, delay>>

-----------------------------------------------------------------------------
(* setMinIdleRefreshRate, called with the new largest vote: the controller *)
(* first, then, unless it failed, mMinIdleRefreshRate.                     *)
InDoze == mPowerModeState = "Doze"

setMinIdleRefreshRate(rate) ==
    /\ MinIdleMutexFree /\ NoDelayInProgress
    /\ rate # mMinIdleRefreshRate
    /\ IF InDoze /\ rate # DozeMinimumRate
       THEN /\ mMinIdleRefreshRate' = rate
            /\ UNCHANGED <<vars, throttle>>
       ELSE /\ \E ok \in WriteResult :
                 /\ CallSetFixedRefreshRateRange(rate, mRefreshRateDelayNanos, ok)
                 /\ throttle' = IF ok THEN [step |-> "Store", rate |-> rate] ELSE NoVote
            /\ UNCHANGED mMinIdleRefreshRate
    /\ UNCHANGED <<mPowerModeState, mRefreshRateDelayNanos, hpc, target, delay>>

StoreMinIdleRefreshRate ==
    /\ throttle.step = "Store"
    /\ mMinIdleRefreshRate' = throttle.rate
    /\ throttle' = NoVote
    /\ UNCHANGED <<vars, mPowerModeState, mRefreshRateDelayNanos, hpc, target, delay>>

(* setRefreshRateThrottleNanos, called with the new largest vote: it reads *)
(* mMinIdleRefreshRate without mMinIdleRefreshRateMutex.                   *)
setRefreshRateThrottleNanos(time) ==
    /\ delay = NoDelay
    /\ DelayMayOverlap \/ MinIdleMutexFree
    /\ time # mRefreshRateDelayNanos
    /\ delay' = [step |-> "Call", rate |-> mMinIdleRefreshRate, time |-> time]
    /\ UNCHANGED <<vars, displayVars, hpc, target, throttle>>

CallWithDelay ==
    /\ delay.step = "Call"
    /\ \E ok \in WriteResult :
         /\ CallSetFixedRefreshRateRange(delay.rate, delay.time, ok)
         /\ delay' = IF ok THEN [delay EXCEPT !.step = "Store"] ELSE NoDelay
    /\ UNCHANGED <<displayVars, hpc, target, throttle>>

StoreDelay ==
    /\ delay.step = "Store"
    /\ mRefreshRateDelayNanos' = delay.time
    /\ delay' = NoDelay
    /\ UNCHANGED <<vars, mPowerModeState, mMinIdleRefreshRate, hpc, target, throttle>>

-----------------------------------------------------------------------------
(* getDisplayConfigs enables the controller once; the other calls go       *)
(* straight to it.                                                         *)
Forwarded ==
    /\ \/ notifyExpectedPresent
       \/ \E c \in Config : setActiveVrrConfiguration(c)
       \/ setEnable(TRUE)
       \/ \E t \in ControllerType : setPresentTimeoutController(t)
       \/ Present \/ Thread \/ SpuriousWakeup \/ Tick
    /\ UNCHANGED <<displayVars, callVars>>

SetPowerModeSteps == FixDozeRate \/ PreSet \/ Switch \/ PostSet \/ RestoreMinimumRate

DisplayNext ==
    \/ \E m \in PowerMode : setPowerMode(m)
    \/ SetPowerModeSteps
    \/ \E r \in MinimumRate : setMinIdleRefreshRate(r)
    \/ StoreMinIdleRefreshRate
    \/ \E t \in LockTime : setRefreshRateThrottleNanos(t)
    \/ CallWithDelay
    \/ StoreDelay
    \/ Forwarded

DisplaySpec == DisplayInit /\ [][DisplayNext]_allVars

-----------------------------------------------------------------------------
(* Properties.                                                             *)

Quiet == hpc = "Idle" /\ throttle = NoVote /\ delay = NoDelay

(* Whenever no call is in progress, the display is on and its last switch  *)
(* did not fail, the controller enforces the minimum idle rate and the     *)
(* delay the votes ask for, whatever sequence of dozes, power offs and     *)
(* votes led there.                                                        *)
VotesApplied ==
    Quiet /\ mPowerMode = "Normal" /\ mPowerModeState = target =>
      \/ mMinimumRefreshRate = mMinIdleRefreshRate /\ mMaximumTimeout = mRefreshRateDelayNanos
      \/ mMinimumRefreshRate <= 1 /\ mMinIdleRefreshRate <= 1

(* Statistics/VariableRefreshRateStatistic.cpp:379: there is no            *)
(* non-present refresh while a minimum refresh rate is set, as it uses the *)
(* panel's auto mode: no frame insertion timeout is pending then.          *)
NoFrameInsertionAtMinimumRate ==
    isMinimumRefreshRateActive(mMinimumRefreshRate) =>
      ~Queued("VendorInit") /\ ~Queued("VendorPost")
=============================================================================
