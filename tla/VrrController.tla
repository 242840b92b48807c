---------------------------- MODULE VrrController ----------------------------
(***************************************************************************)
(* The variable refresh rate controller of the primary display,            *)
(* src/libhwc2.1/libvrr/VariableRefreshRateController.cpp.                  *)
(*                                                                         *)
(* One thread (threadBody) sleeps on a condition variable until the        *)
(* earliest event of a priority queue is due and handles it; HAL threads   *)
(* call the public operations, each of which holds mMutex; the thread that *)
(* presents frames runs onPresent, which releases the mutex between two    *)
(* critical sections.  Every time is relative to the present instant: an   *)
(* event with due time 0 or less may be handled, Tick lets one unit of     *)
(* time pass.                                                              *)
(***************************************************************************)
EXTENDS Integers, Sequences, FiniteSets

CONSTANTS
    Config,              \* the ids of mVrrConfigs
    FullySupported,      \* the configurations with isFullySupported
    MaxFrameRate,        \* durationNsToFreq(minFrameIntervalNs) of each configuration
    ValidRefreshRates,   \* mValidRefreshRates of each configuration
    PowerMode,           \* the modes the HAL sets: a subset of {"Off", "Doze", "Normal"}
    EnableValue,         \* the arguments of setEnable
    ControllerType,      \* the arguments of setPresentTimeoutController
    MinimumRate,         \* the minimum refresh rates asked for
    LockTime,            \* the peak refresh rate lock times asked for
    ReportedRate,        \* the rates a refresh rate calculator may report
    PresentOffset,       \* expected present times, relative to the call
    TimeoutOverride,     \* settings of setPresentTimeoutParameters
    HandlerTimeout,      \* getPresentTimeoutNs() of the vendor's handler
    HandlerEvents,       \* getHandleEvents() of the vendor's handler: a sequence of offsets
    DefaultTaskSpace,    \* kDefaultMaximumNumberOfTasks
    NotifyTimeout,       \* notifyExpectedPresentConfig->TimeoutNs
    DefaultTimeout,      \* kDefaultSystemPresentTimeoutNs
    WakeUpPeriod,        \* kDefaultWakeUpTimeInPowerSaving
    AheadOfTime,         \* kDefaultAheadOfTimeNs
    TransitionDelay,     \* 1 s / mMinimumRefreshRate + 1 ms
    MeasurePeriod,       \* the period of the refresh rate calculator
    Uptime,              \* what getSteadyClockTimeNs() reads
    FrameRateReporter,   \* is the frame_rate node there (mFrameRateReporter # nullptr)?
    WriteMayFail,        \* may a write of the refresh_ctrl node fail?
    DupMayFail,          \* may dup() of a present fence fail?
    MayStop,             \* is the controller ever destroyed (stopThread)?
    NotifyWhileOff,      \* may notifyExpectedPresent arrive while the display is not on?
    MaxPosts,            \* bound on the notify and on the DBI events due at one instant
    MaxLag,              \* bound on how late the runnable controller thread may be
    Horizon              \* bound on every relative time

Due == -MaxLag .. Horizon
Time == -Horizon .. Horizon

ASSUME TimeAssumption ==
    /\ Horizon \in Nat /\ MaxLag \in Nat /\ 0 < MaxLag /\ MaxLag <= Horizon
    /\ {NotifyTimeout, DefaultTimeout, WakeUpPeriod, TransitionDelay, MeasurePeriod} \subseteq 1 .. Horizon
    /\ AheadOfTime \in Nat /\ Uptime \in Nat /\ HandlerTimeout \in Nat
    /\ LockTime \subseteq 0 .. Horizon
    /\ PresentOffset \subseteq Time
    /\ MaxPosts \in Nat

ASSUME ConfigAssumption ==
    /\ Config # {} /\ FullySupported \subseteq Config
    /\ MaxFrameRate \in [Config -> Nat \ {0, 1}]
    /\ ValidRefreshRates \in [Config -> SUBSET (Nat \ {0})]
    /\ MinimumRate \subseteq Nat /\ ReportedRate \subseteq Nat
    /\ PowerMode \subseteq {"Off", "Doze", "Normal"}
    /\ ControllerType \subseteq {"kNone", "kSoftware", "kHardware"}
    /\ EnableValue \subseteq BOOLEAN
    /\ {FrameRateReporter, WriteMayFail, DupMayFail, MayStop, NotifyWhileOff} \subseteq BOOLEAN

ASSUME VendorAssumption ==
    /\ DefaultTaskSpace \in Nat \ {0}
    /\ HandlerEvents \in Seq(Nat)
    /\ TimeoutOverride \subseteq [timeout : Nat, schedule : Seq(Nat)]

-----------------------------------------------------------------------------
(* Event types of interface/Event.h. "Calculator" stands for the events of *)
(* the refresh rate calculators.                                           *)

Vendor == {"VendorInit", "VendorPost"}
General == Vendor \union {"SystemTimeout", "HibernateTimeout", "NotifyExpectedPresent", "UpdateDbi"}
Callback == {"Calculator", "MinLock"}
EventType == General \union Callback

(* How many events of each type are due at each time.                      *)
Queues == [EventType -> [Due -> Nat]]

NoTimers == [d \in Due |-> 0]
EmptyQueue == [t \in EventType |-> NoTimers]

(* A relative time as the due time of an event: later than Horizon is      *)
(* Horizon, more overdue than MaxLag is MaxLag.                            *)
DueAt(d) == IF d > Horizon THEN Horizon ELSE IF d < -MaxLag THEN -MaxLag ELSE d

PostEvent(q, t, d) == [q EXCEPT ![t][DueAt(d)] = @ + 1]
PopEvent(q, t, d) == [q EXCEPT ![t][d] = @ - 1]

(* dropEventLocked(eventType), for the event types that contain the mask.  *)
DropEvents(q, types) == [t \in EventType |-> IF t \in types THEN NoTimers ELSE q[t]]

QueueIsEmpty(q) == \A t \in EventType, d \in Due : q[t][d] = 0

(* Mutant: the comparison of the priority queue is reversed.               *)
IsLatest(q, t, d) ==
    /\ q[t][d] > 0
    /\ \A u \in EventType, e \in Due : q[u][e] > 0 => e <= d

(* mPriorityQueue.top(): any of the earliest events.                       *)
IsTop(q, t, d) ==
    /\ q[t][d] > 0
    /\ \A u \in EventType, e \in Due : q[u][e] > 0 => d <= e

-----------------------------------------------------------------------------
VARIABLES
    mState, mEnabled, mThreadExit, mPowerMode, mVrrActiveConfig,
    queue,                \* mEventQueue: how many events of each type are due at each time
    mPending,             \* mRecord.mPendingCurrentPresentTime
    mNextExpected,        \* mRecord.mNextExpectedPresentTime.has_value()
    mController,          \* mPresentTimeoutController
    mDefaultController,   \* mDefaultPresentTimeoutController
    mOverride,            \* mVendorPresentTimeoutOverride
    mMinimumRefreshRate,
    mMaximumTimeout,      \* mMaximumRefreshRateTimeoutNs
    presentStates,        \* mMinimumRefreshRatePresentStates
    panel,                \* the last value written to the refresh_ctrl node
    mLastRefreshRate,
    baseTime,             \* mPendingVendorRenderingTimeoutTasks.baseTimeNs
    tasks,                \* its first numberOfTasks execution times
    nextTaskIndex,
    taskSpace,            \* taskExecutionTimeNs.size()
    mLastPresentFence,
    openFences,           \* how many duplicated fences the process holds open
    pc, woken, deadline,  \* the controller thread
    threadFence,          \* the fence its updateVsyncHistory works on
    ppc, presenterFence   \* the presenting thread

fenceVars == <<mLastPresentFence, openFences, threadFence, presenterFence>>
rateVars == <<mMinimumRefreshRate, mMaximumTimeout, presentStates>>
taskVars == <<tasks, nextTaskIndex, taskSpace>>
modeVars == <<mEnabled, mThreadExit, mPowerMode>>
threadVars == <<pc, deadline>>

vars == <<mState, modeVars, mVrrActiveConfig, queue, mPending, mNextExpected, mController,
          mDefaultController, mOverride, rateVars, panel, mLastRefreshRate, baseTime, taskVars,
          fenceVars, threadVars, woken, ppc>>

NoPresent == [set |-> FALSE, time |-> 0]
NoOverride == [set |-> FALSE, timeout |-> 0, schedule |-> <<>>]

Sleeping == {"SleepDisabled", "SleepEmpty", "SleepTimed"}

Init ==
    /\ mState = "Disable" /\ mEnabled = FALSE /\ mThreadExit = FALSE
    /\ mPowerMode = "Unset" /\ mVrrActiveConfig \in Config
    /\ queue = EmptyQueue
    /\ mPending = NoPresent /\ mNextExpected = FALSE
    /\ mController = "kSoftware" /\ mDefaultController = "kSoftware"
    /\ mOverride = NoOverride
    /\ mMinimumRefreshRate = 0 /\ mMaximumTimeout = 0 /\ presentStates = "Unset"
    /\ panel = [written |-> FALSE, auto |-> FALSE, minimum |-> 0]
    /\ mLastRefreshRate = 0
    /\ baseTime = 0 /\ tasks = <<>> /\ nextTaskIndex = 0 /\ taskSpace = DefaultTaskSpace
    /\ mLastPresentFence = "none" /\ openFences = 0
    /\ threadFence = "none" /\ presenterFence = "none"
    /\ pc = "Top" /\ woken = FALSE /\ deadline = 0 /\ ppc = "Idle"

-----------------------------------------------------------------------------
(* Helpers of the operations.                                              *)

isMinimumRefreshRateActive(rate) == rate > 1

(* lower_bound in the valid rates of the active configuration.             *)
convertToValidRefreshRate(config, rate) ==
    LET candidates == {v \in ValidRefreshRates[config] : v >= rate}
    IN  IF candidates = {} THEN MaxFrameRate[config]
        ELSE CHOOSE v \in candidates : \A w \in candidates : v <= w

onRefreshRateChangedInternal(config, rate) ==
    mLastRefreshRate' = convertToValidRefreshRate(config, rate)

(* A calculator may call onRefreshRateChanged, which ignores it while a    *)
(* minimum refresh rate is set.                                            *)
CalculatorMayReport ==
    \/ UNCHANGED mLastRefreshRate
    \/ /\ ~isMinimumRefreshRateActive(mMinimumRefreshRate)
       /\ \E rate \in ReportedRate : onRefreshRateChangedInternal(mVrrActiveConfig, rate)

(* The frame rate reporter may see a new rate and post a DBI update.       *)
WithDbiUpdate(q) ==
    {q} \union IF FrameRateReporter /\ \A d \in Due : d <= 0 => q["UpdateDbi"][d] < MaxPosts
               THEN {PostEvent(q, "UpdateDbi", 0)} ELSE {}

WriteResult == IF WriteMayFail THEN BOOLEAN ELSE {TRUE}
WriteRefreshControl(ok, command) == panel' = IF ok THEN [command EXCEPT !.written = TRUE] ELSE panel

(* Mutant: the notification is lost.                                       *)
NotifyNobody == woken' = woken

(* notify_all(), which every operation calls after it unlocks mMutex.      *)
NotifyAll == woken' = (woken \/ pc \in Sleeping)

(* Mutants: the tasks are kept; the pending task is kept.                  *)
CancelKeepsTasks(q) ==
    /\ queue' = DropEvents(q, Vendor)
    /\ UNCHANGED taskVars

CancelKeepsPost(q) ==
    /\ queue' = DropEvents(q, {"VendorInit"})
    /\ tasks' = <<>> /\ nextTaskIndex' = 0
    /\ UNCHANGED taskSpace

cancelPresentTimeoutHandlingLocked(q) ==
    /\ queue' = DropEvents(q, Vendor)
    /\ tasks' = <<>> /\ nextTaskIndex' = 0
    /\ UNCHANGED taskSpace

SystemTimeoutEvent(q, config) ==
    IF config \in FullySupported THEN PostEvent(q, "SystemTimeout", NotifyTimeout) ELSE q

-----------------------------------------------------------------------------
(* The operations called by the HAL.                                       *)

notifyExpectedPresent ==
    /\ NotifyWhileOff \/ mPowerMode = "Normal"
    /\ \A d \in Due : d <= 0 => queue["NotifyExpectedPresent"][d] < MaxPosts
    /\ mNextExpected' = TRUE
    /\ queue' = PostEvent(queue, "NotifyExpectedPresent", 0)
    /\ NotifyAll
    /\ UNCHANGED <<mState, modeVars, mVrrActiveConfig, mPending, mController, mDefaultController,
                   mOverride, rateVars, panel, mLastRefreshRate, baseTime, taskVars, fenceVars,
                   threadVars, ppc>>

PeakStates == {"AtMaximum", "Transition"}

(* Mutant: the panel keeps the maximum refresh rate of the old             *)
(* configuration.                                                          *)
FollowOldMaximumRate(config) == UNCHANGED <<panel, mLastRefreshRate>>

(* The part of setActiveVrrConfiguration that moves the panel to the new   *)
(* maximum refresh rate.                                                   *)
FollowMaximumRate(config) ==
    IF presentStates \in PeakStates /\ isMinimumRefreshRateActive(mMinimumRefreshRate) /\ mMaximumTimeout > 0
    THEN /\ \E ok \in WriteResult : WriteRefreshControl(ok, [panel EXCEPT !.minimum = MaxFrameRate[config]])
         /\ onRefreshRateChangedInternal(config, MaxFrameRate[config])
    ELSE UNCHANGED <<panel, mLastRefreshRate>>

setActiveVrrConfiguration(config) ==
    /\ mVrrActiveConfig' = config
    /\ FollowMaximumRate(config)
    /\ \E q \in WithDbiUpdate(queue) :
         IF mState = "Disable"
         THEN queue' = q /\ UNCHANGED <<mState, woken>>
         ELSE /\ mState' = "Rendering"
              /\ queue' = SystemTimeoutEvent(DropEvents(q, {"SystemTimeout"}), config)
              /\ NotifyAll
    /\ UNCHANGED <<modeVars, mPending, mNextExpected, mController, mDefaultController, mOverride,
                   rateVars, baseTime, taskVars, fenceVars, threadVars, ppc>>

(* Nothing enables a controller that is being destroyed.                   *)
setEnable(isEnabled) ==
    /\ ~mThreadExit
    /\ mEnabled # isEnabled
    /\ mEnabled' = isEnabled
    /\ queue' = IF isEnabled THEN queue ELSE EmptyQueue
    /\ NotifyAll
    /\ UNCHANGED <<mState, mThreadExit, mPowerMode, mVrrActiveConfig, mPending, mNextExpected,
                   mController, mDefaultController, mOverride, rateVars, panel, mLastRefreshRate,
                   baseTime, taskVars, fenceVars, threadVars, ppc>>

preSetPowerMode(mode) ==
    /\ mPowerMode # mode
    /\ \/ /\ mode = "Doze"
          /\ \E ok \in WriteResult : WriteRefreshControl(ok, [panel EXCEPT !.auto = TRUE])
          /\ mController' = "kHardware"
          /\ cancelPresentTimeoutHandlingLocked(queue)
       \/ /\ mode = "Normal"
          /\ mController' = mDefaultController
          /\ UNCHANGED <<panel, queue, taskVars>>
    /\ UNCHANGED <<mState, modeVars, mVrrActiveConfig, mPending, mNextExpected, mDefaultController,
                   mOverride, rateVars, mLastRefreshRate, baseTime, fenceVars, threadVars, woken, ppc>>

(* Mutant: the mask leaves notifications in the queue.                     *)
DropTimeoutEvents(q) == DropEvents(q, (General \ {"NotifyExpectedPresent"}) \union {"Calculator"})

(* The power mode listeners start and stop the refresh rate calculators.   *)
DropGeneralEvents(q) == DropEvents(q, General \union {"Calculator"})

ResumeCalculator(q) == IF mPowerMode = "Normal" THEN q ELSE PostEvent(q, "Calculator", MeasurePeriod)

postSetPowerMode(mode) ==
    /\ mPowerMode # mode
    /\ \/ /\ mode \in {"Off", "Doze"}
          /\ mState' = "Disable"
          /\ queue' = DropGeneralEvents(queue)
       \/ /\ mode = "Normal"
          /\ mState' = "Rendering"
          /\ queue' = ResumeCalculator(SystemTimeoutEvent(queue, mVrrActiveConfig))
    /\ mPowerMode' = mode
    /\ NotifyAll
    /\ UNCHANGED <<mEnabled, mThreadExit, mVrrActiveConfig, mPending, mNextExpected, mController,
                   mDefaultController, mOverride, rateVars, panel, mLastRefreshRate, baseTime,
                   taskVars, fenceVars, threadVars, ppc>>

setPresentTimeoutParameters(override) ==
    /\ mOverride' = override
    /\ UNCHANGED <<mState, modeVars, mVrrActiveConfig, queue, mPending, mNextExpected, mController,
                   mDefaultController, rateVars, panel, mLastRefreshRate, baseTime, taskVars,
                   fenceVars, threadVars, woken, ppc>>

(* The controller that follows from a new default one.                     *)
ControllerFor(default) ==
    IF default = "kHardware" THEN "kHardware"
    ELSE IF isMinimumRefreshRateActive(mMinimumRefreshRate) THEN mController ELSE "kSoftware"

setPresentTimeoutController(type) ==
    /\ mPowerMode = "Normal"
    /\ type # mDefaultController
    /\ mDefaultController' = type
    /\ mController' = ControllerFor(type)
    /\ IF mController' = mController
       THEN UNCHANGED <<queue, taskVars, panel>>
       ELSE /\ \E ok \in WriteResult :
                  WriteRefreshControl(ok, [panel EXCEPT !.auto = (mController' = "kHardware")])
            /\ IF mController' = "kHardware" THEN cancelPresentTimeoutHandlingLocked(queue)
               ELSE UNCHANGED <<queue, taskVars>>
    /\ UNCHANGED <<mState, modeVars, mVrrActiveConfig, mPending, mNextExpected, mOverride, rateVars,
                   mLastRefreshRate, baseTime, fenceVars, threadVars, woken, ppc>>

(* The early returns of setFixedRefreshRateRange.                          *)
IsEquivalentRange(rate, lockTime) ==
    \/ rate <= 1 /\ mMinimumRefreshRate <= 1
    \/ ~(rate <= 1 /\ mMinimumRefreshRate <= 1) /\ rate = mMinimumRefreshRate /\ lockTime = mMaximumTimeout

(* "ok" says whether the write succeeds; otherwise the code returns -1.    *)
FixMinimumRate(rate, lockTime, ok) ==
    /\ isMinimumRefreshRateActive(rate)
    /\ mMinimumRefreshRate' = rate /\ mMaximumTimeout' = lockTime
    /\ presentStates' = "AtMinimum"
    /\ cancelPresentTimeoutHandlingLocked(DropEvents(queue, {"MinLock"}))
    /\ WriteRefreshControl(ok, [panel EXCEPT !.auto = TRUE, !.minimum = rate])
    /\ IF ok THEN /\ mController' = "kHardware"
                  /\ onRefreshRateChangedInternal(mVrrActiveConfig, rate)
             ELSE UNCHANGED <<mController, mLastRefreshRate>>

(* Only a software controller's panel is written back to auto mode off and *)
(* minimum rate 1.                                                         *)
UnsetMinimumRate(rate, lockTime, ok) ==
    /\ ~isMinimumRefreshRateActive(rate)
    /\ ok \/ mDefaultController = "kSoftware"
    /\ mMinimumRefreshRate' = rate
    /\ queue' = DropEvents(queue, {"MinLock"})
    /\ mController' = mDefaultController
    /\ IF mDefaultController = "kSoftware"
       THEN WriteRefreshControl(ok, [panel EXCEPT !.auto = FALSE, !.minimum = 1])
       ELSE UNCHANGED panel
    /\ IF ok THEN /\ mMaximumTimeout' = 0 /\ presentStates' = "Unset"
                  /\ onRefreshRateChangedInternal(mVrrActiveConfig, 1)
             ELSE /\ mMaximumTimeout' = lockTime
                  /\ UNCHANGED <<presentStates, mLastRefreshRate>>
    /\ UNCHANGED taskVars

setFixedRefreshRateRange(rate, lockTime, ok) ==
    /\ ~IsEquivalentRange(rate, lockTime)
    /\ FixMinimumRate(rate, lockTime, ok) \/ UnsetMinimumRate(rate, lockTime, ok)
    /\ UNCHANGED <<mState, modeVars, mVrrActiveConfig, mPending, mNextExpected, mDefaultController,
                   mOverride, baseTime, fenceVars, threadVars, woken, ppc>>

(* Mutant: the thread is not notified.                                     *)
StopSilently ==
    /\ MayStop /\ ~mThreadExit
    /\ mThreadExit' = TRUE /\ mEnabled' = FALSE /\ mState' = "Disable"
    /\ UNCHANGED <<mPowerMode, mVrrActiveConfig, queue, mPending, mNextExpected, mController,
                   mDefaultController, mOverride, rateVars, panel, mLastRefreshRate, baseTime,
                   taskVars, fenceVars, threadVars, woken, ppc>>

(* stopThread(true), called by the destructor.                             *)
stopThread ==
    /\ MayStop /\ ~mThreadExit
    /\ mThreadExit' = TRUE /\ mEnabled' = FALSE /\ mState' = "Disable"
    /\ NotifyAll
    /\ UNCHANGED <<mPowerMode, mVrrActiveConfig, queue, mPending, mNextExpected, mController,
                   mDefaultController, mOverride, rateVars, panel, mLastRefreshRate, baseTime,
                   taskVars, fenceVars, threadVars, ppc>>

-----------------------------------------------------------------------------
(* The presenting thread: setExpectedPresentTime, then onPresent.          *)

setExpectedPresentTime(time) ==
    /\ ppc = "Idle"
    /\ cancelPresentTimeoutHandlingLocked(DropEvents(queue, {"SystemTimeout"}))
    /\ baseTime' = time
    /\ mPending' = [set |-> TRUE, time |-> time]
    /\ UNCHANGED <<mState, modeVars, mVrrActiveConfig, mNextExpected, mController,
                   mDefaultController, mOverride, rateVars, panel, mLastRefreshRate, fenceVars,
                   threadVars, woken, ppc>>

(* onPresent while the controller is disabled: only the calculators hear   *)
(* of the frame, and it stays pending.                                     *)
onPresentDisabled ==
    /\ ppc = "Idle" /\ mPending.set /\ mState = "Disable"
    /\ queue' \in WithDbiUpdate(queue)
    /\ CalculatorMayReport
    /\ UNCHANGED <<mState, modeVars, mVrrActiveConfig, mPending, mNextExpected, mController,
                   mDefaultController, mOverride, rateVars, panel, baseTime, taskVars, fenceVars,
                   threadVars, woken, ppc>>

(* The first lines of onPresent while the controller is not disabled.      *)
LeaveHibernate(q) == IF mState = "Hibernate" THEN DropEvents(q, {"HibernateTimeout"}) ELSE q

(* onPresent while a minimum refresh rate with a peak lock time is set:    *)
(* it returns without notify_all() and leaves the frame pending.           *)
PromoteFrom(state, q) ==
    /\ presentStates = state
    /\ \E ok \in WriteResult :
         /\ WriteRefreshControl(ok, [panel EXCEPT !.auto = TRUE, !.minimum = MaxFrameRate[mVrrActiveConfig]])
         /\ IF ok
            THEN /\ presentStates' = "AtMaximum"
                 /\ onRefreshRateChangedInternal(mVrrActiveConfig, MaxFrameRate[mVrrActiveConfig])
                 /\ queue' = PostEvent(q, "MinLock", mPending.time + mMaximumTimeout)
            ELSE queue' = q /\ UNCHANGED <<presentStates, mLastRefreshRate>>

(* Mutant: a frame during the transition promotes again.                   *)
PromoteFromTransition(q) == PromoteFrom("AtMinimum", q) \/ PromoteFrom("Transition", DropEvents(q, {"MinLock"}))

PromoteToMaximum(q) == PromoteFrom("AtMinimum", q)

(* Mutant: the transition's earlier timer stays in the queue.              *)
ExtendWithoutDrop(q) ==
    /\ presentStates = "Transition"
    /\ queue' = PostEvent(q, "MinLock", mPending.time + TransitionDelay)
    /\ UNCHANGED <<panel, presentStates, mLastRefreshRate>>

ExtendTransition(q) ==
    /\ presentStates = "Transition"
    /\ queue' = PostEvent(DropEvents(q, {"MinLock"}), "MinLock", mPending.time + TransitionDelay)
    /\ UNCHANGED <<panel, presentStates, mLastRefreshRate>>

KeepPresentState(q) ==
    /\ queue' = q
    /\ UNCHANGED <<panel, presentStates, mLastRefreshRate>>

onPresentAtMinimumRate ==
    /\ ppc = "Idle" /\ mPending.set /\ mState # "Disable"
    /\ mMaximumTimeout > 0 /\ isMinimumRefreshRateActive(mMinimumRefreshRate)
    /\ mState' = "Rendering"
    /\ \E dbi \in WithDbiUpdate(queue) :
         LET q == LeaveHibernate(dbi)
         IN  IF MaxFrameRate[mVrrActiveConfig] # mMinimumRefreshRate /\ presentStates \in {"AtMinimum", "Transition"}
             THEN PromoteToMaximum(q) \/ ExtendTransition(q)
             ELSE KeepPresentState(q)
    /\ UNCHANGED <<modeVars, mVrrActiveConfig, mPending, mNextExpected, mController,
                   mDefaultController, mOverride, mMinimumRefreshRate, mMaximumTimeout, baseTime,
                   taskVars, fenceVars, threadVars, woken, ppc>>

(* Otherwise onPresent unlocks and goes on with updateVsyncHistory().      *)
onPresentBegin ==
    /\ ppc = "Idle" /\ mPending.set /\ mState # "Disable"
    /\ ~(mMaximumTimeout > 0 /\ isMinimumRefreshRateActive(mMinimumRefreshRate))
    /\ mState' = "Rendering"
    /\ \E dbi \in WithDbiUpdate(queue) : queue' = LeaveHibernate(dbi)
    /\ CalculatorMayReport
    /\ ppc' = "TakeFence"
    /\ UNCHANGED <<modeVars, mVrrActiveConfig, mPending, mNextExpected, mController,
                   mDefaultController, mOverride, rateVars, panel, baseTime, taskVars, fenceVars,
                   threadVars, woken>>

(* updateVsyncHistory(): take the last fence under the lock, inspect and   *)
(* close it without the lock.                                              *)
takenFence == mLastPresentFence

presentTakeFence ==
    /\ ppc = "TakeFence"
    /\ presenterFence' = takenFence /\ mLastPresentFence' = "none"
    /\ ppc' = IF takenFence = "none" THEN "StoreFence" ELSE "CloseFence"
    /\ UNCHANGED <<mState, modeVars, mVrrActiveConfig, queue, mPending, mNextExpected, mController,
                   mDefaultController, mOverride, rateVars, panel, mLastRefreshRate, baseTime,
                   taskVars, openFences, threadFence, threadVars, woken>>

OpenCount(fence) == IF fence = "fd" THEN 1 ELSE 0

presentCloseFence ==
    /\ ppc = "CloseFence"
    /\ openFences' = openFences - OpenCount(presenterFence)
    /\ presenterFence' = "none"
    /\ ppc' = "StoreFence"
    /\ UNCHANGED <<mState, modeVars, mVrrActiveConfig, queue, mPending, mNextExpected, mController,
                   mDefaultController, mOverride, rateVars, panel, mLastRefreshRate, baseTime,
                   taskVars, mLastPresentFence, threadFence, threadVars, woken>>

(* An override always has settings (setPresentTimeoutParameters).          *)
shouldHandleVendorRenderingTimeout ==
    /\ mController = "kSoftware"
    /\ mPowerMode = "Normal"

FirstTimeout == IF mOverride.set THEN mOverride.timeout ELSE HandlerTimeout

(* The next rendering timeout: for a fully supported configuration the     *)
(* code adds the steady clock's reading twice.                             *)
NextRenderingTimeout ==
    IF mVrrActiveConfig \in FullySupported THEN Uptime + NotifyTimeout ELSE DefaultTimeout

SaturatedTime(t) == IF t > Horizon THEN Horizon ELSE t

(* The second critical section of onPresent.                               *)
onPresentEnd ==
    /\ ppc = "StoreFence"
    /\ \E dup \in IF DupMayFail THEN {"fd", "bad"} ELSE {"fd"} :
         mLastPresentFence' = dup /\ openFences' = openFences + OpenCount(dup)
    /\ LET q == PostEvent(queue, "SystemTimeout", NextRenderingTimeout)
       IN  IF shouldHandleVendorRenderingTimeout
           THEN /\ baseTime' = SaturatedTime(baseTime + FirstTimeout)
                /\ queue' = IF FirstTimeout >= AheadOfTime
                            THEN PostEvent(q, "VendorInit", mPending.time + FirstTimeout - AheadOfTime)
                            ELSE q
           ELSE queue' = q /\ UNCHANGED baseTime
    /\ mPending' = NoPresent
    /\ NotifyAll
    /\ ppc' = "Idle"
    /\ UNCHANGED <<mState, modeVars, mVrrActiveConfig, mNextExpected, mController,
                   mDefaultController, mOverride, rateVars, panel, mLastRefreshRate, taskVars,
                   threadFence, presenterFence, threadVars>>

-----------------------------------------------------------------------------
(* The controller thread.                                                  *)

(* The thread holds mMutex and has passed the waits before the queue.      *)
AtQueue ==
    \/ pc = "Top" /\ ~mThreadExit /\ mEnabled
    \/ pc = "SleepDisabled" /\ woken /\ mEnabled
    \/ pc = "SleepEmpty" /\ woken
    \/ pc = "SleepTimed" /\ ~woken /\ deadline = 0

Sleep(where, until) == pc' = where /\ deadline' = until /\ woken' = FALSE
GoTo(where) == pc' = where /\ deadline' = 0 /\ woken' = FALSE

ThreadUnchanged ==
    UNCHANGED <<mState, modeVars, mVrrActiveConfig, queue, mPending, mNextExpected, mController,
                mDefaultController, mOverride, rateVars, panel, mLastRefreshRate, baseTime,
                taskVars, fenceVars, ppc>>

ThreadExit ==
    /\ pc = "Top" /\ mThreadExit
    /\ GoTo("Exited")
    /\ ThreadUnchanged

WaitForEnable ==
    /\ pc = "Top" /\ ~mThreadExit /\ ~mEnabled
    /\ Sleep("SleepDisabled", 0)
    /\ ThreadUnchanged

(* Going back to the top of the loop: the wait for mEnabled ended and it   *)
(* is still disabled, the timed wait was notified, or the queue is empty   *)
(* after a wait.                                                           *)
Continue ==
    /\ \/ pc = "SleepDisabled" /\ woken /\ ~mEnabled
       \/ pc = "SleepTimed" /\ woken
       \/ pc = "SleepEmpty" /\ woken /\ QueueIsEmpty(queue)
       \/ pc = "SleepTimed" /\ ~woken /\ deadline = 0
            /\ \A t \in EventType, d \in Due : IsTop(queue, t, d) => d > 0
    /\ GoTo("Top")
    /\ ThreadUnchanged

WaitForEvent ==
    /\ AtQueue /\ pc \in {"Top", "SleepDisabled"}
    /\ QueueIsEmpty(queue)
    /\ Sleep("SleepEmpty", 0)
    /\ ThreadUnchanged

(* Mutant: the thread also sleeps when the event is already due.           *)
WaitForAnyEvent ==
    /\ AtQueue /\ pc # "SleepTimed"
    /\ \E t \in EventType, d \in Due : IsTop(queue, t, d) /\ Sleep("SleepTimed", d)
    /\ ThreadUnchanged

WaitForDueTime ==
    /\ AtQueue /\ pc # "SleepTimed"
    /\ \E t \in EventType, d \in Due : IsTop(queue, t, d) /\ d > 0 /\ Sleep("SleepTimed", d)
    /\ ThreadUnchanged

(* The thread pops the event of type t that is due at d.                   *)
Pops(t, d) == AtQueue /\ IsTop(queue, t, d) /\ d <= 0

(* Mutant: the index of the next task is not advanced.                     *)
ScheduleSameTask(q, times, next) ==
    /\ queue' = IF Len(times) = next THEN q ELSE PostEvent(q, "VendorPost", 0)
    /\ nextTaskIndex' = next

(* scheduleNextTask() of PendingVendorRenderingTimeoutTasks.               *)
ScheduleNextTask(q, times, next) ==
    IF Len(times) = next
    THEN queue' = q /\ nextTaskIndex' = next
    ELSE /\ queue' = LET at == IF next < Len(times) THEN times[next + 1] - AheadOfTime ELSE 0
                     IN  PostEvent(q, "VendorPost", IF at < 0 THEN 0 ELSE at)
         /\ nextTaskIndex' = next + 1

handlePresentTimeout(popped, times, next) ==
    /\ IF panel.written
       THEN /\ \E ok \in WriteResult : WriteRefreshControl(ok, [panel EXCEPT !.auto = FALSE])
            /\ mController' = "kSoftware"
       ELSE UNCHANGED <<panel, mController>>
    /\ \E q \in WithDbiUpdate(popped) : ScheduleNextTask(q, times, next)

Schedule == IF mOverride.set THEN mOverride.schedule ELSE HandlerEvents

(* reserveSpace and addTask: the tasks are appended to those left.         *)
AddedTasks == tasks \o [i \in 1 .. Len(Schedule) |-> SaturatedTime(baseTime + Schedule[i])]

OnVendorTimeoutInit ==
    \E d \in Due :
      /\ Pops("VendorInit", d)
      /\ LET popped == PopEvent(queue, "VendorInit", d)
         IN  IF mState = "Rendering" /\ Schedule # <<>>
             THEN /\ taskSpace' = IF Len(Schedule) > taskSpace THEN Len(Schedule) ELSE taskSpace
                  /\ tasks' = AddedTasks
                  /\ handlePresentTimeout(popped, AddedTasks, 1)
             ELSE queue' = popped /\ UNCHANGED <<taskVars, panel, mController>>
      /\ GoTo("Top")
      /\ UNCHANGED <<mState, modeVars, mVrrActiveConfig, mPending, mNextExpected,
                     mDefaultController, mOverride, rateVars, mLastRefreshRate, baseTime,
                     fenceVars, ppc>>

OnVendorTimeoutPost ==
    \E d \in Due :
      /\ Pops("VendorPost", d)
      /\ LET popped == PopEvent(queue, "VendorPost", d)
         IN  IF mState = "Rendering"
             THEN handlePresentTimeout(popped, tasks, nextTaskIndex)
             ELSE queue' = popped /\ UNCHANGED <<nextTaskIndex, panel, mController>>
      /\ GoTo("Top")
      /\ UNCHANGED <<mState, modeVars, mVrrActiveConfig, mPending, mNextExpected,
                     mDefaultController, mOverride, rateVars, mLastRefreshRate, baseTime, tasks,
                     taskSpace, fenceVars, ppc>>

(* kSystemRenderingTimeout: handleHibernate() resets the frame rate        *)
(* reporter and posts the wake-up timer.                                   *)
OnSystemTimeout ==
    \E d \in Due :
      /\ Pops("SystemTimeout", d)
      /\ LET popped == PopEvent(queue, "SystemTimeout", d)
         IN  IF mState = "Rendering"
             THEN /\ mState' = "Hibernate"
                  /\ \E q \in WithDbiUpdate(popped) :
                       queue' = PostEvent(q, "HibernateTimeout", WakeUpPeriod)
                  /\ GoTo("TakeFence")
             ELSE queue' = popped /\ GoTo("Top") /\ UNCHANGED mState
      /\ UNCHANGED <<modeVars, mVrrActiveConfig, mPending, mNextExpected, mController,
                     mDefaultController, mOverride, rateVars, panel, mLastRefreshRate, baseTime,
                     taskVars, fenceVars, ppc>>

(* kNotifyExpectedPresentConfig: handleCadenceChange() while rendering,    *)
(* handleResume() in every other state.                                    *)
OnNotifyExpectedPresent ==
    \E d \in Due :
      /\ Pops("NotifyExpectedPresent", d)
      /\ queue' = PopEvent(queue, "NotifyExpectedPresent", d)
      /\ mNextExpected' = FALSE
      /\ mState' = "Rendering"
      /\ GoTo(IF mState = "Rendering" THEN "Top" ELSE "TakeFence")
      /\ UNCHANGED <<modeVars, mVrrActiveConfig, mPending, mController, mDefaultController,
                     mOverride, rateVars, panel, mLastRefreshRate, baseTime, taskVars, fenceVars, ppc>>

(* kHibernateTimeout: handleStayHibernate() posts it again.                *)
OnHibernateTimeout ==
    \E d \in Due :
      /\ Pops("HibernateTimeout", d)
      /\ LET popped == PopEvent(queue, "HibernateTimeout", d)
         IN  queue' = IF mState = "Rendering" THEN popped
                      ELSE PostEvent(popped, "HibernateTimeout", WakeUpPeriod)
      /\ GoTo("Top")
      /\ UNCHANGED <<mState, modeVars, mVrrActiveConfig, mPending, mNextExpected, mController,
                     mDefaultController, mOverride, rateVars, panel, mLastRefreshRate, baseTime,
                     taskVars, fenceVars, ppc>>

(* kUpdateDbiFrameRate: the frame rate is written to its node unlocked.    *)
OnUpdateDbi ==
    \E d \in Due :
      /\ Pops("UpdateDbi", d)
      /\ queue' = PopEvent(queue, "UpdateDbi", d)
      /\ GoTo("Top")
      /\ UNCHANGED <<mState, modeVars, mVrrActiveConfig, mPending, mNextExpected, mController,
                     mDefaultController, mOverride, rateVars, panel, mLastRefreshRate, baseTime,
                     taskVars, fenceVars, ppc>>

(* The callback events. A calculator reports its rate and measures again   *)
(* a period after this measurement was due.                                *)
OnCalculator ==
    \E d \in Due :
      /\ Pops("Calculator", d)
      /\ queue' = PostEvent(PopEvent(queue, "Calculator", d), "Calculator", d + MeasurePeriod)
      /\ CalculatorMayReport
      /\ GoTo("Top")
      /\ UNCHANGED <<mState, modeVars, mVrrActiveConfig, mPending, mNextExpected, mController,
                     mDefaultController, mOverride, rateVars, panel, baseTime, taskVars,
                     fenceVars, ppc>>

(* mMinimumRefreshRateTimeoutEvent: from the peak rate to the transition,  *)
(* and from the transition to the minimum rate.                            *)
StartTransition(popped) ==
    /\ presentStates = "AtMaximum"
    /\ presentStates' = "Transition"
    /\ queue' = PostEvent(popped, "MinLock", TransitionDelay)
    /\ UNCHANGED <<panel, mLastRefreshRate>>

ReturnToMinimum(popped) ==
    /\ presentStates = "Transition"
    /\ presentStates' = "AtMinimum"
    /\ queue' = popped
    /\ onRefreshRateChangedInternal(mVrrActiveConfig, mMinimumRefreshRate)
    /\ \E ok \in WriteResult :
         WriteRefreshControl(ok, [panel EXCEPT !.auto = TRUE, !.minimum = mMinimumRefreshRate])

OnMinLock ==
    \E d \in Due :
      /\ Pops("MinLock", d)
      /\ LET popped == PopEvent(queue, "MinLock", d)
         IN  IF presentStates \in PeakStates
             THEN StartTransition(popped) \/ ReturnToMinimum(popped)
             ELSE queue' = popped /\ UNCHANGED <<presentStates, panel, mLastRefreshRate>>
      /\ GoTo("Top")
      /\ UNCHANGED <<mState, modeVars, mVrrActiveConfig, mPending, mNextExpected, mController,
                     mDefaultController, mOverride, mMinimumRefreshRate, mMaximumTimeout, baseTime,
                     taskVars, fenceVars, ppc>>

(* Mutant: the fence is read and not taken.                                *)
ThreadReadFence ==
    /\ pc = "TakeFence"
    /\ threadFence' = takenFence
    /\ GoTo(IF takenFence = "none" THEN "Top" ELSE "CloseFence")
    /\ UNCHANGED <<mState, modeVars, mVrrActiveConfig, queue, mPending, mNextExpected, mController,
                   mDefaultController, mOverride, rateVars, panel, mLastRefreshRate, baseTime,
                   taskVars, mLastPresentFence, openFences, presenterFence, ppc>>

(* updateVsyncHistory() after a change of state, without the lock.         *)
threadTakeFence ==
    /\ pc = "TakeFence"
    /\ threadFence' = takenFence /\ mLastPresentFence' = "none"
    /\ GoTo(IF takenFence = "none" THEN "Top" ELSE "CloseFence")
    /\ UNCHANGED <<mState, modeVars, mVrrActiveConfig, queue, mPending, mNextExpected, mController,
                   mDefaultController, mOverride, rateVars, panel, mLastRefreshRate, baseTime,
                   taskVars, openFences, presenterFence, ppc>>

threadCloseFence ==
    /\ pc = "CloseFence"
    /\ openFences' = openFences - OpenCount(threadFence)
    /\ threadFence' = "none"
    /\ GoTo("Top")
    /\ UNCHANGED <<mState, modeVars, mVrrActiveConfig, queue, mPending, mNextExpected, mController,
                   mDefaultController, mOverride, rateVars, panel, mLastRefreshRate, baseTime,
                   taskVars, mLastPresentFence, presenterFence, ppc>>

(* A wait may end without a notification.                                  *)
SpuriousWakeup ==
    /\ pc \in Sleeping /\ ~woken
    /\ woken' = TRUE
    /\ UNCHANGED threadVars
    /\ ThreadUnchanged

-----------------------------------------------------------------------------
(* Time.                                                                   *)

Runnable ==
    \/ pc \notin Sleeping \union {"Exited"}
    \/ woken
    \/ pc = "SleepTimed" /\ deadline = 0

Shift(timers) ==
    [d \in Due |-> IF d = -MaxLag THEN timers[d] + timers[d + 1]
                   ELSE IF d = Horizon THEN 0 ELSE timers[d + 1]]

Earlier(t) == IF t > -Horizon THEN t - 1 ELSE t

(* The SCHED_FIFO controller thread, when it can run, is late by at most   *)
(* MaxLag.                                                                 *)
Tick ==
    /\ Runnable => \A t \in EventType : queue[t][-MaxLag] = 0
    /\ queue' = [t \in EventType |-> Shift(queue[t])]
    /\ mPending' = IF mPending.set THEN [mPending EXCEPT !.time = Earlier(@)] ELSE mPending
    /\ baseTime' = Earlier(baseTime)
    /\ tasks' = [i \in 1 .. Len(tasks) |-> Earlier(tasks[i])]
    /\ deadline' = IF deadline > 0 THEN deadline - 1 ELSE 0
    /\ UNCHANGED <<mState, modeVars, mVrrActiveConfig, mNextExpected, mController,
                   mDefaultController, mOverride, rateVars, panel, mLastRefreshRate,
                   nextTaskIndex, taskSpace, fenceVars, pc, woken, ppc>>

-----------------------------------------------------------------------------
HalCalls ==
    \/ notifyExpectedPresent
    \/ \E c \in Config : setActiveVrrConfiguration(c)
    \/ \E b \in EnableValue : setEnable(b)
    \/ \E m \in PowerMode : preSetPowerMode(m) \/ postSetPowerMode(m)
    \/ \E s \in TimeoutOverride :
         setPresentTimeoutParameters([set |-> TRUE, timeout |-> s.timeout, schedule |-> s.schedule])
    \/ setPresentTimeoutParameters(NoOverride)
    \/ \E t \in ControllerType : setPresentTimeoutController(t)
    \/ \E r \in MinimumRate, l \in LockTime, ok \in WriteResult : setFixedRefreshRateRange(r, l, ok)
    \/ stopThread

PresentUnlocked == presentTakeFence \/ presentCloseFence \/ onPresentEnd

Present ==
    \/ \E t \in PresentOffset : setExpectedPresentTime(t)
    \/ onPresentDisabled
    \/ onPresentAtMinimumRate
    \/ onPresentBegin
    \/ PresentUnlocked

Thread ==
    \/ ThreadExit \/ WaitForEnable \/ Continue \/ WaitForEvent \/ WaitForDueTime
    \/ OnVendorTimeoutInit \/ OnVendorTimeoutPost \/ OnSystemTimeout
    \/ OnNotifyExpectedPresent \/ OnHibernateTimeout \/ OnUpdateDbi
    \/ OnCalculator \/ OnMinLock
    \/ threadTakeFence \/ threadCloseFence

Next == HalCalls \/ Present \/ Thread \/ SpuriousWakeup \/ Tick

Spec == Init /\ [][Next]_vars

(* A thread that may run eventually does, and time passes.                 *)
Fairness == WF_vars(Thread) /\ WF_vars(PresentUnlocked) /\ WF_vars(Tick)

FairSpec == Spec /\ Fairness
-----------------------------------------------------------------------------
(* Properties.                                                             *)

Fences == {"none", "bad", "fd"}
Commands == [written : BOOLEAN, auto : BOOLEAN, minimum : Nat]

TypeOK ==
    /\ mState \in {"Disable", "Rendering", "Hibernate"}
    /\ mEnabled \in BOOLEAN /\ mThreadExit \in BOOLEAN
    /\ mPowerMode \in {"Unset", "Off", "Doze", "Normal"} /\ mVrrActiveConfig \in Config
    /\ queue \in Queues
    /\ mPending \in [set : BOOLEAN, time : Time] /\ mNextExpected \in BOOLEAN
    /\ mController \in {"kNone", "kSoftware", "kHardware"}
    /\ mDefaultController \in {"kNone", "kSoftware", "kHardware"}
    /\ mOverride \in [set : BOOLEAN, timeout : Nat, schedule : Seq(Nat)]
    /\ mMinimumRefreshRate \in Nat /\ mMaximumTimeout \in Nat
    /\ presentStates \in {"Unset", "AtMinimum", "AtMaximum", "Transition"}
    /\ panel \in Commands
    /\ mLastRefreshRate \in Nat
    /\ baseTime \in Time /\ tasks \in Seq(Time)
    /\ nextTaskIndex \in Nat /\ taskSpace \in Nat
    /\ mLastPresentFence \in Fences /\ threadFence \in Fences /\ presenterFence \in Fences
    /\ openFences \in Int
    /\ pc \in Sleeping \union {"Top", "TakeFence", "CloseFence", "Exited"}
    /\ woken \in BOOLEAN /\ deadline \in 0 .. Horizon
    /\ ppc \in {"Idle", "TakeFence", "CloseFence", "StoreFence"}

Queued(t) == \E d \in Due : queue[t][d] > 0

(* addTask writes taskExecutionTimeNs[numberOfTasks++] unchecked, and      *)
(* scheduleNextTask reads taskExecutionTimeNs[nextTaskIndex++] unless the  *)
(* two counters are equal: both stay within the vector, so no init event   *)
(* is ever handled on top of the tasks of an earlier one.                  *)
VendorTasksInBounds == Len(tasks) <= taskSpace /\ nextTaskIndex <= Len(tasks)

(* A duplicated present fence is held by mLastPresentFence or by one of    *)
(* the two threads inside updateVsyncHistory, and by exactly one of them:  *)
(* none is leaked when a newer one is stored and none is closed twice.     *)
FencesConserved ==
    openFences = OpenCount(mLastPresentFence) + OpenCount(threadFence) + OpenCount(presenterFence)

(* Whenever the hardware is in charge of present timeouts, the panel's     *)
(* frame insertion auto mode is on and no software timeout is pending that *)
(* would turn it off again.                                                *)
HardwareHasAutoMode ==
    mController = "kHardware" => panel.auto /\ ~Queued("VendorInit") /\ ~Queued("VendorPost")

(* The peak rate's timer runs exactly while the peak rate is held (or the  *)
(* transition lasts): a change of the minimum rate, of the configuration   *)
(* or of the power mode never loses it and never leaves a second one.      *)
MinLockMatchesState ==
    /\ presentStates \in PeakStates <=> Queued("MinLock")
    /\ \A d \in Due : queue["MinLock"][d] <= 1
    /\ \A d, e \in Due : queue["MinLock"][d] > 0 /\ queue["MinLock"][e] > 0 => d = e

(* While a minimum refresh rate is set, the rate written to the panel is   *)
(* that of the present state: the minimum rate, or the active              *)
(* configuration's maximum at the peak, which is then also the rate last   *)
(* told to the listeners.                                                  *)
PanelFollowsPresentState ==
    /\ presentStates = "AtMinimum" =>
          panel.minimum = mMinimumRefreshRate
    /\ presentStates \in PeakStates =>
          /\ panel.minimum = MaxFrameRate[mVrrActiveConfig]
          /\ mLastRefreshRate = convertToValidRefreshRate(mVrrActiveConfig, MaxFrameRate[mVrrActiveConfig])

(* No wake-up is lost: a sleeping thread that nobody has notified wakes by *)
(* itself before any rendering timeout or notification is overdue.         *)
TimelyWakeup ==
    pc \in {"SleepEmpty", "SleepTimed"} /\ ~woken /\ mEnabled =>
      \A t \in {"SystemTimeout", "VendorInit", "VendorPost", "NotifyExpectedPresent"}, d \in Due :
        queue[t][d] > 0 => pc = "SleepTimed" /\ (deadline <= d \/ deadline = 0)

(* The controller renders or hibernates only while the display is on: a    *)
(* power-off leaves no event and no frame behind that revives it, as long  *)
(* as the HAL is not told of frames while the display is off.              *)
DisabledWhileOff == mState # "Disable" => mPowerMode = "Normal"

(* The peak refresh rate is not held for ever: its timer is handled,       *)
(* unless the controller is disabled (its events are dropped then).        *)
PeakRateReleased ==
    mEnabled /\ presentStates = "AtMaximum" ~> ~mEnabled \/ presentStates # "AtMaximum"

(* The frame insertions that one present starts come to an end, unless the *)
(* controller is disabled.                                                 *)
InsertingFrames == Queued("VendorInit") \/ Queued("VendorPost")
FrameInsertionEnds == mEnabled /\ InsertingFrames ~> ~mEnabled \/ ~InsertingFrames

(* A controller that is told to stop does stop, wherever its thread waits. *)
ThreadStops == mThreadExit ~> pc = "Exited"

(* The controller goes through the cycle its header describes: no step     *)
(* skips the transition, promotes without a lock time, or changes the      *)
(* state of a range that was set again.                                    *)
Cycle == INSTANCE MinimumRateCycle
           WITH state <- presentStates, rate <- mMinimumRefreshRate, lockTime <- mMaximumTimeout
ImplementsCycle == Cycle!Spec
=============================================================================
