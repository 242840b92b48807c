------------------------ MODULE VrrController_proofs ------------------------
(***************************************************************************)
(* Theorems about the controller: its type invariant, the conservation of  *)
(* fences, the bounds of the vendor's tasks, the cycle of the minimum      *)
(* refresh rate, the hardware controller's auto mode, the state of a       *)
(* display that is off, the peak rate's timer and the panel's rate, and    *)
(* the thread's wake-ups.  Each has an inductive invariant, the facts it   *)
(* needs about queues, and one step per action.                            *)
(***************************************************************************)
EXTENDS VrrController, TLAPS, WellFoundedInduction, SequenceTheorems

LEMMA SmallestElement ==
  ASSUME NEW S \in SUBSET Nat, S # {}
  PROVE  \E v \in S : \A w \in S : v <= w
<1>1. PICK x \in S : \A y \in S : ~(<<y, x>> \in OpToRel(<, Nat))
  BY NatLessThanWellFounded, WFMin
<1>2. \A y \in S : ~(y < x)
  BY <1>1 DEF OpToRel
<1> QED  BY <1>2

LEMMA ValidRateType ==
  ASSUME NEW config \in Config, NEW rate \in Nat
  PROVE  convertToValidRefreshRate(config, rate) \in Nat
<1> DEFINE candidates == {v \in ValidRefreshRates[config] : v >= rate}
<1>1. candidates \subseteq Nat /\ MaxFrameRate[config] \in Nat
  BY ConfigAssumption
<1>2. CASE candidates = {}
  BY <1>1, <1>2 DEF convertToValidRefreshRate
<1>3. CASE candidates # {}
  <2>1. \E v \in candidates : \A w \in candidates : v <= w
    BY <1>1, <1>3, SmallestElement
  <2> QED  BY <1>1, <1>3, <2>1 DEF convertToValidRefreshRate
<1> QED  BY <1>2, <1>3

LEMMA EventTypes ==
  /\ "VendorInit" \in EventType /\ "VendorPost" \in EventType
  /\ "SystemTimeout" \in EventType /\ "HibernateTimeout" \in EventType
  /\ "NotifyExpectedPresent" \in EventType /\ "UpdateDbi" \in EventType
  /\ "Calculator" \in EventType /\ "MinLock" \in EventType
  /\ Vendor \subseteq General /\ General \subseteq EventType
BY DEF EventType, General, Vendor, Callback

LEMMA DueAtType ==
  ASSUME NEW d \in Int
  PROVE  DueAt(d) \in Due
BY TimeAssumption DEF DueAt, Due

LEMMA PostType ==
  ASSUME NEW q \in Queues, NEW t \in EventType, NEW d \in Int
  PROVE  PostEvent(q, t, d) \in Queues
BY DueAtType DEF PostEvent, Queues

LEMMA PopType ==
  ASSUME NEW q \in Queues, NEW t \in EventType, NEW d \in Due, q[t][d] > 0
  PROVE  PopEvent(q, t, d) \in Queues
BY DEF PopEvent, Queues

LEMMA DropType ==
  ASSUME NEW q \in Queues, NEW types
  PROVE  DropEvents(q, types) \in Queues
BY DEF DropEvents, Queues, NoTimers

LEMMA ShiftType ==
  ASSUME NEW timers \in [Due -> Nat]
  PROVE  Shift(timers) \in [Due -> Nat]
<1>1. Horizon \in Nat /\ MaxLag \in Nat /\ 0 < MaxLag /\ MaxLag <= Horizon
  BY TimeAssumption
<1>2. \A d \in Due : d # Horizon => d + 1 \in Due
  BY <1>1 DEF Due
<1>3. -MaxLag # Horizon
  BY <1>1
<1>4. \A d \in Due : (IF d = -MaxLag THEN timers[d] + timers[d + 1]
                      ELSE IF d = Horizon THEN 0 ELSE timers[d + 1]) \in Nat
  BY <1>2, <1>3
<1> QED  BY <1>4 DEF Shift

LEMMA DbiType ==
  ASSUME NEW q \in Queues, NEW r \in WithDbiUpdate(q)
  PROVE  r \in Queues
<1>1. PostEvent(q, "UpdateDbi", 0) \in Queues
  BY PostType, EventTypes
<1> QED  BY <1>1 DEF WithDbiUpdate

LEMMA RateType ==
  ASSUME NEW config \in Config, NEW rate \in Nat, onRefreshRateChangedInternal(config, rate)
  PROVE  mLastRefreshRate' \in Nat
BY ValidRateType DEF onRefreshRateChangedInternal

LEMMA ReportType ==
  ASSUME TypeOK, CalculatorMayReport
  PROVE  mLastRefreshRate' \in Nat
BY ConfigAssumption, RateType DEF TypeOK, CalculatorMayReport

LEMMA WriteType ==
  ASSUME TypeOK, NEW ok, NEW command \in Commands, WriteRefreshControl(ok, command)
  PROVE  panel' \in Commands
BY DEF TypeOK, WriteRefreshControl, Commands

LEMMA CancelType ==
  ASSUME TypeOK, NEW q \in Queues, cancelPresentTimeoutHandlingLocked(q)
  PROVE  queue' \in Queues /\ tasks' \in Seq(Time) /\ nextTaskIndex' \in Nat /\ taskSpace' \in Nat
BY DropType DEF TypeOK, cancelPresentTimeoutHandlingLocked

LEMMA SystemTimeoutType ==
  ASSUME NEW q \in Queues, NEW config
  PROVE  SystemTimeoutEvent(q, config) \in Queues
<1>1. NotifyTimeout \in Int
  BY TimeAssumption
<1>2. PostEvent(q, "SystemTimeout", NotifyTimeout) \in Queues
  BY <1>1, PostType, EventTypes
<1> QED  BY <1>2 DEF SystemTimeoutEvent

LEMMA NotifyType ==
  ASSUME woken \in BOOLEAN, NotifyAll
  PROVE  woken' \in BOOLEAN
BY DEF NotifyAll

LEMMA TypeInit == Init => TypeOK
<1> SUFFICES ASSUME Init PROVE TypeOK
  OBVIOUS
<1>1. queue \in Queues
  BY DEF Init, Queues, EmptyQueue, NoTimers
<1>2. 0 \in Time /\ 0 \in 0 .. Horizon
  BY TimeAssumption DEF Time
<1>3. mPending \in [set : BOOLEAN, time : Time]
  BY <1>2 DEF Init, NoPresent
<1>4. mOverride \in [set : BOOLEAN, timeout : Nat, schedule : Seq(Nat)]
  BY EmptySeq DEF Init, NoOverride
<1>5. panel \in Commands
  BY DEF Init, Commands
<1>6. tasks \in Seq(Time) /\ taskSpace \in Nat
  BY EmptySeq, VendorAssumption DEF Init
<1>7. {mEnabled, mThreadExit, mNextExpected, woken} \subseteq BOOLEAN
  BY Zenon DEF Init
<1> QED
  BY <1>1, <1>2, <1>3, <1>4, <1>5, <1>6, <1>7 DEF Init, TypeOK, Fences, Sleeping

LEMMA TypeHal ==
  ASSUME TypeOK, HalCalls
  PROVE  TypeOK'
<1> USE EventTypes
<1>1. CASE notifyExpectedPresent
  <2>1. PostEvent(queue, "NotifyExpectedPresent", 0) \in Queues
    BY PostType DEF TypeOK
  <2> QED
    BY <1>1, <2>1, NotifyType
     DEF notifyExpectedPresent, TypeOK, modeVars, rateVars, taskVars, fenceVars, threadVars
<1>2. ASSUME NEW c \in Config, setActiveVrrConfiguration(c)
      PROVE  TypeOK'
  <2>1. panel' \in Commands /\ mLastRefreshRate' \in Nat
    BY <1>2, WriteType, RateType, ConfigAssumption
       DEF setActiveVrrConfiguration, FollowMaximumRate, TypeOK, Commands
  <2>2. queue' \in Queues /\ woken' \in BOOLEAN
    BY <1>2, DbiType, DropType, SystemTimeoutType, NotifyType DEF setActiveVrrConfiguration, TypeOK
  <2> QED
    BY <1>2, <2>1, <2>2
       DEF setActiveVrrConfiguration, TypeOK, modeVars, rateVars, taskVars, fenceVars, threadVars
<1>3. ASSUME NEW b \in EnableValue, setEnable(b)
      PROVE  TypeOK'
  <2>1. EmptyQueue \in Queues
    BY DEF EmptyQueue, NoTimers, Queues
  <2> QED
    BY <1>3, <2>1, NotifyType, ConfigAssumption
       DEF setEnable, TypeOK, rateVars, taskVars, fenceVars, threadVars
<1>4. ASSUME NEW m \in PowerMode, preSetPowerMode(m)
      PROVE  TypeOK'
  <2>1. queue' \in Queues /\ tasks' \in Seq(Time) /\ nextTaskIndex' \in Nat /\ taskSpace' \in Nat
    BY <1>4, CancelType DEF preSetPowerMode, TypeOK, taskVars
  <2>2. panel' \in Commands
    BY <1>4, WriteType DEF preSetPowerMode, TypeOK, Commands
  <2> QED
    BY <1>4, <2>1, <2>2
       DEF preSetPowerMode, TypeOK, modeVars, rateVars, fenceVars, threadVars
<1>5. ASSUME NEW m \in PowerMode, postSetPowerMode(m)
      PROVE  TypeOK'
  <2>1. MeasurePeriod \in Int
    BY TimeAssumption
  <2>2. \A q \in Queues : ResumeCalculator(q) \in Queues
    BY <2>1, PostType DEF ResumeCalculator
  <2>3. DropGeneralEvents(queue) \in Queues
    BY DropType DEF DropGeneralEvents, TypeOK
  <2>4. SystemTimeoutEvent(queue, mVrrActiveConfig) \in Queues
    BY SystemTimeoutType DEF TypeOK
  <2>5. queue' \in Queues
    BY <1>5, <2>2, <2>3, <2>4 DEF postSetPowerMode
  <2> QED
    BY <1>5, <2>5, NotifyType
       DEF postSetPowerMode, TypeOK, rateVars, taskVars, fenceVars, threadVars
<1>6. ASSUME NEW override \in [set : BOOLEAN, timeout : Nat, schedule : Seq(Nat)],
             setPresentTimeoutParameters(override)
      PROVE  TypeOK'
  BY <1>6
     DEF setPresentTimeoutParameters, TypeOK, modeVars, rateVars, taskVars, fenceVars, threadVars
<1>7. ASSUME NEW t \in ControllerType, setPresentTimeoutController(t)
      PROVE  TypeOK'
  <2>1. queue' \in Queues /\ tasks' \in Seq(Time) /\ nextTaskIndex' \in Nat /\ taskSpace' \in Nat
    BY <1>7, CancelType DEF setPresentTimeoutController, TypeOK, taskVars
  <2>2. panel' \in Commands
    BY <1>7, WriteType DEF setPresentTimeoutController, TypeOK, Commands
  <2>3. t \in {"kNone", "kSoftware", "kHardware"}
    BY ConfigAssumption
  <2>4. ControllerFor(t) \in {"kNone", "kSoftware", "kHardware"}
    BY DEF ControllerFor, TypeOK
  <2> QED
    BY <1>7, <2>1, <2>2, <2>3, <2>4
       DEF setPresentTimeoutController, TypeOK, modeVars, rateVars, fenceVars, threadVars
<1>8. ASSUME NEW r \in MinimumRate, NEW l \in LockTime, NEW ok \in WriteResult,
             setFixedRefreshRateRange(r, l, ok)
      PROVE  TypeOK'
  <2>0. r \in Nat /\ l \in Nat
    BY ConfigAssumption, TimeAssumption
  <2>1. queue' \in Queues /\ tasks' \in Seq(Time) /\ nextTaskIndex' \in Nat /\ taskSpace' \in Nat
    BY <1>8, CancelType, DropType
       DEF setFixedRefreshRateRange, FixMinimumRate, UnsetMinimumRate, TypeOK, taskVars
  <2>2. panel' \in Commands
    BY <1>8, <2>0, WriteType
       DEF setFixedRefreshRateRange, FixMinimumRate, UnsetMinimumRate, TypeOK, Commands
  <2>3. mLastRefreshRate' \in Nat
    BY <1>8, <2>0, RateType
       DEF setFixedRefreshRateRange, FixMinimumRate, UnsetMinimumRate, TypeOK
  <2>4. /\ mMinimumRefreshRate' \in Nat /\ mMaximumTimeout' \in Nat
        /\ presentStates' \in {"Unset", "AtMinimum", "AtMaximum", "Transition"}
        /\ mController' \in {"kNone", "kSoftware", "kHardware"}
    BY <1>8, <2>0 DEF setFixedRefreshRateRange, FixMinimumRate, UnsetMinimumRate, TypeOK
  <2> QED
    BY <1>8, <2>1, <2>2, <2>3, <2>4
       DEF setFixedRefreshRateRange, TypeOK, modeVars, fenceVars, threadVars
<1>9. CASE stopThread
  <2>1. woken' \in BOOLEAN
    BY <1>9, NotifyType DEF stopThread, TypeOK
  <2>2. mEnabled' \in BOOLEAN /\ mThreadExit' \in BOOLEAN
    BY <1>9, Zenon DEF stopThread
  <2> QED
    BY <1>9, <2>1, <2>2
     DEF stopThread, TypeOK, rateVars, taskVars, fenceVars, threadVars
<1>10. NoOverride \in [set : BOOLEAN, timeout : Nat, schedule : Seq(Nat)]
  BY EmptySeq DEF NoOverride
<1>11. ASSUME NEW s \in TimeoutOverride
       PROVE  [set |-> TRUE, timeout |-> s.timeout, schedule |-> s.schedule]
                \in [set : BOOLEAN, timeout : Nat, schedule : Seq(Nat)]
  BY VendorAssumption
<1> QED
  BY <1>1, <1>2, <1>3, <1>4, <1>5, <1>6, <1>7, <1>8, <1>9, <1>10, <1>11 DEF HalCalls

LEMMA SaturatedType ==
  ASSUME NEW t \in Int, -Horizon <= t
  PROVE  SaturatedTime(t) \in Time
BY TimeAssumption DEF SaturatedTime, Time

LEMMA TypePresent ==
  ASSUME TypeOK, Present
  PROVE  TypeOK'
<1> USE EventTypes
<1>0. queue \in Queues /\ mPending.time \in Int /\ mMaximumTimeout \in Int /\ TransitionDelay \in Int
  BY TimeAssumption DEF TypeOK, Time
<1>1. ASSUME NEW t \in PresentOffset, setExpectedPresentTime(t)
      PROVE  TypeOK'
  <2>1. queue' \in Queues /\ tasks' \in Seq(Time) /\ nextTaskIndex' \in Nat /\ taskSpace' \in Nat
    BY <1>0, <1>1, CancelType, DropType DEF setExpectedPresentTime
  <2>2. t \in Time
    BY TimeAssumption
  <2>3. mPending' \in [set : BOOLEAN, time : Time]
    BY <1>1, <2>2 DEF setExpectedPresentTime
  <2> QED
    BY <1>1, <2>1, <2>2, <2>3
       DEF setExpectedPresentTime, TypeOK, modeVars, rateVars, fenceVars, threadVars
<1>2. CASE onPresentDisabled
  <2>1. queue' \in Queues /\ mLastRefreshRate' \in Nat
    BY <1>0, <1>2, DbiType, ReportType DEF onPresentDisabled
  <2> QED
    BY <1>2, <2>1
       DEF onPresentDisabled, TypeOK, modeVars, rateVars, taskVars, fenceVars, threadVars
<1>3. CASE onPresentAtMinimumRate
  <2>1. \A q \in Queues : LeaveHibernate(q) \in Queues
    BY DropType DEF LeaveHibernate
  <2>2. ASSUME NEW q \in Queues, PromoteToMaximum(q)
        PROVE  /\ queue' \in Queues /\ panel' \in Commands /\ mLastRefreshRate' \in Nat
               /\ presentStates' \in {"Unset", "AtMinimum", "AtMaximum", "Transition"}
    <3>1. mVrrActiveConfig \in Config /\ MaxFrameRate[mVrrActiveConfig] \in Nat
      BY ConfigAssumption DEF TypeOK
    <3>2. PostEvent(q, "MinLock", mPending.time + mMaximumTimeout) \in Queues
      BY <1>0, PostType
    <3>3. panel' \in Commands
      BY <2>2, <3>1, WriteType DEF PromoteToMaximum, PromoteFrom, TypeOK, Commands
    <3> QED
      BY <2>2, <3>1, <3>2, <3>3, RateType DEF PromoteToMaximum, PromoteFrom, TypeOK
  <2>3. ASSUME NEW q \in Queues, ExtendTransition(q)
        PROVE  queue' \in Queues
    BY <1>0, <2>3, PostType, DropType DEF ExtendTransition
  <2> QED
    <3>1. PICK dbi \in WithDbiUpdate(queue) :
            \/ PromoteToMaximum(LeaveHibernate(dbi))
            \/ ExtendTransition(LeaveHibernate(dbi))
            \/ KeepPresentState(LeaveHibernate(dbi))
      BY <1>3 DEF onPresentAtMinimumRate
    <3>2. LeaveHibernate(dbi) \in Queues
      BY <1>0, <2>1, DbiType
    <3>3. /\ queue' \in Queues /\ panel' \in Commands /\ mLastRefreshRate' \in Nat
          /\ presentStates' \in {"Unset", "AtMinimum", "AtMaximum", "Transition"}
      BY <2>2, <2>3, <3>1, <3>2 DEF ExtendTransition, KeepPresentState, TypeOK
    <3> QED
      BY <1>3, <3>3
         DEF onPresentAtMinimumRate, TypeOK, modeVars, taskVars, fenceVars, threadVars
<1>4. CASE onPresentBegin
  <2>1. queue' \in Queues /\ mLastRefreshRate' \in Nat
    BY <1>0, <1>4, DbiType, DropType, ReportType DEF onPresentBegin, LeaveHibernate
  <2> QED
    BY <1>4, <2>1
       DEF onPresentBegin, TypeOK, modeVars, rateVars, taskVars, fenceVars, threadVars
<1>5. CASE presentTakeFence
  BY <1>5
     DEF presentTakeFence, takenFence, TypeOK, Fences, modeVars, rateVars, taskVars, threadVars
<1>6. CASE presentCloseFence
  BY <1>6
     DEF presentCloseFence, OpenCount, TypeOK, Fences, modeVars, rateVars, taskVars, threadVars
<1>7. CASE onPresentEnd
  <2>1. NextRenderingTimeout \in Int /\ AheadOfTime \in Int /\ FirstTimeout \in Nat
    BY TimeAssumption DEF NextRenderingTimeout, FirstTimeout, TypeOK
  <2>2. PostEvent(queue, "SystemTimeout", NextRenderingTimeout) \in Queues
    BY <1>0, <2>1, PostType
  <2>3. PostEvent(PostEvent(queue, "SystemTimeout", NextRenderingTimeout), "VendorInit",
                  mPending.time + FirstTimeout - AheadOfTime) \in Queues
    <3>1. mPending.time + FirstTimeout - AheadOfTime \in Int
      BY <1>0, <2>1
    <3> QED  BY <2>2, <3>1, PostType, EventTypes
  <2>4. baseTime \in Time /\ SaturatedTime(baseTime + FirstTimeout) \in Time
    <3>1. baseTime \in Int /\ -Horizon <= baseTime
      BY TimeAssumption DEF TypeOK, Time
    <3>2. baseTime + FirstTimeout \in Int /\ -Horizon <= baseTime + FirstTimeout
      BY <2>1, <3>1, TimeAssumption
    <3> QED  BY <3>2, SaturatedType DEF TypeOK
  <2>5. queue' \in Queues /\ baseTime' \in Time
    BY <1>7, <2>2, <2>3, <2>4 DEF onPresentEnd
  <2>6. mPending' \in [set : BOOLEAN, time : Time]
    BY <1>7, TimeAssumption DEF onPresentEnd, NoPresent, Time
  <2>7. mLastPresentFence' \in Fences /\ openFences' \in Int
    BY <1>7 DEF onPresentEnd, OpenCount, Fences, TypeOK
  <2> QED
    BY <1>7, <2>5, <2>6, <2>7, NotifyType
       DEF onPresentEnd, TypeOK, modeVars, rateVars, taskVars, threadVars
<1> QED
  BY <1>1, <1>2, <1>3, <1>4, <1>5, <1>6, <1>7 DEF Present, PresentUnlocked

LEMMA GoToType ==
  ASSUME NEW where \in Sleeping \union {"Top", "TakeFence", "CloseFence", "Exited"},
         NEW until \in 0 .. Horizon, Sleep(where, until) \/ GoTo(where)
  PROVE  /\ pc' \in Sleeping \union {"Top", "TakeFence", "CloseFence", "Exited"}
         /\ deadline' \in 0 .. Horizon
         /\ woken' \in BOOLEAN
<1>1. woken' \in BOOLEAN
  BY Zenon DEF Sleep, GoTo
<1> QED  BY <1>1, TimeAssumption DEF Sleep, GoTo

LEMMA TaskTimeType ==
  ASSUME NEW times \in Seq(Time), NEW next \in Nat, next < Len(times)
  PROVE  times[next + 1] - AheadOfTime \in Int
<1>1. times[next + 1] \in Time
  BY LenProperties
<1>2. \A time \in Time : time \in Int
  BY TimeAssumption DEF Time
<1>3. AheadOfTime \in Int
  BY TimeAssumption
<1> QED  BY <1>1, <1>2, <1>3

LEMMA ScheduleType ==
  ASSUME NEW q \in Queues, NEW times \in Seq(Time), NEW next \in Nat,
         ScheduleNextTask(q, times, next)
  PROVE  queue' \in Queues /\ nextTaskIndex' \in Nat
<1> DEFINE at == IF next < Len(times) THEN times[next + 1] - AheadOfTime ELSE 0
<1>1. CASE Len(times) = next
  BY <1>1 DEF ScheduleNextTask
<1>2. CASE Len(times) # next
  <2>2. at \in Int
    BY TaskTimeType
  <2>3. (IF at < 0 THEN 0 ELSE at) \in Int
    BY <2>2
  <2> HIDE DEF at
  <2>4. PostEvent(q, "VendorPost", IF at < 0 THEN 0 ELSE at) \in Queues
    BY <2>3, PostType, EventTypes
  <2> QED  BY <1>2, <2>4 DEF ScheduleNextTask, at
<1> QED  BY <1>1, <1>2

LEMMA PresentTimeoutType ==
  ASSUME TypeOK, NEW q \in Queues, NEW times \in Seq(Time), NEW next \in Nat,
         handlePresentTimeout(q, times, next)
  PROVE  /\ queue' \in Queues /\ nextTaskIndex' \in Nat /\ panel' \in Commands
         /\ mController' \in {"kNone", "kSoftware", "kHardware"}
<1>1. queue' \in Queues /\ nextTaskIndex' \in Nat
  BY DbiType, ScheduleType DEF handlePresentTimeout
<1>2. panel' \in Commands
  <2>1. [panel EXCEPT !.auto = FALSE] \in Commands
    BY DEF TypeOK, Commands
  <2> QED  BY <2>1, WriteType DEF handlePresentTimeout, TypeOK
<1> QED  BY <1>1, <1>2 DEF handlePresentTimeout, TypeOK

LEMMA AddedTasksType ==
  ASSUME TypeOK
  PROVE  AddedTasks \in Seq(Time) /\ Len(AddedTasks) = Len(tasks) + Len(Schedule)
<1>1. Schedule \in Seq(Nat)
  BY VendorAssumption DEF Schedule, TypeOK
<1>2. \A i \in 1 .. Len(Schedule) : Schedule[i] \in Nat
  BY <1>1
<1>3. \A i \in 1 .. Len(Schedule) : SaturatedTime(baseTime + Schedule[i]) \in Time
  <2>1. baseTime \in Int /\ -Horizon <= baseTime
    BY TimeAssumption DEF TypeOK, Time
  <2>2. \A n \in Nat : baseTime + n \in Int /\ -Horizon <= baseTime + n
    BY <2>1, TimeAssumption
  <2> QED  BY <1>2, <2>2, SaturatedType
<1>4. Len(Schedule) \in Nat
  BY <1>1
<1>5. /\ [i \in 1 .. Len(Schedule) |-> SaturatedTime(baseTime + Schedule[i])] \in Seq(Time)
      /\ Len([i \in 1 .. Len(Schedule) |-> SaturatedTime(baseTime + Schedule[i])]) = Len(Schedule)
  BY <1>3, <1>4
<1> QED
  BY <1>5, ConcatProperties DEF AddedTasks, TypeOK

LEMMA ThreadType ==
  ASSUME TypeOK, Thread
  PROVE  TypeOK'
<1> USE EventTypes
<1>0. /\ queue \in Queues /\ TransitionDelay \in Int /\ WakeUpPeriod \in Int /\ MeasurePeriod \in Int
      /\ 0 \in 0 .. Horizon
  BY TimeAssumption DEF TypeOK
<1>1. CASE ThreadExit \/ WaitForEnable \/ Continue \/ WaitForEvent
  <2>1. \E where \in Sleeping \union {"Top", "Exited"} : Sleep(where, 0) \/ GoTo(where)
    BY <1>1, Zenon DEF ThreadExit, WaitForEnable, Continue, WaitForEvent, Sleeping
  <2>2. /\ pc' \in Sleeping \union {"Top", "TakeFence", "CloseFence", "Exited"}
        /\ deadline' \in 0 .. Horizon /\ woken' \in BOOLEAN
    BY <1>0, <2>1, GoToType
  <2>3. ThreadUnchanged
    BY <1>1 DEF ThreadExit, WaitForEnable, Continue, WaitForEvent
  <2> QED
    BY <2>2, <2>3 DEF ThreadUnchanged, TypeOK, modeVars, rateVars, taskVars, fenceVars
<1>2. CASE WaitForDueTime
  <2>1. PICK d \in Due : d > 0 /\ Sleep("SleepTimed", d)
    BY <1>2 DEF WaitForDueTime
  <2>2. d \in 0 .. Horizon
    BY <2>1, TimeAssumption DEF Due
  <2> QED
    BY <1>2, <2>1, <2>2, GoToType
       DEF WaitForDueTime, ThreadUnchanged, TypeOK, Sleeping, modeVars, rateVars, taskVars, fenceVars
<1>3. \A t \in EventType, d \in Due : Pops(t, d) => PopEvent(queue, t, d) \in Queues
  BY <1>0, PopType DEF Pops, IsTop
<1>4. \A where \in {"Top", "TakeFence", "CloseFence"} : GoTo(where) =>
        /\ pc' \in Sleeping \union {"Top", "TakeFence", "CloseFence", "Exited"}
        /\ deadline' \in 0 .. Horizon /\ woken' \in BOOLEAN
  BY <1>0, GoToType
<1>5. CASE OnVendorTimeoutInit
  <2>1. PICK d \in Due : Pops("VendorInit", d) /\ OnVendorTimeoutInit
    BY <1>5 DEF OnVendorTimeoutInit
  <2>2. \A e \in Due : Pops("VendorInit", e) => PopEvent(queue, "VendorInit", e) \in Queues
    BY <1>3
  <2>3. Len(Schedule) \in Nat
    BY VendorAssumption DEF Schedule, TypeOK
  <2>4. /\ queue' \in Queues /\ tasks' \in Seq(Time) /\ nextTaskIndex' \in Nat /\ taskSpace' \in Nat
        /\ panel' \in Commands /\ mController' \in {"kNone", "kSoftware", "kHardware"}
    BY <1>5, <2>2, <2>3, PresentTimeoutType, AddedTasksType DEF OnVendorTimeoutInit, TypeOK, taskVars
  <2> QED
    BY <1>4, <1>5, <2>4 DEF OnVendorTimeoutInit, TypeOK, modeVars, rateVars, fenceVars
<1>6. CASE OnVendorTimeoutPost
  <2>1. \A e \in Due : Pops("VendorPost", e) => PopEvent(queue, "VendorPost", e) \in Queues
    BY <1>3
  <2>2. /\ queue' \in Queues /\ nextTaskIndex' \in Nat /\ panel' \in Commands
        /\ mController' \in {"kNone", "kSoftware", "kHardware"}
    BY <1>6, <2>1, PresentTimeoutType DEF OnVendorTimeoutPost, TypeOK
  <2> QED
    BY <1>4, <1>6, <2>2 DEF OnVendorTimeoutPost, TypeOK, modeVars, rateVars, fenceVars
<1>7. CASE OnSystemTimeout
  <2>1. \A q \in Queues : PostEvent(q, "HibernateTimeout", WakeUpPeriod) \in Queues
    BY <1>0, PostType
  <2>2. queue' \in Queues
    BY <1>3, <1>7, <2>1, DbiType DEF OnSystemTimeout
  <2> QED
    BY <1>4, <1>7, <2>2
       DEF OnSystemTimeout, TypeOK, modeVars, rateVars, taskVars, fenceVars
<1>8. CASE OnNotifyExpectedPresent
  <2>1. queue' \in Queues
    BY <1>3, <1>8 DEF OnNotifyExpectedPresent
  <2>2. mNextExpected' \in BOOLEAN
    BY <1>8, Zenon DEF OnNotifyExpectedPresent
  <2> QED
    BY <1>4, <1>8, <2>1, <2>2
       DEF OnNotifyExpectedPresent, TypeOK, modeVars, rateVars, taskVars, fenceVars
<1>9. CASE OnHibernateTimeout
  <2>1. \A q \in Queues : PostEvent(q, "HibernateTimeout", WakeUpPeriod) \in Queues
    BY <1>0, PostType
  <2>2. queue' \in Queues
    BY <1>3, <1>9, <2>1 DEF OnHibernateTimeout
  <2> QED
    BY <1>4, <1>9, <2>2
       DEF OnHibernateTimeout, TypeOK, modeVars, rateVars, taskVars, fenceVars
<1>10. CASE OnUpdateDbi
  <2>1. queue' \in Queues
    BY <1>3, <1>10 DEF OnUpdateDbi
  <2> QED
    BY <1>4, <1>10, <2>1 DEF OnUpdateDbi, TypeOK, modeVars, rateVars, taskVars, fenceVars
<1>11. CASE OnCalculator
  <2>1. \A q \in Queues, d \in Due : PostEvent(q, "Calculator", d + MeasurePeriod) \in Queues
    BY <1>0, PostType, TimeAssumption DEF Due
  <2>2. queue' \in Queues
    BY <1>3, <1>11, <2>1 DEF OnCalculator
  <2>3. mLastRefreshRate' \in Nat
    BY <1>11, ReportType DEF OnCalculator
  <2> QED
    BY <1>4, <1>11, <2>2, <2>3
       DEF OnCalculator, TypeOK, modeVars, rateVars, taskVars, fenceVars
<1>12. CASE OnMinLock
  <2>1. \A q \in Queues : PostEvent(q, "MinLock", TransitionDelay) \in Queues
    BY <1>0, PostType
  <2>2. ASSUME NEW q \in Queues, StartTransition(q)
        PROVE  /\ queue' \in Queues /\ panel' \in Commands /\ mLastRefreshRate' \in Nat
               /\ presentStates' \in {"Unset", "AtMinimum", "AtMaximum", "Transition"}
    BY <2>1, <2>2 DEF StartTransition, TypeOK
  <2>3. ASSUME NEW q \in Queues, ReturnToMinimum(q)
        PROVE  /\ queue' \in Queues /\ panel' \in Commands /\ mLastRefreshRate' \in Nat
               /\ presentStates' \in {"Unset", "AtMinimum", "AtMaximum", "Transition"}
    <3>1. panel' \in Commands
      BY <2>3, WriteType DEF ReturnToMinimum, TypeOK, Commands
    <3> QED
      BY <2>3, <3>1, RateType DEF ReturnToMinimum, TypeOK
  <2>4. /\ queue' \in Queues /\ panel' \in Commands /\ mLastRefreshRate' \in Nat
        /\ presentStates' \in {"Unset", "AtMinimum", "AtMaximum", "Transition"}
    BY <1>3, <1>12, <2>2, <2>3 DEF OnMinLock, TypeOK
  <2> QED
    BY <1>4, <1>12, <2>4
       DEF OnMinLock, TypeOK, modeVars, taskVars, fenceVars
<1>13. CASE threadTakeFence
  BY <1>4, <1>13
     DEF threadTakeFence, takenFence, TypeOK, Fences, modeVars, rateVars, taskVars
<1>14. CASE threadCloseFence
  BY <1>4, <1>14
     DEF threadCloseFence, OpenCount, TypeOK, Fences, modeVars, rateVars, taskVars
<1> QED
  BY <1>1, <1>2, <1>5, <1>6, <1>7, <1>8, <1>9, <1>10, <1>11, <1>12, <1>13, <1>14 DEF Thread

LEMMA EarlierType ==
  ASSUME NEW t \in Time
  PROVE  Earlier(t) \in Time
BY TimeAssumption DEF Earlier, Time

LEMMA TickType ==
  ASSUME TypeOK, Tick
  PROVE  TypeOK'
<1>1. queue' \in Queues
  BY ShiftType DEF Tick, TypeOK, Queues
<1>2. mPending' \in [set : BOOLEAN, time : Time]
  BY EarlierType DEF Tick, TypeOK
<1>3. baseTime' \in Time
  BY EarlierType DEF Tick, TypeOK
<1>4. tasks' \in Seq(Time)
  <2>1. tasks \in Seq(Time) /\ Len(tasks) \in Nat
    BY DEF TypeOK
  <2>2. \A i \in 1 .. Len(tasks) : Earlier(tasks[i]) \in Time
    BY <2>1, EarlierType
  <2> QED  BY <2>1, <2>2 DEF Tick
<1>5. deadline' \in 0 .. Horizon
  <2>1. deadline \in 0 .. Horizon /\ Horizon \in Nat
    BY TimeAssumption DEF TypeOK
  <2>2. deadline' = IF deadline > 0 THEN deadline - 1 ELSE 0
    BY DEF Tick
  <2> QED  BY <2>1, <2>2
<1> QED
  BY <1>1, <1>2, <1>3, <1>4, <1>5 DEF Tick, TypeOK, modeVars, rateVars, fenceVars

LEMMA StutterType ==
  ASSUME TypeOK, UNCHANGED vars
  PROVE  TypeOK'
BY DEF TypeOK, vars, modeVars, rateVars, taskVars, fenceVars, threadVars

LEMMA TypeStep == TypeOK /\ [Next]_vars => TypeOK'
<1> SUFFICES ASSUME TypeOK, [Next]_vars PROVE TypeOK'
  OBVIOUS
<1>1. CASE SpuriousWakeup
  <2>1. woken' \in BOOLEAN
    BY <1>1, Zenon DEF SpuriousWakeup
  <2> QED
    BY <1>1, <2>1
       DEF SpuriousWakeup, ThreadUnchanged, TypeOK, modeVars, rateVars, taskVars, fenceVars, threadVars
<1> QED
  BY <1>1, TypeHal, TypePresent, ThreadType, TickType, StutterType DEF Next

(* Every variable keeps its type: in particular no handler posts, pops or  *)
(* shifts an event out of the queue's range, and every reported rate is a  *)
(* rate.                                                                   *)
THEOREM TypeCorrect == Spec => []TypeOK
BY TypeInit, TypeStep, PTL DEF Spec

-----------------------------------------------------------------------------
(* Fences.                                                                 *)

FenceInv ==
  /\ FencesConserved
  /\ pc # "CloseFence" => threadFence = "none"
  /\ ppc # "CloseFence" => presenterFence = "none"
  /\ ppc \in {"CloseFence", "StoreFence"} => mLastPresentFence = "none"

LEMMA FenceInit == Init => FenceInv
BY DEF Init, FenceInv, FencesConserved, OpenCount

(* A step that touches no fence and no thread that holds one.              *)
LEMMA FenceKept ==
  ASSUME FenceInv, UNCHANGED fenceVars,
         pc' = pc \/ (pc # "CloseFence" /\ pc' # "CloseFence"),
         ppc' = ppc \/ (ppc = "Idle" /\ ppc' \in {"Idle", "TakeFence"})
  PROVE  FenceInv'
BY DEF FenceInv, FencesConserved, OpenCount, fenceVars

LEMMA FenceStep == TypeOK /\ FenceInv /\ [Next]_vars => FenceInv'
<1> SUFFICES ASSUME TypeOK, FenceInv, [Next]_vars PROVE FenceInv'
  OBVIOUS
<1>1. CASE HalCalls
  <2>1. UNCHANGED fenceVars /\ pc' = pc /\ ppc' = ppc
    BY <1>1
       DEF HalCalls, notifyExpectedPresent, setActiveVrrConfiguration, setEnable, preSetPowerMode,
           postSetPowerMode, setPresentTimeoutParameters, setPresentTimeoutController,
           setFixedRefreshRateRange, stopThread, threadVars
  <2> QED  BY <2>1, FenceKept
<1>2. CASE Present
  <2>1. CASE \E t \in PresentOffset : setExpectedPresentTime(t)
    BY <2>1, FenceKept DEF setExpectedPresentTime, threadVars
  <2>2. CASE onPresentDisabled \/ onPresentAtMinimumRate \/ onPresentBegin
    BY <2>2, FenceKept DEF onPresentDisabled, onPresentAtMinimumRate, onPresentBegin, threadVars
  <2>3. CASE presentTakeFence
    BY <2>3 DEF presentTakeFence, takenFence, FenceInv, FencesConserved, OpenCount, threadVars
  <2>4. CASE presentCloseFence
    BY <2>4 DEF presentCloseFence, FenceInv, FencesConserved, OpenCount, threadVars, TypeOK
  <2>5. CASE onPresentEnd
    <3>1. openFences' = openFences + OpenCount(mLastPresentFence')
      BY <2>5 DEF onPresentEnd
    <3>2. UNCHANGED <<threadFence, presenterFence, pc>> /\ ppc = "StoreFence" /\ ppc' = "Idle"
      BY <2>5 DEF onPresentEnd, threadVars
    <3> QED  BY <3>1, <3>2 DEF FenceInv, FencesConserved, OpenCount, TypeOK
  <2> QED  BY <1>2, <2>1, <2>2, <2>3, <2>4, <2>5 DEF Present, PresentUnlocked
<1>3. CASE Thread
  <2>1. CASE ThreadExit \/ WaitForEnable \/ Continue \/ WaitForEvent \/ WaitForDueTime
    BY <2>1, FenceKept
       DEF ThreadExit, WaitForEnable, Continue, WaitForEvent, WaitForDueTime, AtQueue, Sleep, GoTo,
           ThreadUnchanged
  <2>2. CASE OnVendorTimeoutInit \/ OnVendorTimeoutPost \/ OnSystemTimeout \/ OnNotifyExpectedPresent
    BY <2>2, FenceKept
       DEF OnVendorTimeoutInit, OnVendorTimeoutPost, OnSystemTimeout, OnNotifyExpectedPresent,
           Pops, AtQueue, GoTo
  <2>3. CASE OnHibernateTimeout \/ OnUpdateDbi \/ OnCalculator \/ OnMinLock
    BY <2>3, FenceKept
       DEF OnHibernateTimeout, OnUpdateDbi, OnCalculator, OnMinLock, Pops, AtQueue, GoTo
  <2>4. CASE threadTakeFence
    BY <2>4 DEF threadTakeFence, takenFence, GoTo, FenceInv, FencesConserved, OpenCount
  <2>5. CASE threadCloseFence
    BY <2>5 DEF threadCloseFence, GoTo, FenceInv, FencesConserved, OpenCount, TypeOK
  <2> QED  BY <1>3, <2>1, <2>2, <2>3, <2>4, <2>5 DEF Thread
<1>4. CASE SpuriousWakeup
  BY <1>4, FenceKept DEF SpuriousWakeup, ThreadUnchanged, threadVars
<1>5. CASE Tick
  BY <1>5, FenceKept DEF Tick
<1>6. CASE UNCHANGED vars
  BY <1>6, FenceKept DEF vars, threadVars
<1> QED  BY <1>1, <1>2, <1>3, <1>4, <1>5, <1>6 DEF Next

(* No present fence is leaked or closed twice, however updateVsyncHistory   *)
(* of the controller thread and of the presenting thread interleave.       *)
THEOREM FencesAreConserved == Spec => []FencesConserved
<1>1. FenceInv => FencesConserved
  BY DEF FenceInv
<1> QED  BY <1>1, TypeInit, TypeStep, FenceInit, FenceStep, PTL DEF Spec

-----------------------------------------------------------------------------
(* Vendor rendering timeouts.                                              *)

NoVendorEvent(q) == \A t \in Vendor, d \in Due : q[t][d] = 0

AtMostOneVendorEvent(q) ==
  \A t, u \in Vendor, d, e \in Due :
    q[t][d] > 0 /\ q[u][e] > 0 => t = u /\ d = e /\ q[t][d] = 1

(* There is at most one vendor event at any time, an init event finds no   *)
(* tasks, and a frame that is being presented has cancelled both.          *)
VendorInv ==
  /\ VendorTasksInBounds
  /\ AtMostOneVendorEvent(queue)
  /\ Queued("VendorInit") => tasks = <<>> /\ nextTaskIndex = 0
  /\ mPending.set => NoVendorEvent(queue) /\ tasks = <<>> /\ nextTaskIndex = 0
  /\ ppc # "Idle" => mPending.set

AutoModeInv ==
  /\ HardwareHasAutoMode
  /\ mDefaultController = "kHardware" => mController = "kHardware"

FewerVendorEvents(q, r) == \A t \in Vendor, d \in Due : r[t][d] <= q[t][d]

LEMMA FewerRefl == ASSUME NEW q \in Queues PROVE FewerVendorEvents(q, q)
BY EventTypes DEF FewerVendorEvents, Queues

LEMMA FewerTrans ==
  ASSUME NEW q \in Queues, NEW r \in Queues, NEW s \in Queues,
         FewerVendorEvents(q, r), FewerVendorEvents(r, s)
  PROVE  FewerVendorEvents(q, s)
<1> SUFFICES ASSUME NEW t \in Vendor, NEW d \in Due
             PROVE  s[t][d] <= q[t][d]
  BY DEF FewerVendorEvents
<1>1. q[t][d] \in Nat /\ r[t][d] \in Nat /\ s[t][d] \in Nat
  BY EventTypes DEF Queues
<1>2. r[t][d] <= q[t][d] /\ s[t][d] <= r[t][d]
  BY DEF FewerVendorEvents
<1> QED  BY <1>1, <1>2

LEMMA FewerPost ==
  ASSUME NEW q \in Queues, NEW t \in EventType \ Vendor, NEW d \in Int
  PROVE  FewerVendorEvents(q, PostEvent(q, t, d))
BY EventTypes, DueAtType DEF FewerVendorEvents, PostEvent, Queues

LEMMA FewerPop ==
  ASSUME NEW q \in Queues, NEW t \in EventType, NEW d \in Due
  PROVE  FewerVendorEvents(q, PopEvent(q, t, d))
BY EventTypes DEF FewerVendorEvents, PopEvent, Queues

LEMMA FewerDrop ==
  ASSUME NEW q \in Queues, NEW types
  PROVE  FewerVendorEvents(q, DropEvents(q, types))
BY EventTypes DEF FewerVendorEvents, DropEvents, NoTimers, Queues

LEMMA VendorEvents ==
  /\ Vendor = {"VendorInit", "VendorPost"}
  /\ {"SystemTimeout", "HibernateTimeout", "NotifyExpectedPresent", "UpdateDbi", "Calculator",
      "MinLock"} \subseteq EventType \ Vendor
BY DEF Vendor, EventType, General, Callback

LEMMA FewerDbi ==
  ASSUME NEW q \in Queues, NEW r \in WithDbiUpdate(q)
  PROVE  FewerVendorEvents(q, r)
<1>1. FewerVendorEvents(q, PostEvent(q, "UpdateDbi", 0))
  BY FewerPost, VendorEvents
<1> QED  BY <1>1, FewerRefl DEF WithDbiUpdate

LEMMA FewerSystemTimeout ==
  ASSUME NEW q \in Queues, NEW config
  PROVE  FewerVendorEvents(q, SystemTimeoutEvent(q, config))
<1>1. NotifyTimeout \in Int
  BY TimeAssumption
<1>2. FewerVendorEvents(q, PostEvent(q, "SystemTimeout", NotifyTimeout))
  BY <1>1, FewerPost, VendorEvents
<1> QED  BY <1>2, FewerRefl DEF SystemTimeoutEvent

LEMMA CancelFacts ==
  ASSUME NEW q \in Queues, cancelPresentTimeoutHandlingLocked(q)
  PROVE  /\ NoVendorEvent(queue') /\ FewerVendorEvents(q, queue')
         /\ tasks' = <<>> /\ nextTaskIndex' = 0 /\ UNCHANGED taskSpace
<1>1. queue' = DropEvents(q, Vendor)
  BY DEF cancelPresentTimeoutHandlingLocked
<1>2. NoVendorEvent(queue')
  BY <1>1, EventTypes DEF NoVendorEvent, DropEvents, NoTimers
<1> QED  BY <1>1, <1>2, FewerDrop DEF cancelPresentTimeoutHandlingLocked

(* What the operations other than the end of onPresent and the vendor      *)
(* handlers do with the queue and the tasks: they post no vendor event,    *)
(* and either leave the tasks or cancel everything.                        *)
Cancelled ==
  /\ NoVendorEvent(queue')
  /\ tasks' = <<>> /\ nextTaskIndex' = 0 /\ UNCHANGED taskSpace

NoNewVendorEvent == FewerVendorEvents(queue, queue') /\ (UNCHANGED taskVars \/ Cancelled)

LEMMA VendorHal ==
  ASSUME TypeOK, HalCalls
  PROVE  NoNewVendorEvent /\ UNCHANGED <<mPending, ppc>>
<1> USE VendorEvents, EventTypes
<1>0. queue \in Queues
  BY DEF TypeOK
<1>1. CASE notifyExpectedPresent
  BY <1>0, <1>1, FewerPost DEF notifyExpectedPresent, NoNewVendorEvent
<1>2. ASSUME NEW c \in Config, setActiveVrrConfiguration(c)
      PROVE  NoNewVendorEvent /\ UNCHANGED <<mPending, ppc>>
  <2>1. PICK q \in WithDbiUpdate(queue) :
          queue' = q \/ queue' = SystemTimeoutEvent(DropEvents(q, {"SystemTimeout"}), c)
    BY <1>2 DEF setActiveVrrConfiguration
  <2>2. q \in Queues /\ FewerVendorEvents(queue, q)
    BY <1>0, DbiType, FewerDbi
  <2>3. DropEvents(q, {"SystemTimeout"}) \in Queues /\ FewerVendorEvents(q, DropEvents(q, {"SystemTimeout"}))
    BY <2>2, DropType, FewerDrop
  <2>4. /\ SystemTimeoutEvent(DropEvents(q, {"SystemTimeout"}), c) \in Queues
        /\ FewerVendorEvents(DropEvents(q, {"SystemTimeout"}), SystemTimeoutEvent(DropEvents(q, {"SystemTimeout"}), c))
    BY <2>3, SystemTimeoutType, FewerSystemTimeout
  <2>5. FewerVendorEvents(queue, SystemTimeoutEvent(DropEvents(q, {"SystemTimeout"}), c))
    BY <1>0, <2>2, <2>3, <2>4, FewerTrans
  <2> QED  BY <1>2, <2>1, <2>2, <2>5 DEF setActiveVrrConfiguration, NoNewVendorEvent
<1>3. ASSUME NEW b \in EnableValue, setEnable(b)
      PROVE  NoNewVendorEvent /\ UNCHANGED <<mPending, ppc>>
  <2>1. FewerVendorEvents(queue, EmptyQueue)
    BY <1>0 DEF FewerVendorEvents, EmptyQueue, NoTimers, Queues
  <2> QED  BY <1>0, <1>3, <2>1, FewerRefl DEF setEnable, NoNewVendorEvent
<1>4. ASSUME NEW m \in PowerMode, preSetPowerMode(m)
      PROVE  NoNewVendorEvent /\ UNCHANGED <<mPending, ppc>>
  BY <1>0, <1>4, CancelFacts, FewerRefl DEF preSetPowerMode, NoNewVendorEvent, Cancelled
<1>5. ASSUME NEW m \in PowerMode, postSetPowerMode(m)
      PROVE  NoNewVendorEvent /\ UNCHANGED <<mPending, ppc>>
  <2>1. FewerVendorEvents(queue, DropGeneralEvents(queue))
    BY <1>0, FewerDrop DEF DropGeneralEvents
  <2>2. MeasurePeriod \in Int
    BY TimeAssumption
  <2>3. \A q \in Queues : ResumeCalculator(q) \in Queues /\ FewerVendorEvents(q, ResumeCalculator(q))
    BY <2>2, PostType, FewerPost, FewerRefl DEF ResumeCalculator
  <2>4. FewerVendorEvents(queue, ResumeCalculator(SystemTimeoutEvent(queue, mVrrActiveConfig)))
    BY <1>0, <2>3, SystemTimeoutType, FewerSystemTimeout, FewerTrans
  <2> QED  BY <1>5, <2>1, <2>4 DEF postSetPowerMode, NoNewVendorEvent
<1>6. ASSUME NEW override, setPresentTimeoutParameters(override)
      PROVE  NoNewVendorEvent /\ UNCHANGED <<mPending, ppc>>
  BY <1>0, <1>6, FewerRefl DEF setPresentTimeoutParameters, NoNewVendorEvent
<1>7. ASSUME NEW t \in ControllerType, setPresentTimeoutController(t)
      PROVE  NoNewVendorEvent /\ UNCHANGED <<mPending, ppc>>
  BY <1>0, <1>7, CancelFacts, FewerRefl DEF setPresentTimeoutController, NoNewVendorEvent, Cancelled
<1>8. ASSUME NEW r \in MinimumRate, NEW l \in LockTime, NEW ok \in WriteResult,
             setFixedRefreshRateRange(r, l, ok)
      PROVE  NoNewVendorEvent /\ UNCHANGED <<mPending, ppc>>
  <2>1. /\ DropEvents(queue, {"MinLock"}) \in Queues
        /\ FewerVendorEvents(queue, DropEvents(queue, {"MinLock"}))
    BY <1>0, DropType, FewerDrop
  <2>2. CASE FixMinimumRate(r, l, ok)
    <3>1. cancelPresentTimeoutHandlingLocked(DropEvents(queue, {"MinLock"}))
      BY <2>2 DEF FixMinimumRate
    <3>2. Cancelled /\ FewerVendorEvents(DropEvents(queue, {"MinLock"}), queue')
      BY <2>1, <3>1, CancelFacts DEF Cancelled
    <3>3. queue' \in Queues
      BY <2>1, <3>1, CancelType
    <3> QED
      BY <1>0, <1>8, <2>1, <3>2, <3>3, FewerTrans DEF setFixedRefreshRateRange, NoNewVendorEvent
  <2>3. CASE UnsetMinimumRate(r, l, ok)
    BY <1>8, <2>1, <2>3 DEF UnsetMinimumRate, setFixedRefreshRateRange, NoNewVendorEvent
  <2> QED  BY <1>8, <2>2, <2>3 DEF setFixedRefreshRateRange
<1>9. CASE stopThread
  BY <1>0, <1>9, FewerRefl DEF stopThread, NoNewVendorEvent
<1> QED
  BY <1>1, <1>2, <1>3, <1>4, <1>5, <1>6, <1>7, <1>8, <1>9 DEF HalCalls

LEMMA VendorPresent ==
  ASSUME TypeOK, Present, ~onPresentEnd
  PROVE  /\ NoNewVendorEvent
         /\ \/ Cancelled /\ ppc' = "Idle"
            \/ UNCHANGED mPending /\ (ppc' # "Idle" => ppc # "Idle" \/ mPending.set)
<1> USE VendorEvents, EventTypes
<1>0. queue \in Queues /\ mPending.time \in Int /\ mMaximumTimeout \in Int /\ TransitionDelay \in Int
  BY TimeAssumption DEF TypeOK, Time
<1>1. \A q \in Queues : LeaveHibernate(q) \in Queues /\ FewerVendorEvents(q, LeaveHibernate(q))
  BY DropType, FewerDrop, FewerRefl DEF LeaveHibernate
<1>2. \A dbi \in WithDbiUpdate(queue) :
        /\ dbi \in Queues /\ FewerVendorEvents(queue, dbi)
        /\ LeaveHibernate(dbi) \in Queues /\ FewerVendorEvents(queue, LeaveHibernate(dbi))
  BY <1>0, <1>1, DbiType, FewerDbi, FewerTrans
<1>3. ASSUME NEW t \in PresentOffset, setExpectedPresentTime(t)
      PROVE  NoNewVendorEvent /\ Cancelled /\ ppc' = "Idle"
  <2>1. /\ DropEvents(queue, {"SystemTimeout"}) \in Queues
        /\ FewerVendorEvents(queue, DropEvents(queue, {"SystemTimeout"}))
    BY <1>0, DropType, FewerDrop
  <2>2. cancelPresentTimeoutHandlingLocked(DropEvents(queue, {"SystemTimeout"})) /\ ppc' = "Idle"
    BY <1>3 DEF setExpectedPresentTime
  <2>3. Cancelled /\ FewerVendorEvents(DropEvents(queue, {"SystemTimeout"}), queue') /\ queue' \in Queues
    BY <2>1, <2>2, CancelFacts, CancelType DEF Cancelled
  <2> QED  BY <1>0, <2>1, <2>2, <2>3, FewerTrans DEF NoNewVendorEvent
<1>4. CASE onPresentDisabled
  BY <1>2, <1>4 DEF onPresentDisabled, NoNewVendorEvent
<1>5. CASE onPresentAtMinimumRate
  <2>1. \A q \in Queues : FewerVendorEvents(q, PostEvent(q, "MinLock", mPending.time + mMaximumTimeout))
    BY <1>0, FewerPost
  <2>2. ASSUME NEW q \in Queues, ExtendTransition(q)
        PROVE  FewerVendorEvents(q, queue') /\ queue' \in Queues
    <3>1. DropEvents(q, {"MinLock"}) \in Queues /\ FewerVendorEvents(q, DropEvents(q, {"MinLock"}))
      BY DropType, FewerDrop
    <3>2. mPending.time + TransitionDelay \in Int
      BY <1>0
    <3>3. /\ queue' \in Queues
          /\ FewerVendorEvents(DropEvents(q, {"MinLock"}), queue')
      BY <2>2, <3>1, <3>2, PostType, FewerPost DEF ExtendTransition
    <3> QED  BY <3>1, <3>3, FewerTrans
  <2>3. ASSUME NEW q \in Queues, PromoteToMaximum(q)
        PROVE  FewerVendorEvents(q, queue') /\ queue' \in Queues
    <3>1. mPending.time + mMaximumTimeout \in Int
      BY <1>0
    <3> QED
      BY <2>1, <2>3, <3>1, FewerRefl, PostType DEF PromoteToMaximum, PromoteFrom
  <2>4. ASSUME NEW q \in Queues, KeepPresentState(q)
        PROVE  FewerVendorEvents(q, queue') /\ queue' \in Queues
    BY <2>4, FewerRefl DEF KeepPresentState
  <2>5. PICK dbi \in WithDbiUpdate(queue) :
          FewerVendorEvents(LeaveHibernate(dbi), queue') /\ queue' \in Queues
    BY <1>2, <1>5, <2>2, <2>3, <2>4 DEF onPresentAtMinimumRate
  <2>6. FewerVendorEvents(queue, queue')
    BY <1>0, <1>2, <2>5, FewerTrans
  <2> QED  BY <1>5, <2>6 DEF onPresentAtMinimumRate, NoNewVendorEvent
<1>6. CASE onPresentBegin
  BY <1>2, <1>6 DEF onPresentBegin, NoNewVendorEvent
<1>7. CASE presentTakeFence
  BY <1>0, <1>7, FewerRefl DEF presentTakeFence, NoNewVendorEvent
<1>8. CASE presentCloseFence
  BY <1>0, <1>8, FewerRefl DEF presentCloseFence, NoNewVendorEvent
<1> QED
  BY <1>3, <1>4, <1>5, <1>6, <1>7, <1>8 DEF Present, PresentUnlocked

(* The controller thread, but for the two vendor handlers.                 *)
LEMMA VendorThread ==
  ASSUME TypeOK, Thread, ~OnVendorTimeoutInit, ~OnVendorTimeoutPost
  PROVE  FewerVendorEvents(queue, queue') /\ UNCHANGED <<taskVars, mPending, ppc>>
<1> USE VendorEvents, EventTypes
<1>0. /\ queue \in Queues /\ TransitionDelay \in Int /\ WakeUpPeriod \in Int /\ MeasurePeriod \in Int
  BY TimeAssumption DEF TypeOK
<1>1. \A t \in EventType, d \in Due : Pops(t, d) =>
        PopEvent(queue, t, d) \in Queues /\ FewerVendorEvents(queue, PopEvent(queue, t, d))
  BY <1>0, PopType, FewerPop DEF Pops, IsTop
<1>2. \A q \in Queues, t \in EventType \ Vendor, d \in Int :
        FewerVendorEvents(queue, q) => FewerVendorEvents(queue, PostEvent(q, t, d))
  BY <1>0, FewerPost, PostType, FewerTrans
<1>3. CASE ThreadExit \/ WaitForEnable \/ Continue \/ WaitForEvent \/ WaitForDueTime
  BY <1>0, <1>3, FewerRefl
     DEF ThreadExit, WaitForEnable, Continue, WaitForEvent, WaitForDueTime, ThreadUnchanged
<1>4. CASE OnSystemTimeout
  <2>1. PICK d \in Due : Pops("SystemTimeout", d) /\
          \/ queue' = PopEvent(queue, "SystemTimeout", d)
          \/ \E q \in WithDbiUpdate(PopEvent(queue, "SystemTimeout", d)) :
               queue' = PostEvent(q, "HibernateTimeout", WakeUpPeriod)
    BY <1>4 DEF OnSystemTimeout
  <2>2. \A q \in WithDbiUpdate(PopEvent(queue, "SystemTimeout", d)) :
          q \in Queues /\ FewerVendorEvents(queue, q)
    BY <1>0, <1>1, <2>1, DbiType, FewerDbi, FewerTrans
  <2>3. FewerVendorEvents(queue, queue')
    BY <1>0, <1>1, <1>2, <2>1, <2>2
  <2> QED  BY <1>4, <2>3 DEF OnSystemTimeout
<1>5. CASE OnNotifyExpectedPresent
  BY <1>1, <1>5 DEF OnNotifyExpectedPresent
<1>6. CASE OnHibernateTimeout
  BY <1>0, <1>1, <1>2, <1>6 DEF OnHibernateTimeout
<1>7. CASE OnUpdateDbi
  BY <1>1, <1>7 DEF OnUpdateDbi
<1>8. CASE OnCalculator
  <2>1. PICK d \in Due : /\ Pops("Calculator", d)
                         /\ queue' = PostEvent(PopEvent(queue, "Calculator", d), "Calculator",
                                               d + MeasurePeriod)
    BY <1>8 DEF OnCalculator
  <2>2. d + MeasurePeriod \in Int
    BY <1>0, <2>1, TimeAssumption DEF Due
  <2>3. FewerVendorEvents(queue, queue')
    BY <1>1, <1>2, <2>1, <2>2
  <2> QED  BY <1>8, <2>3 DEF OnCalculator
<1>9. CASE OnMinLock
  BY <1>0, <1>1, <1>2, <1>9 DEF OnMinLock, StartTransition, ReturnToMinimum
<1>10. CASE threadTakeFence
  BY <1>0, <1>10, FewerRefl DEF threadTakeFence
<1>11. CASE threadCloseFence
  BY <1>0, <1>11, FewerRefl DEF threadCloseFence
<1> QED
  BY <1>3, <1>4, <1>5, <1>6, <1>7, <1>8, <1>9, <1>10, <1>11 DEF Thread

(* A vendor event that is handled was the only one.                        *)
LEMMA PopsTheOnlyOne ==
  ASSUME TypeOK, AtMostOneVendorEvent(queue), NEW t \in Vendor, NEW d \in Due, queue[t][d] > 0
  PROVE  PopEvent(queue, t, d) \in Queues /\ NoVendorEvent(PopEvent(queue, t, d))
<1>1. queue \in Queues /\ t \in EventType
  BY EventTypes DEF TypeOK
<1>2. PopEvent(queue, t, d) \in Queues
  BY <1>1, PopType
<1>3. ASSUME NEW u \in Vendor, NEW e \in Due
      PROVE  PopEvent(queue, t, d)[u][e] = 0
  <2>1. queue[u][e] \in Nat /\ queue[t][d] = 1 /\ u \in EventType
    BY <1>1, EventTypes DEF AtMostOneVendorEvent, Queues
  <2>2. CASE u = t /\ e = d
    BY <1>1, <2>1, <2>2 DEF PopEvent, Queues
  <2>3. CASE ~(u = t /\ e = d)
    <3>1. queue[u][e] = 0
      BY <2>1, <2>3 DEF AtMostOneVendorEvent
    <3> QED  BY <1>1, <2>1, <2>3, <3>1 DEF PopEvent, Queues
  <2> QED  BY <2>2, <2>3
<1> QED  BY <1>2, <1>3 DEF NoVendorEvent

LEMMA PostsTheOnlyOne ==
  ASSUME NEW q \in Queues, NoVendorEvent(q), NEW t \in Vendor, NEW d \in Int
  PROVE  /\ AtMostOneVendorEvent(PostEvent(q, t, d))
         /\ \A u \in Vendor \ {t}, e \in Due : PostEvent(q, t, d)[u][e] = 0
<1>1. DueAt(d) \in Due /\ t \in EventType /\ PostEvent(q, t, d) \in Queues
  BY DueAtType, PostType, EventTypes
<1>2. ASSUME NEW u \in Vendor, NEW e \in Due
      PROVE  PostEvent(q, t, d)[u][e] = IF u = t /\ e = DueAt(d) THEN 1 ELSE 0
  BY <1>1, EventTypes DEF PostEvent, Queues, NoVendorEvent
<1> QED  BY <1>2 DEF AtMostOneVendorEvent

LEMMA NoVendorDbi ==
  ASSUME NEW q \in Queues, NoVendorEvent(q), NEW r \in WithDbiUpdate(q)
  PROVE  r \in Queues /\ NoVendorEvent(r)
<1>1. r \in Queues /\ FewerVendorEvents(q, r)
  BY DbiType, FewerDbi
<1>2. \A t \in Vendor, d \in Due : r[t][d] \in Nat
  BY <1>1, EventTypes DEF Queues
<1> QED  BY <1>1, <1>2 DEF NoVendorEvent, FewerVendorEvents

(* The handlers post the next task when there is one.                      *)
LEMMA ScheduleFacts ==
  ASSUME NEW q \in Queues, NoVendorEvent(q), NEW times \in Seq(Time), NEW next \in Nat,
         next <= Len(times), handlePresentTimeout(q, times, next)
  PROVE  /\ AtMostOneVendorEvent(queue') /\ (\A d \in Due : queue'["VendorInit"][d] = 0)
         /\ nextTaskIndex' \in Nat /\ nextTaskIndex' <= Len(times)
<1>1. PICK r \in WithDbiUpdate(q) : ScheduleNextTask(r, times, next)
  BY DEF handlePresentTimeout
<1>2. r \in Queues /\ NoVendorEvent(r)
  BY <1>1, NoVendorDbi
<1>3. CASE Len(times) = next
  BY <1>1, <1>2, <1>3, VendorEvents DEF ScheduleNextTask, NoVendorEvent, AtMostOneVendorEvent
<1>4. CASE Len(times) # next
  <2>1. PICK d \in Int : queue' = PostEvent(r, "VendorPost", d)
    <3> DEFINE at == IF next < Len(times) THEN times[next + 1] - AheadOfTime ELSE 0
    <3>2. at \in Int
      BY TaskTimeType
    <3>3. (IF at < 0 THEN 0 ELSE at) \in Int
      BY <3>2
    <3>4. queue' = PostEvent(r, "VendorPost", IF at < 0 THEN 0 ELSE at)
      BY <1>1, <1>4 DEF ScheduleNextTask
    <3> QED  BY <3>3, <3>4
  <2>2. nextTaskIndex' = next + 1 /\ Len(times) \in Nat
    BY <1>1, <1>4 DEF ScheduleNextTask
  <2> QED  BY <1>2, <1>4, <2>1, <2>2, PostsTheOnlyOne, VendorEvents
<1> QED  BY <1>3, <1>4

(* The passage of time merges no two vendor events.                        *)
LEMMA VendorTick ==
  ASSUME TypeOK, Tick
  PROVE  /\ AtMostOneVendorEvent(queue) => AtMostOneVendorEvent(queue')
         /\ NoVendorEvent(queue) => NoVendorEvent(queue')
         /\ \A t \in Vendor : Queued(t)' => Queued(t)
<1>0. /\ \A t \in Vendor, d \in Due : queue[t][d] \in Nat
      /\ Horizon \in Nat /\ MaxLag \in Nat /\ 0 < MaxLag /\ MaxLag <= Horizon
  BY EventTypes, TimeAssumption DEF TypeOK, Queues
<1>1. \A t \in Vendor, d \in Due :
        queue'[t][d] = IF d = -MaxLag THEN queue[t][d] + queue[t][d + 1]
                       ELSE IF d = Horizon THEN 0 ELSE queue[t][d + 1]
  BY EventTypes DEF Tick, Shift
<1>2. \A d \in Due : d # Horizon => d + 1 \in Due
  BY <1>0 DEF Due
<1>3. -MaxLag \in Due /\ -MaxLag # Horizon
  BY <1>0 DEF Due
(* An event after the tick stands for one before it.                       *)
<1>4. ASSUME NEW t \in Vendor, NEW d \in Due, queue'[t][d] > 0
      PROVE  \/ d # Horizon /\ queue[t][d + 1] > 0
             \/ d = -MaxLag /\ queue[t][d] > 0
  BY <1>0, <1>1, <1>2, <1>3, <1>4
<1>5. \A t \in Vendor : Queued(t)' => Queued(t)
  BY <1>2, <1>4 DEF Queued
<1>6. NoVendorEvent(queue) => NoVendorEvent(queue')
  BY <1>0, <1>1, <1>2, <1>3 DEF NoVendorEvent
<1>7. ASSUME AtMostOneVendorEvent(queue)
      PROVE  AtMostOneVendorEvent(queue')
  <2> SUFFICES ASSUME NEW t \in Vendor, NEW u \in Vendor, NEW d \in Due, NEW e \in Due,
                      queue'[t][d] > 0, queue'[u][e] > 0
               PROVE  t = u /\ d = e /\ queue'[t][d] = 1
    BY DEF AtMostOneVendorEvent
  <2>1. PICK b \in Due : queue[t][b] > 0 /\ ((b = d + 1 /\ d # Horizon) \/ (d = -MaxLag /\ b = d))
    <3>1. \/ d # Horizon /\ queue[t][d + 1] > 0
          \/ d = -MaxLag /\ queue[t][d] > 0
      BY <1>4
    <3>2. CASE d # Horizon /\ queue[t][d + 1] > 0
      <4>1. d + 1 \in Due
        BY <1>2, <3>2
      <4> WITNESS d + 1 \in Due
      <4> QED  BY <3>2
    <3>3. CASE d = -MaxLag /\ queue[t][d] > 0
      <4> WITNESS d \in Due
      <4> QED  BY <3>3
    <3> QED  BY <3>1, <3>2, <3>3
  <2>2. PICK c \in Due : queue[u][c] > 0 /\ ((c = e + 1 /\ e # Horizon) \/ (e = -MaxLag /\ c = e))
    <3>1. \/ e # Horizon /\ queue[u][e + 1] > 0
          \/ e = -MaxLag /\ queue[u][e] > 0
      BY <1>4
    <3>2. CASE e # Horizon /\ queue[u][e + 1] > 0
      <4>1. e + 1 \in Due
        BY <1>2, <3>2
      <4> WITNESS e + 1 \in Due
      <4> QED  BY <3>2
    <3>3. CASE e = -MaxLag /\ queue[u][e] > 0
      <4> WITNESS e \in Due
      <4> QED  BY <3>3
    <3> QED  BY <3>1, <3>2, <3>3
  <2>3. t = u /\ b = c /\ queue[t][b] = 1
    BY <1>7, <2>1, <2>2 DEF AtMostOneVendorEvent
  <2>4. d \in Int /\ e \in Int /\ -MaxLag <= d /\ -MaxLag <= e
    BY <1>0 DEF Due
  <2>5. d = e
    BY <1>0, <2>1, <2>2, <2>3, <2>4
  <2>6. \A f \in Due : f # b => queue[t][f] = 0
    BY <1>0, <1>7, <2>1 DEF AtMostOneVendorEvent
  <2>7. queue'[t][d] = 1
    <3>1. CASE d = -MaxLag
      <4>1. d + 1 \in Due /\ d + 1 # d /\ (b = d \/ b = d + 1)
        BY <1>2, <1>3, <2>1, <2>4, <3>1
      <4> QED  BY <1>0, <1>1, <2>3, <2>6, <3>1, <4>1
    <3>2. CASE d # -MaxLag
      BY <1>0, <1>1, <2>1, <2>3, <3>2
    <3> QED  BY <3>1, <3>2
  <2> QED  BY <2>3, <2>5, <2>7
<1> QED  BY <1>5, <1>6, <1>7

LEMMA VendorInit == Init => VendorInv
BY VendorAssumption, EventTypes
   DEF Init, VendorInv, VendorTasksInBounds, AtMostOneVendorEvent, Queued, EmptyQueue, NoTimers, NoPresent

LEMMA VendorKept ==
  ASSUME TypeOK, TypeOK', VendorInv, NoNewVendorEvent,
         \/ Cancelled /\ ppc' = "Idle"
         \/ UNCHANGED mPending /\ (ppc' # "Idle" => ppc # "Idle" \/ mPending.set)
  PROVE  VendorInv'
<1>1. \A t \in Vendor, d \in Due :
        queue[t][d] \in Nat /\ queue'[t][d] \in Nat /\ queue'[t][d] <= queue[t][d]
  <2>1. queue \in Queues /\ queue' \in Queues
    BY DEF TypeOK
  <2>2. \A t \in Vendor, d \in Due : queue[t][d] \in Nat /\ queue'[t][d] \in Nat
    BY <2>1, EventTypes DEF Queues
  <2> QED  BY <2>2 DEF NoNewVendorEvent, FewerVendorEvents
<1>2. AtMostOneVendorEvent(queue')
  BY <1>1 DEF VendorInv, AtMostOneVendorEvent
<1>3. Queued("VendorInit")' => Queued("VendorInit")
  BY <1>1, VendorEvents DEF Queued
<1>4. NoVendorEvent(queue) => NoVendorEvent(queue')
  BY <1>1 DEF NoVendorEvent
<1>5. CASE Cancelled
  BY <1>2, <1>4, <1>5 DEF Cancelled, VendorInv, VendorTasksInBounds, TypeOK
<1>6. CASE UNCHANGED taskVars
  BY <1>2, <1>3, <1>4, <1>5, <1>6 DEF VendorInv, VendorTasksInBounds, taskVars, TypeOK
<1> QED  BY <1>5, <1>6 DEF NoNewVendorEvent

LEMMA VendorStep == TypeOK /\ VendorInv /\ [Next]_vars => VendorInv'
<1> SUFFICES ASSUME TypeOK, VendorInv, [Next]_vars PROVE VendorInv'
  OBVIOUS
<1>0. TypeOK'
  BY TypeStep
<1>1. CASE HalCalls
  BY <1>0, <1>1, VendorHal, VendorKept
<1>2. CASE Present /\ ~onPresentEnd
  BY <1>0, <1>2, VendorPresent, VendorKept
<1>3. CASE onPresentEnd
  <2>1. NoVendorEvent(queue) /\ tasks = <<>> /\ nextTaskIndex = 0
    BY <1>3 DEF onPresentEnd, VendorInv
  <2>2. queue \in Queues /\ NextRenderingTimeout \in Int /\ mPending.time + FirstTimeout - AheadOfTime \in Int
    <3>1. NextRenderingTimeout \in Int
      BY TimeAssumption DEF NextRenderingTimeout
    <3>2. AheadOfTime \in Int /\ FirstTimeout \in Int
      BY TimeAssumption DEF FirstTimeout, TypeOK
    <3>3. mPending.time \in Int
      BY TimeAssumption DEF TypeOK, Time
    <3> QED  BY <3>1, <3>2, <3>3 DEF TypeOK
  <2> DEFINE q == PostEvent(queue, "SystemTimeout", NextRenderingTimeout)
  <2>3. q \in Queues /\ FewerVendorEvents(queue, q)
    BY <2>2, PostType, FewerPost, EventTypes, VendorEvents
  <2> HIDE DEF q
  <2>4. NoVendorEvent(q)
    <3>1. \A t \in Vendor, d \in Due : q[t][d] \in Nat
      BY <2>3, EventTypes DEF Queues
    <3> QED  BY <2>1, <2>3, <3>1 DEF NoVendorEvent, FewerVendorEvents
  <2>5. queue' = q \/ queue' = PostEvent(q, "VendorInit", mPending.time + FirstTimeout - AheadOfTime)
    BY <1>3 DEF onPresentEnd, q
  <2>6. AtMostOneVendorEvent(queue')
    BY <2>2, <2>3, <2>4, <2>5, PostsTheOnlyOne, VendorEvents DEF NoVendorEvent, AtMostOneVendorEvent
  <2>7. UNCHANGED taskVars /\ ~mPending'.set /\ ppc' = "Idle"
    BY <1>3 DEF onPresentEnd, NoPresent
  <2> QED  BY <2>1, <2>6, <2>7 DEF VendorInv, VendorTasksInBounds, taskVars
<1>4. CASE Thread /\ ~OnVendorTimeoutInit /\ ~OnVendorTimeoutPost
  BY <1>0, <1>4, VendorThread, VendorKept DEF NoNewVendorEvent
<1>5. CASE OnVendorTimeoutInit
  <2>1. PICK d \in Due : queue["VendorInit"][d] > 0 /\
          \/ /\ Schedule # <<>>
             /\ taskSpace' = IF Len(Schedule) > taskSpace THEN Len(Schedule) ELSE taskSpace
             /\ tasks' = AddedTasks
             /\ handlePresentTimeout(PopEvent(queue, "VendorInit", d), AddedTasks, 1)
          \/ queue' = PopEvent(queue, "VendorInit", d) /\ UNCHANGED taskVars
    BY <1>5 DEF OnVendorTimeoutInit, Pops, IsTop
  <2>2. UNCHANGED <<mPending, ppc>>
    BY <1>5 DEF OnVendorTimeoutInit
  <2>3. ~mPending.set /\ tasks = <<>> /\ nextTaskIndex = 0 /\ taskSpace \in Nat
    BY <2>1, VendorEvents DEF VendorInv, NoVendorEvent, Queued, TypeOK
  <2>4. PopEvent(queue, "VendorInit", d) \in Queues /\ NoVendorEvent(PopEvent(queue, "VendorInit", d))
    BY <2>1, PopsTheOnlyOne, VendorEvents DEF VendorInv
  <2>5. CASE queue' = PopEvent(queue, "VendorInit", d) /\ UNCHANGED taskVars
    BY <2>2, <2>3, <2>4, <2>5, VendorEvents
       DEF VendorInv, VendorTasksInBounds, NoVendorEvent, AtMostOneVendorEvent, Queued, taskVars
  <2>6. CASE /\ Schedule # <<>>
             /\ taskSpace' = IF Len(Schedule) > taskSpace THEN Len(Schedule) ELSE taskSpace
             /\ tasks' = AddedTasks
             /\ handlePresentTimeout(PopEvent(queue, "VendorInit", d), AddedTasks, 1)
    <3>1. AddedTasks \in Seq(Time) /\ Len(AddedTasks) = Len(Schedule)
      BY <2>3, AddedTasksType, EmptySeq
    <3>2. Len(Schedule) \in Nat /\ 1 <= Len(Schedule)
      <4>1. Schedule \in Seq(Nat)
        BY VendorAssumption DEF Schedule, TypeOK
      <4> QED  BY <2>6, <4>1, EmptySeq
    <3>3. /\ AtMostOneVendorEvent(queue') /\ (\A e \in Due : queue'["VendorInit"][e] = 0)
          /\ nextTaskIndex' <= Len(tasks')
      BY <2>4, <2>6, <3>1, <3>2, ScheduleFacts
    <3>4. Len(tasks') <= taskSpace'
      BY <2>3, <2>6, <3>1, <3>2
    <3> QED  BY <2>2, <2>3, <3>3, <3>4 DEF VendorInv, VendorTasksInBounds, Queued
  <2> QED  BY <2>1, <2>5, <2>6
<1>6. CASE OnVendorTimeoutPost
  <2>1. PICK d \in Due : queue["VendorPost"][d] > 0 /\
          \/ handlePresentTimeout(PopEvent(queue, "VendorPost", d), tasks, nextTaskIndex)
          \/ queue' = PopEvent(queue, "VendorPost", d) /\ UNCHANGED nextTaskIndex
    BY <1>6 DEF OnVendorTimeoutPost, Pops, IsTop
  <2>2. UNCHANGED <<mPending, ppc, tasks, taskSpace>>
    BY <1>6 DEF OnVendorTimeoutPost
  <2>3. ~mPending.set /\ tasks \in Seq(Time) /\ nextTaskIndex \in Nat /\ nextTaskIndex <= Len(tasks)
    BY <2>1, VendorEvents DEF VendorInv, VendorTasksInBounds, NoVendorEvent, Queued, TypeOK
  <2>4. PopEvent(queue, "VendorPost", d) \in Queues /\ NoVendorEvent(PopEvent(queue, "VendorPost", d))
    BY <2>1, PopsTheOnlyOne, VendorEvents DEF VendorInv
  <2>5. /\ AtMostOneVendorEvent(queue') /\ (\A e \in Due : queue'["VendorInit"][e] = 0)
        /\ nextTaskIndex' <= Len(tasks)
    BY <2>1, <2>3, <2>4, ScheduleFacts, VendorEvents DEF NoVendorEvent, AtMostOneVendorEvent
  <2> QED  BY <2>2, <2>3, <2>5 DEF VendorInv, VendorTasksInBounds, Queued
<1>7. CASE SpuriousWakeup \/ UNCHANGED vars
  BY <1>7
     DEF SpuriousWakeup, ThreadUnchanged, vars, taskVars, VendorInv, VendorTasksInBounds, Queued
<1>8. CASE Tick
  <2>1. UNCHANGED <<nextTaskIndex, taskSpace, ppc>> /\ mPending'.set = mPending.set
    BY <1>8 DEF Tick, TypeOK
  <2>2. Len(tasks') = Len(tasks) /\ (tasks = <<>> => tasks' = <<>>)
    <3>1. tasks \in Seq(Time) /\ tasks' \in Seq(Time) /\ tasks' = [i \in 1 .. Len(tasks) |-> Earlier(tasks[i])]
      BY <1>0, <1>8 DEF Tick, TypeOK
    <3>2. Len(tasks') = Len(tasks)
      BY <3>1
    <3> QED  BY <3>1, <3>2, EmptySeq
  <2> QED
    BY <1>8, <2>1, <2>2, VendorTick, VendorEvents DEF VendorInv, VendorTasksInBounds
<1> QED  BY <1>1, <1>2, <1>3, <1>4, <1>5, <1>6, <1>7, <1>8 DEF Next, Present, PresentUnlocked

(* taskExecutionTimeNs is never indexed out of its bounds, whatever the     *)
(* schedules, the frames and the power modes.                              *)
THEOREM VendorTasksStayInBounds == Spec => []VendorTasksInBounds
<1>1. VendorInv => VendorTasksInBounds
  BY DEF VendorInv
<1> QED  BY <1>1, TypeInit, TypeStep, VendorInit, VendorStep, PTL DEF Spec

-----------------------------------------------------------------------------
(* The cycle of the minimum refresh rate. A failed write breaks it: the    *)
(* present state of the peak rate is then left behind.                     *)

LEMMA SetsTheRange ==
  ASSUME TypeOK, NEW r \in MinimumRate, NEW l \in LockTime,
         setFixedRefreshRateRange(r, l, TRUE)
  PROVE  Cycle!Set \/ Cycle!Unset
<1>1. r \in Nat /\ l \in Nat /\ mMinimumRefreshRate \in Nat /\ mMaximumTimeout \in Nat
  BY ConfigAssumption, TimeAssumption DEF TypeOK
<1>2. CASE FixMinimumRate(r, l, TRUE)
  <2>1. r > 1 /\ mMinimumRefreshRate' = r /\ mMaximumTimeout' = l /\ presentStates' = "AtMinimum"
    BY <1>2 DEF FixMinimumRate, isMinimumRefreshRateActive
  <2>2. r # mMinimumRefreshRate \/ l # mMaximumTimeout
    BY <1>1, <2>1 DEF setFixedRefreshRateRange, IsEquivalentRange
  <2> QED  BY <2>1, <2>2 DEF Cycle!Set, Cycle!range
<1>3. CASE UnsetMinimumRate(r, l, TRUE)
  <2>1. r <= 1 /\ mMinimumRefreshRate' = r /\ mMaximumTimeout' = 0 /\ presentStates' = "Unset"
    BY <1>1, <1>3 DEF UnsetMinimumRate, isMinimumRefreshRateActive
  <2>2. mMinimumRefreshRate > 1
    BY <1>1, <2>1 DEF setFixedRefreshRateRange, IsEquivalentRange
  <2> QED  BY <2>1, <2>2 DEF Cycle!Unset, Cycle!IsSet
<1> QED  BY <1>2, <1>3 DEF setFixedRefreshRateRange

LEMMA CycleHal ==
  ASSUME TypeOK, WriteMayFail = FALSE, HalCalls
  PROVE  Cycle!Set \/ Cycle!Unset \/ UNCHANGED rateVars
<1>1. CASE \E r \in MinimumRate, l \in LockTime, ok \in WriteResult : setFixedRefreshRateRange(r, l, ok)
  BY <1>1, SetsTheRange DEF WriteResult
<1>2. CASE \E c \in Config : setActiveVrrConfiguration(c)
  BY <1>2 DEF setActiveVrrConfiguration, rateVars
<1>3. CASE \E m \in PowerMode : preSetPowerMode(m) \/ postSetPowerMode(m)
  BY <1>3 DEF preSetPowerMode, postSetPowerMode, rateVars
<1>4. CASE \E t \in ControllerType : setPresentTimeoutController(t)
  BY <1>4 DEF setPresentTimeoutController, rateVars
<1>5. CASE \/ notifyExpectedPresent \/ stopThread \/ (\E b \in EnableValue : setEnable(b))
           \/ \E o : setPresentTimeoutParameters(o)
  BY <1>5 DEF notifyExpectedPresent, stopThread, setEnable, setPresentTimeoutParameters, rateVars
<1> QED  BY <1>1, <1>2, <1>3, <1>4, <1>5 DEF HalCalls

LEMMA CyclePresent ==
  ASSUME TypeOK, WriteMayFail = FALSE, Present
  PROVE  Cycle!Promote \/ UNCHANGED rateVars
<1>1. CASE onPresentAtMinimumRate
  <2>1. UNCHANGED <<mMinimumRefreshRate, mMaximumTimeout>>
    BY <1>1 DEF onPresentAtMinimumRate
  <2>2. mMaximumTimeout > 0 /\ mMinimumRefreshRate > 1
    BY <1>1 DEF onPresentAtMinimumRate, isMinimumRefreshRateActive
  <2>3. PICK q : PromoteToMaximum(q) \/ ExtendTransition(q) \/ KeepPresentState(q)
    BY <1>1 DEF onPresentAtMinimumRate
  <2>4. CASE PromoteToMaximum(q)
    <3>1. presentStates = "AtMinimum" /\ presentStates' = "AtMaximum"
      BY <2>4 DEF PromoteToMaximum, PromoteFrom, WriteResult
    <3> QED  BY <2>1, <2>2, <3>1 DEF Cycle!Promote, Cycle!IsSet, Cycle!range
  <2>5. CASE ExtendTransition(q) \/ KeepPresentState(q)
    BY <2>1, <2>5 DEF ExtendTransition, KeepPresentState, rateVars
  <2> QED  BY <2>3, <2>4, <2>5
<1>2. CASE Present /\ ~onPresentAtMinimumRate
  BY <1>2 DEF Present, PresentUnlocked, setExpectedPresentTime, onPresentDisabled, onPresentBegin,
              presentTakeFence, presentCloseFence, onPresentEnd, rateVars
<1> QED  BY <1>1, <1>2

LEMMA CycleThread ==
  ASSUME Thread
  PROVE  Cycle!LockTimeEnds \/ Cycle!Revert \/ UNCHANGED rateVars
<1>1. CASE OnMinLock
  <2>1. UNCHANGED <<mMinimumRefreshRate, mMaximumTimeout>>
    BY <1>1 DEF OnMinLock
  <2>2. PICK q : StartTransition(q) \/ ReturnToMinimum(q) \/ UNCHANGED presentStates
    BY <1>1 DEF OnMinLock
  <2> QED
    BY <2>1, <2>2
       DEF StartTransition, ReturnToMinimum, Cycle!LockTimeEnds, Cycle!Revert, Cycle!range, rateVars
<1>2. CASE Thread /\ ~OnMinLock
  BY <1>2 DEF Thread, ThreadExit, WaitForEnable, Continue, WaitForEvent, WaitForDueTime, ThreadUnchanged,
              OnVendorTimeoutInit, OnVendorTimeoutPost, OnSystemTimeout, OnNotifyExpectedPresent,
              OnHibernateTimeout, OnUpdateDbi, OnCalculator, threadTakeFence, threadCloseFence, rateVars
<1> QED  BY <1>1, <1>2

(* As long as the writes of the panel's node succeed, the controller       *)
(* implements the cycle of its header: every one of its steps is a step of *)
(* MinimumRateCycle or leaves the cycle alone.                             *)
THEOREM CycleIsImplemented ==
  ASSUME WriteMayFail = FALSE
  PROVE  Spec => ImplementsCycle
<1>1. Init => Cycle!Init
  BY DEF Init, Cycle!Init
<1>2. TypeOK /\ [Next]_vars => [Cycle!Next]_<<presentStates, mMinimumRefreshRate, mMaximumTimeout>>
  <2> SUFFICES ASSUME TypeOK, [Next]_vars
               PROVE  Cycle!Next \/ UNCHANGED rateVars
    BY DEF rateVars
  <2>1. CASE HalCalls
    BY <2>1, CycleHal DEF Cycle!Next
  <2>2. CASE Present
    BY <2>2, CyclePresent DEF Cycle!Next
  <2>3. CASE Thread
    BY <2>3, CycleThread DEF Cycle!Next
  <2>4. CASE SpuriousWakeup \/ Tick \/ UNCHANGED vars
    BY <2>4 DEF SpuriousWakeup, ThreadUnchanged, Tick, vars, rateVars
  <2> QED  BY <2>1, <2>2, <2>3, <2>4 DEF Next
<1> QED  BY <1>1, <1>2, TypeCorrect, PTL DEF Spec, ImplementsCycle, Cycle!Spec

-----------------------------------------------------------------------------
(* The hardware controller and the panel's auto mode. AutoModeInv adds     *)
(* that a default hardware controller is in charge at once, which is what  *)
(* keeps a return to the default controller safe. A failed write of the    *)
(* auto mode breaks it.                                                    *)

LEMMA WriteAuto ==
  ASSUME panel \in Commands, NEW ok \in BOOLEAN, NEW command \in Commands,
         WriteRefreshControl(ok, command)
  PROVE  panel'.auto = IF ok THEN command.auto ELSE panel.auto
BY DEF WriteRefreshControl, Commands

LEMMA AutoKept ==
  ASSUME TypeOK, TypeOK', AutoModeInv, FewerVendorEvents(queue, queue'),
         panel.auto => panel'.auto, UNCHANGED <<mController, mDefaultController>>
  PROVE  AutoModeInv'
<1>1. \A t \in Vendor, d \in Due : queue[t][d] \in Nat /\ queue'[t][d] \in Nat
  <2>1. queue \in Queues /\ queue' \in Queues
    BY DEF TypeOK
  <2> QED  BY <2>1, EventTypes DEF Queues
<1>2. \A t \in Vendor : Queued(t)' => Queued(t)
  BY <1>1 DEF FewerVendorEvents, Queued
<1>3. (Queued("VendorInit")' => Queued("VendorInit")) /\ (Queued("VendorPost")' => Queued("VendorPost"))
  BY <1>2, VendorEvents
<1> QED  BY <1>3 DEF AutoModeInv, HardwareHasAutoMode

(* Taking over: the auto mode is written and the software timeouts are     *)
(* cancelled.                                                              *)
LEMMA AutoTaken ==
  ASSUME mController' = "kHardware", panel'.auto, NoVendorEvent(queue')
  PROVE  AutoModeInv'
<1>1. ~Queued("VendorInit")' /\ ~Queued("VendorPost")'
  BY VendorEvents DEF NoVendorEvent, Queued
<1> QED  BY <1>1 DEF AutoModeInv, HardwareHasAutoMode

LEMMA AutoHal ==
  ASSUME TypeOK, TypeOK', WriteMayFail = FALSE, AutoModeInv, HalCalls
  PROVE  AutoModeInv'
<1>0. panel \in Commands /\ FewerVendorEvents(queue, queue')
  BY VendorHal DEF TypeOK, NoNewVendorEvent
<1>1. CASE \/ notifyExpectedPresent \/ stopThread \/ (\E b \in EnableValue : setEnable(b))
           \/ (\E o : setPresentTimeoutParameters(o)) \/ (\E m \in PowerMode : postSetPowerMode(m))
  <2>1. UNCHANGED <<panel, mController, mDefaultController>>
    BY <1>1
       DEF notifyExpectedPresent, stopThread, setEnable, setPresentTimeoutParameters, postSetPowerMode
  <2> QED  BY <1>0, <2>1, AutoKept
<1>2. ASSUME NEW c \in Config, setActiveVrrConfiguration(c)
      PROVE  AutoModeInv'
  <2>1. [panel EXCEPT !.minimum = MaxFrameRate[c]] \in Commands
    BY <1>0, ConfigAssumption DEF Commands
  <2>2. panel'.auto = panel.auto
    BY <1>0, <1>2, <2>1, WriteAuto DEF setActiveVrrConfiguration, FollowMaximumRate, Commands, WriteResult
  <2> QED  BY <1>0, <1>2, <2>2, AutoKept DEF setActiveVrrConfiguration
<1>3. ASSUME NEW m \in PowerMode, preSetPowerMode(m)
      PROVE  AutoModeInv'
  <2>1. CASE m = "Doze"
    <3>1. [panel EXCEPT !.auto = TRUE] \in Commands
      BY <1>0 DEF Commands
    <3>2. panel'.auto
      BY <1>0, <1>3, <2>1, <3>1, WriteAuto DEF preSetPowerMode, WriteResult, Commands
    <3> QED  BY <1>3, <2>1, <3>2, AutoTaken, CancelFacts DEF preSetPowerMode, TypeOK
  <2>2. CASE m # "Doze"
    <3>1. mController' = mDefaultController /\ UNCHANGED <<panel, queue, mDefaultController>>
      BY <1>3, <2>2 DEF preSetPowerMode
    <3> QED  BY <3>1 DEF AutoModeInv, HardwareHasAutoMode, Queued
  <2> QED  BY <2>1, <2>2
<1>4. ASSUME NEW t \in ControllerType, setPresentTimeoutController(t)
      PROVE  AutoModeInv'
  <2>1. mDefaultController' = t /\ mController' = ControllerFor(t)
    BY <1>4 DEF setPresentTimeoutController
  <2>2. CASE mController' = mController
    <3>1. UNCHANGED <<queue, panel>> /\ (t = "kHardware" => mController' = "kHardware")
      BY <1>4, <2>1, <2>2 DEF setPresentTimeoutController, ControllerFor
    <3> QED  BY <2>1, <2>2, <3>1 DEF AutoModeInv, HardwareHasAutoMode, Queued
  <2>3. CASE mController' # mController /\ mController' = "kHardware"
    <3>1. [panel EXCEPT !.auto = TRUE] \in Commands
      BY <1>0 DEF Commands
    <3>2. WriteRefreshControl(TRUE, [panel EXCEPT !.auto = TRUE])
      BY <1>4, <2>3 DEF setPresentTimeoutController, WriteResult
    <3>3. panel'.auto
      BY <1>0, <3>1, <3>2, WriteAuto DEF Commands
    <3> QED  BY <1>4, <2>3, <3>3, AutoTaken, CancelFacts DEF setPresentTimeoutController, TypeOK
  <2>4. CASE mController' # "kHardware"
    BY <2>1, <2>4 DEF AutoModeInv, HardwareHasAutoMode, ControllerFor
  <2> QED  BY <2>2, <2>3, <2>4
<1>5. ASSUME NEW r \in MinimumRate, NEW l \in LockTime, setFixedRefreshRateRange(r, l, TRUE)
      PROVE  AutoModeInv'
  <2>1. CASE FixMinimumRate(r, l, TRUE)
    <3>1. [panel EXCEPT !.auto = TRUE, !.minimum = r] \in Commands
      BY <1>0, ConfigAssumption DEF Commands
    <3>2. panel'.auto
      BY <1>0, <2>1, <3>1, WriteAuto DEF FixMinimumRate, Commands
    <3>3. NoVendorEvent(queue')
      BY <2>1, DropType, CancelFacts DEF FixMinimumRate, TypeOK
    <3> QED  BY <2>1, <3>2, <3>3, AutoTaken DEF FixMinimumRate
  <2>2. CASE UnsetMinimumRate(r, l, TRUE)
    <3>1. mController' = mDefaultController /\ UNCHANGED mDefaultController
      BY <1>5, <2>2 DEF UnsetMinimumRate, setFixedRefreshRateRange
    <3>2. CASE mDefaultController = "kHardware"
      <4>1. UNCHANGED <<panel, mController>>
        BY <2>2, <3>1, <3>2 DEF UnsetMinimumRate, AutoModeInv
      <4> QED  BY <1>0, <3>1, <4>1, AutoKept
    <3>3. CASE mDefaultController # "kHardware"
      BY <3>1, <3>3 DEF AutoModeInv, HardwareHasAutoMode
    <3> QED  BY <3>2, <3>3
  <2> QED  BY <1>5, <2>1, <2>2 DEF setFixedRefreshRateRange
<1> QED  BY <1>1, <1>2, <1>3, <1>4, <1>5 DEF HalCalls, WriteResult

LEMMA AutoPresent ==
  ASSUME TypeOK, TypeOK', WriteMayFail = FALSE, AutoModeInv, Present
  PROVE  AutoModeInv'
<1>0. panel \in Commands
  BY DEF TypeOK
<1>1. CASE onPresentEnd
  <2>1. UNCHANGED <<mController, mDefaultController, panel>>
    BY <1>1 DEF onPresentEnd
  <2>2. CASE mController # "kHardware"
    BY <2>1, <2>2 DEF AutoModeInv, HardwareHasAutoMode
  <2>3. CASE mController = "kHardware"
    <3>1. queue' = PostEvent(queue, "SystemTimeout", NextRenderingTimeout)
      BY <1>1, <2>3 DEF onPresentEnd, shouldHandleVendorRenderingTimeout
    <3>2. NextRenderingTimeout \in Int
      BY TimeAssumption DEF NextRenderingTimeout
    <3>3. FewerVendorEvents(queue, queue')
      BY <3>1, <3>2, FewerPost, VendorEvents DEF TypeOK
    <3> QED  BY <2>1, <3>3, AutoKept
  <2> QED  BY <2>2, <2>3
<1>2. CASE onPresentAtMinimumRate
  <2>1. /\ [panel EXCEPT !.auto = TRUE, !.minimum = MaxFrameRate[mVrrActiveConfig]] \in Commands
        /\ \A ok \in WriteResult : ok = TRUE
    BY <1>0, ConfigAssumption DEF Commands, TypeOK, WriteResult
  <2>2. panel.auto => panel'.auto
    BY <1>0, <1>2, <2>1, WriteAuto
       DEF onPresentAtMinimumRate, PromoteToMaximum, PromoteFrom, ExtendTransition, KeepPresentState, Commands
  <2>3. FewerVendorEvents(queue, queue')
    BY <1>2, VendorPresent DEF NoNewVendorEvent, onPresentAtMinimumRate, onPresentEnd
  <2> QED  BY <1>2, <2>2, <2>3, AutoKept DEF onPresentAtMinimumRate
<1>3. CASE Present /\ ~onPresentEnd /\ ~onPresentAtMinimumRate
  <2>1. FewerVendorEvents(queue, queue')
    BY <1>3, VendorPresent DEF NoNewVendorEvent
  <2>2. UNCHANGED <<mController, mDefaultController, panel>>
    BY <1>3
       DEF Present, PresentUnlocked, setExpectedPresentTime, onPresentDisabled, onPresentBegin,
           presentTakeFence, presentCloseFence
  <2> QED  BY <2>1, <2>2, AutoKept
<1> QED  BY <1>1, <1>2, <1>3

LEMMA AutoThread ==
  ASSUME TypeOK, TypeOK', WriteMayFail = FALSE, AutoModeInv, Thread
  PROVE  AutoModeInv'
<1>0. panel \in Commands
  BY DEF TypeOK
<1>1. CASE OnVendorTimeoutInit \/ OnVendorTimeoutPost
  <2>1. Queued("VendorInit") \/ Queued("VendorPost")
    BY <1>1 DEF OnVendorTimeoutInit, OnVendorTimeoutPost, Pops, IsTop, Queued
  <2>2. mController # "kHardware" /\ mDefaultController # "kHardware"
    BY <2>1 DEF AutoModeInv, HardwareHasAutoMode
  <2>3. mController' # "kHardware" /\ UNCHANGED mDefaultController
    BY <1>1, <2>2 DEF OnVendorTimeoutInit, OnVendorTimeoutPost, handlePresentTimeout
  <2> QED  BY <2>2, <2>3 DEF AutoModeInv, HardwareHasAutoMode
<1>2. CASE Thread /\ ~OnVendorTimeoutInit /\ ~OnVendorTimeoutPost
  <2>1. FewerVendorEvents(queue, queue')
    BY <1>2, VendorThread
  <2>2. UNCHANGED <<mController, mDefaultController>>
    BY <1>2 DEF Thread, ThreadExit, WaitForEnable, Continue, WaitForEvent, WaitForDueTime, ThreadUnchanged,
                OnSystemTimeout, OnNotifyExpectedPresent, OnHibernateTimeout, OnUpdateDbi, OnCalculator,
                OnMinLock, threadTakeFence, threadCloseFence
  <2>3. CASE OnMinLock
    <3>1. [panel EXCEPT !.auto = TRUE, !.minimum = mMinimumRefreshRate] \in Commands
      BY <1>0 DEF Commands, TypeOK
    <3>2. panel.auto => panel'.auto
      BY <1>0, <2>3, <3>1, WriteAuto DEF OnMinLock, StartTransition, ReturnToMinimum, WriteResult, Commands
    <3> QED  BY <2>1, <2>2, <3>2, AutoKept
  <2>4. CASE Thread /\ ~OnVendorTimeoutInit /\ ~OnVendorTimeoutPost /\ ~OnMinLock
    <3>1. UNCHANGED panel
      BY <2>4 DEF Thread, ThreadExit, WaitForEnable, Continue, WaitForEvent, WaitForDueTime, ThreadUnchanged,
                  OnSystemTimeout, OnNotifyExpectedPresent, OnHibernateTimeout, OnUpdateDbi, OnCalculator,
                  threadTakeFence, threadCloseFence
    <3> QED  BY <2>1, <2>2, <3>1, AutoKept
  <2> QED  BY <1>2, <2>3, <2>4
<1> QED  BY <1>1, <1>2

(* While the hardware is in charge of present timeouts the panel's auto    *)
(* mode is on and no software timeout is queued, through every doze,       *)
(* change of controller and minimum rate, if the writes succeed.           *)
THEOREM HardwareKeepsAutoMode ==
  ASSUME WriteMayFail = FALSE
  PROVE  Spec => []HardwareHasAutoMode
<1>1. Init => AutoModeInv
  BY DEF Init, AutoModeInv, HardwareHasAutoMode
<1>2. TypeOK /\ AutoModeInv /\ [Next]_vars => AutoModeInv'
  <2> SUFFICES ASSUME TypeOK, AutoModeInv, [Next]_vars
               PROVE  AutoModeInv'
    OBVIOUS
  <2>0. TypeOK'
    BY TypeStep
  <2>1. CASE HalCalls
    BY <2>0, <2>1, AutoHal
  <2>2. CASE Present
    BY <2>0, <2>2, AutoPresent
  <2>3. CASE Thread
    BY <2>0, <2>3, AutoThread
  <2>4. CASE SpuriousWakeup \/ UNCHANGED vars
    BY <2>4 DEF SpuriousWakeup, ThreadUnchanged, vars, AutoModeInv, HardwareHasAutoMode, Queued
  <2>5. CASE Tick
    <3>1. (Queued("VendorInit")' => Queued("VendorInit")) /\ (Queued("VendorPost")' => Queued("VendorPost"))
      BY <2>5, VendorTick, VendorEvents
    <3>2. UNCHANGED <<mController, mDefaultController, panel>>
      BY <2>5 DEF Tick
    <3> QED  BY <3>1, <3>2 DEF AutoModeInv, HardwareHasAutoMode
  <2> QED  BY <2>1, <2>2, <2>3, <2>4, <2>5 DEF Next
<1>3. AutoModeInv => HardwareHasAutoMode
  BY DEF AutoModeInv
<1> QED  BY <1>1, <1>2, <1>3, TypeCorrect, PTL DEF Spec

-----------------------------------------------------------------------------
(* DisabledWhileOff. No notification is queued while the display is not    *)
(* on, and nothing else gets a disabled controller back to rendering.      *)

NoNotification(q) == \A d \in Due : q["NotifyExpectedPresent"][d] = 0

OffInv ==
  /\ DisabledWhileOff
  /\ mPowerMode # "Normal" => NoNotification(queue)

LEMMA NoNotificationPost ==
  ASSUME NEW q \in Queues, NoNotification(q),
         NEW t \in EventType \ {"NotifyExpectedPresent"}, NEW d \in Int
  PROVE  PostEvent(q, t, d) \in Queues /\ NoNotification(PostEvent(q, t, d))
BY EventTypes, PostType, DueAtType DEF NoNotification, PostEvent, Queues

LEMMA NoNotificationPop ==
  ASSUME NEW q \in Queues, NoNotification(q), NEW t \in EventType, NEW d \in Due, q[t][d] > 0
  PROVE  PopEvent(q, t, d) \in Queues /\ NoNotification(PopEvent(q, t, d))
<1>1. t # "NotifyExpectedPresent"
  BY DEF NoNotification
<1> QED  BY <1>1, EventTypes, PopType DEF NoNotification, PopEvent, Queues

LEMMA NoNotificationDrop ==
  ASSUME NEW q \in Queues, NEW types, NoNotification(q) \/ "NotifyExpectedPresent" \in types
  PROVE  DropEvents(q, types) \in Queues /\ NoNotification(DropEvents(q, types))
BY EventTypes, DropType DEF NoNotification, DropEvents, NoTimers, Queues

LEMMA NoNotificationDbi ==
  ASSUME NEW q \in Queues, NoNotification(q), NEW r \in WithDbiUpdate(q)
  PROVE  r \in Queues /\ NoNotification(r)
<1>1. PostEvent(q, "UpdateDbi", 0) \in Queues /\ NoNotification(PostEvent(q, "UpdateDbi", 0))
  BY NoNotificationPost, VendorEvents
<1> QED  BY <1>1 DEF WithDbiUpdate

LEMMA NoNotificationTimeout ==
  ASSUME NEW q \in Queues, NoNotification(q), NEW config
  PROVE  SystemTimeoutEvent(q, config) \in Queues /\ NoNotification(SystemTimeoutEvent(q, config))
<1>1. NotifyTimeout \in Int
  BY TimeAssumption
<1>2. /\ PostEvent(q, "SystemTimeout", NotifyTimeout) \in Queues
      /\ NoNotification(PostEvent(q, "SystemTimeout", NotifyTimeout))
  BY <1>1, NoNotificationPost, VendorEvents
<1> QED  BY <1>2 DEF SystemTimeoutEvent

LEMMA OffHal ==
  ASSUME NotifyWhileOff = FALSE, TypeOK, OffInv, HalCalls
  PROVE  OffInv'
<1>0. queue \in Queues
  BY DEF TypeOK
<1>1. CASE notifyExpectedPresent
  BY <1>1 DEF notifyExpectedPresent, OffInv, DisabledWhileOff, modeVars
<1>2. ASSUME NEW c \in Config, setActiveVrrConfiguration(c)
      PROVE  OffInv'
  <2>1. /\ UNCHANGED mPowerMode
        /\ mState' = mState \/ mState # "Disable"
    BY <1>2 DEF setActiveVrrConfiguration, modeVars
  <2>2. PICK q \in WithDbiUpdate(queue) :
          queue' = q \/ queue' = SystemTimeoutEvent(DropEvents(q, {"SystemTimeout"}), c)
    BY <1>2 DEF setActiveVrrConfiguration
  <2>3. NoNotification(queue) => NoNotification(queue')
    BY <1>0, <2>2, NoNotificationDbi, NoNotificationDrop, NoNotificationTimeout
  <2> QED  BY <2>1, <2>3 DEF OffInv, DisabledWhileOff
<1>3. ASSUME NEW b \in EnableValue, setEnable(b)
      PROVE  OffInv'
  <2>1. queue' = queue \/ queue' = EmptyQueue
    BY <1>3 DEF setEnable
  <2>2. NoNotification(EmptyQueue)
    BY EventTypes DEF NoNotification, EmptyQueue, NoTimers
  <2>3. UNCHANGED <<mState, mPowerMode>>
    BY <1>3 DEF setEnable
  <2> QED  BY <2>1, <2>2, <2>3 DEF OffInv, DisabledWhileOff
<1>4. ASSUME NEW m \in PowerMode, preSetPowerMode(m)
      PROVE  OffInv'
  <2>1. queue' = queue \/ queue' = DropEvents(queue, Vendor)
    BY <1>4 DEF preSetPowerMode, cancelPresentTimeoutHandlingLocked
  <2>2. NoNotification(queue) => NoNotification(queue')
    BY <1>0, <2>1, NoNotificationDrop
  <2>3. UNCHANGED <<mState, mPowerMode>>
    BY <1>4 DEF preSetPowerMode, modeVars
  <2> QED  BY <2>2, <2>3 DEF OffInv, DisabledWhileOff
<1>5. ASSUME NEW m \in PowerMode, postSetPowerMode(m)
      PROVE  OffInv'
  <2>1. CASE m = "Normal"
    BY <1>5, <2>1 DEF postSetPowerMode, OffInv, DisabledWhileOff
  <2>2. CASE m # "Normal"
    <3>1. mState' = "Disable" /\ queue' = DropGeneralEvents(queue)
      BY <1>5, <2>2 DEF postSetPowerMode
    <3>2. NoNotification(queue')
      BY <1>0, <3>1, NoNotificationDrop DEF DropGeneralEvents, General
    <3> QED  BY <3>1, <3>2 DEF OffInv, DisabledWhileOff
  <2> QED  BY <2>1, <2>2
<1>6. ASSUME NEW o, setPresentTimeoutParameters(o)
      PROVE  OffInv'
  BY <1>6 DEF setPresentTimeoutParameters, OffInv, DisabledWhileOff, NoNotification, modeVars
<1>7. ASSUME NEW t \in ControllerType, setPresentTimeoutController(t)
      PROVE  OffInv'
  <2>1. queue' = queue \/ queue' = DropEvents(queue, Vendor)
    BY <1>7 DEF setPresentTimeoutController, cancelPresentTimeoutHandlingLocked
  <2>2. NoNotification(queue) => NoNotification(queue')
    BY <1>0, <2>1, NoNotificationDrop
  <2>3. UNCHANGED <<mState, mPowerMode>>
    BY <1>7 DEF setPresentTimeoutController, modeVars
  <2> QED  BY <2>2, <2>3 DEF OffInv, DisabledWhileOff
<1>8. ASSUME NEW r \in MinimumRate, NEW l \in LockTime, NEW ok \in WriteResult,
             setFixedRefreshRateRange(r, l, ok)
      PROVE  OffInv'
  <2>1. \/ queue' = DropEvents(queue, {"MinLock"})
        \/ queue' = DropEvents(DropEvents(queue, {"MinLock"}), Vendor)
    BY <1>8 DEF setFixedRefreshRateRange, FixMinimumRate, UnsetMinimumRate,
                cancelPresentTimeoutHandlingLocked
  <2>2. NoNotification(queue) => NoNotification(queue')
    BY <1>0, <2>1, NoNotificationDrop
  <2>3. UNCHANGED <<mState, mPowerMode>>
    BY <1>8 DEF setFixedRefreshRateRange, modeVars
  <2> QED  BY <2>2, <2>3 DEF OffInv, DisabledWhileOff
<1>9. CASE stopThread
  BY <1>9 DEF stopThread, OffInv, DisabledWhileOff, NoNotification
<1> QED
  BY <1>1, <1>2, <1>3, <1>4, <1>5, <1>6, <1>7, <1>8, <1>9 DEF HalCalls

LEMMA OffPresent ==
  ASSUME TypeOK, OffInv, Present
  PROVE  OffInv'
<1> USE VendorEvents
<1>0. queue \in Queues /\ mMaximumTimeout \in Int /\ mPending.time \in Int
  BY TimeAssumption DEF TypeOK, Time
<1>1. ASSUME NEW t \in PresentOffset, setExpectedPresentTime(t)
      PROVE  OffInv'
  <2>1. queue' = DropEvents(DropEvents(queue, {"SystemTimeout"}), Vendor)
    BY <1>1 DEF setExpectedPresentTime, cancelPresentTimeoutHandlingLocked
  <2>2. NoNotification(queue) => NoNotification(queue')
    BY <1>0, <2>1, NoNotificationDrop
  <2>3. UNCHANGED <<mState, mPowerMode>>
    BY <1>1 DEF setExpectedPresentTime, modeVars
  <2> QED  BY <2>2, <2>3 DEF OffInv, DisabledWhileOff
<1>2. CASE onPresentDisabled
  <2>1. NoNotification(queue) => NoNotification(queue')
    BY <1>0, <1>2, NoNotificationDbi DEF onPresentDisabled
  <2>2. UNCHANGED <<mState, mPowerMode>>
    BY <1>2 DEF onPresentDisabled, modeVars
  <2> QED  BY <2>1, <2>2 DEF OffInv, DisabledWhileOff
<1>3. CASE onPresentAtMinimumRate \/ onPresentBegin
  <2>1. mState # "Disable" /\ UNCHANGED mPowerMode
    BY <1>3 DEF onPresentAtMinimumRate, onPresentBegin, modeVars
  <2> QED  BY <2>1 DEF OffInv, DisabledWhileOff
<1>4. CASE presentTakeFence \/ presentCloseFence
  BY <1>4 DEF presentTakeFence, presentCloseFence, OffInv, DisabledWhileOff, NoNotification, modeVars
<1>5. CASE onPresentEnd
  <2> DEFINE q == PostEvent(queue, "SystemTimeout", NextRenderingTimeout)
  <2>1. NextRenderingTimeout \in Int /\ FirstTimeout \in Int /\ AheadOfTime \in Int
    BY TimeAssumption, VendorAssumption DEF NextRenderingTimeout, FirstTimeout, TypeOK
  <2>2. NoNotification(queue) => q \in Queues /\ NoNotification(q)
    BY <1>0, <2>1, NoNotificationPost
  <2>3. NoNotification(queue) =>
          NoNotification(PostEvent(q, "VendorInit", mPending.time + FirstTimeout - AheadOfTime))
    <3>1. mPending.time + FirstTimeout - AheadOfTime \in Int
      BY <1>0, <2>1
    <3> HIDE DEF q
    <3>2. "VendorInit" \in EventType \ {"NotifyExpectedPresent"}
      BY EventTypes
    <3> QED  BY <2>2, <3>1, <3>2, NoNotificationPost
  <2>4. queue' \in {q, PostEvent(q, "VendorInit", mPending.time + FirstTimeout - AheadOfTime)}
    BY <1>5 DEF onPresentEnd
  <2>5. UNCHANGED <<mState, mPowerMode>>
    BY <1>5 DEF onPresentEnd, modeVars
  <2> QED  BY <2>2, <2>3, <2>4, <2>5 DEF OffInv, DisabledWhileOff
<1> QED  BY <1>1, <1>2, <1>3, <1>4, <1>5 DEF Present, PresentUnlocked

LEMMA OffThread ==
  ASSUME TypeOK, OffInv, Thread
  PROVE  OffInv'
<1> USE VendorEvents, EventTypes
<1>0. queue \in Queues /\ WakeUpPeriod \in Int /\ MeasurePeriod \in Int /\ TransitionDelay \in Int
  BY TimeAssumption DEF TypeOK
<1>1. \A t \in EventType, d \in Due : Pops(t, d) /\ NoNotification(queue) =>
        PopEvent(queue, t, d) \in Queues /\ NoNotification(PopEvent(queue, t, d))
  BY <1>0, NoNotificationPop DEF Pops, IsTop
<1>2. CASE ThreadExit \/ WaitForEnable \/ Continue \/ WaitForEvent \/ WaitForDueTime
           \/ threadTakeFence \/ threadCloseFence
  <2>1. UNCHANGED <<mState, mPowerMode, queue>>
    BY <1>2 DEF ThreadExit, WaitForEnable, Continue, WaitForEvent, WaitForDueTime,
                ThreadUnchanged, threadTakeFence, threadCloseFence, modeVars
  <2> QED  BY <2>1 DEF OffInv, DisabledWhileOff, NoNotification
<1>3. CASE OnVendorTimeoutInit \/ OnVendorTimeoutPost
  <2>1. UNCHANGED <<mState, mPowerMode>>
    BY <1>3 DEF OnVendorTimeoutInit, OnVendorTimeoutPost, modeVars
  <2>2. PICK t \in EventType, d \in Due : Pops(t, d) /\
          \/ queue' = PopEvent(queue, t, d)
          \/ \E r \in WithDbiUpdate(PopEvent(queue, t, d)), times \in Seq(Time), next \in Nat :
               ScheduleNextTask(r, times, next)
    <3>1. CASE OnVendorTimeoutInit
      <4>1. PICK d \in Due : Pops("VendorInit", d) /\
              (queue' = PopEvent(queue, "VendorInit", d)
               \/ (Schedule # <<>> /\ handlePresentTimeout(PopEvent(queue, "VendorInit", d), AddedTasks, 1)))
        BY <3>1 DEF OnVendorTimeoutInit
      <4>2. Schedule # <<>> => AddedTasks \in Seq(Time)
        BY AddedTasksType
      <4> QED  BY <4>1, <4>2 DEF handlePresentTimeout
    <3>2. CASE OnVendorTimeoutPost
      <4>1. PICK d \in Due : Pops("VendorPost", d) /\
              (queue' = PopEvent(queue, "VendorPost", d)
               \/ handlePresentTimeout(PopEvent(queue, "VendorPost", d), tasks, nextTaskIndex))
        BY <3>2 DEF OnVendorTimeoutPost
      <4>2. tasks \in Seq(Time) /\ nextTaskIndex \in Nat
        BY DEF TypeOK
      <4> QED  BY <4>1, <4>2 DEF handlePresentTimeout
    <3> QED  BY <1>3, <3>1, <3>2
  <2>3. ASSUME NoNotification(queue)
        PROVE  NoNotification(queue')
    <3>1. PopEvent(queue, t, d) \in Queues /\ NoNotification(PopEvent(queue, t, d))
      BY <1>1, <2>2, <2>3
    <3>2. ASSUME NEW r \in WithDbiUpdate(PopEvent(queue, t, d)), NEW times \in Seq(Time),
                 NEW next \in Nat, ScheduleNextTask(r, times, next)
          PROVE  NoNotification(queue')
      <4>1. r \in Queues /\ NoNotification(r)
        BY <3>1, <3>2, NoNotificationDbi
      <4>2. PICK e : queue' = r \/ (e \in Int /\ queue' = PostEvent(r, "VendorPost", e))
        <5> DEFINE at == IF next < Len(times) THEN times[next + 1] - AheadOfTime ELSE 0
        <5>1. at \in Int
          BY TaskTimeType
        <5>2. (IF at < 0 THEN 0 ELSE at) \in Int
          BY <5>1
        <5>3. queue' = r \/ queue' = PostEvent(r, "VendorPost", IF at < 0 THEN 0 ELSE at)
          BY <3>2 DEF ScheduleNextTask
        <5> HIDE DEF at
        <5> QED  BY <5>2, <5>3
      <4> QED  BY <4>1, <4>2, NoNotificationPost
    <3> QED  BY <2>2, <3>1, <3>2
  <2> QED  BY <2>1, <2>3 DEF OffInv, DisabledWhileOff
<1>4. CASE OnSystemTimeout
  <2>1. PICK d \in Due : Pops("SystemTimeout", d) /\
          \/ queue' = PopEvent(queue, "SystemTimeout", d)
          \/ \E q \in WithDbiUpdate(PopEvent(queue, "SystemTimeout", d)) :
               queue' = PostEvent(q, "HibernateTimeout", WakeUpPeriod)
    BY <1>4 DEF OnSystemTimeout
  <2>2. NoNotification(queue) => NoNotification(queue')
    BY <1>0, <1>1, <2>1, NoNotificationDbi, NoNotificationPost
  <2>3. (mState' = mState \/ mState # "Disable") /\ UNCHANGED mPowerMode
    BY <1>4 DEF OnSystemTimeout, modeVars
  <2> QED  BY <2>2, <2>3 DEF OffInv, DisabledWhileOff
<1>5. CASE OnNotifyExpectedPresent
  <2>1. PICK d \in Due : queue["NotifyExpectedPresent"][d] > 0
    BY <1>5 DEF OnNotifyExpectedPresent, Pops, IsTop
  <2>2. ~NoNotification(queue)
    BY <2>1 DEF NoNotification
  <2>3. UNCHANGED mPowerMode
    BY <1>5 DEF OnNotifyExpectedPresent, modeVars
  <2> QED  BY <2>2, <2>3 DEF OffInv, DisabledWhileOff
<1>6. CASE OnHibernateTimeout \/ OnUpdateDbi \/ OnCalculator \/ OnMinLock
  <2>1. UNCHANGED <<mState, mPowerMode>>
    BY <1>6 DEF OnHibernateTimeout, OnUpdateDbi, OnCalculator, OnMinLock, modeVars
  <2>2. PICK t \in EventType, d \in Due : Pops(t, d) /\
          \/ queue' = PopEvent(queue, t, d)
          \/ queue' = PostEvent(PopEvent(queue, t, d), "HibernateTimeout", WakeUpPeriod)
          \/ queue' = PostEvent(PopEvent(queue, t, d), "Calculator", d + MeasurePeriod)
          \/ queue' = PostEvent(PopEvent(queue, t, d), "MinLock", TransitionDelay)
    BY <1>6 DEF OnHibernateTimeout, OnUpdateDbi, OnCalculator, OnMinLock, StartTransition, ReturnToMinimum
  <2>4. d + MeasurePeriod \in Int
    BY <1>0, TimeAssumption DEF Due
  <2>3. NoNotification(queue) => NoNotification(queue')
    BY <1>0, <1>1, <2>2, <2>4, NoNotificationPost
  <2> QED  BY <2>1, <2>3 DEF OffInv, DisabledWhileOff
<1> QED  BY <1>2, <1>3, <1>4, <1>5, <1>6 DEF Thread

LEMMA OffTick ==
  ASSUME TypeOK, OffInv, Tick
  PROVE  OffInv'
<1>1. /\ \A d \in Due : queue["NotifyExpectedPresent"][d] \in Nat
      /\ Horizon \in Nat /\ MaxLag \in Nat /\ 0 < MaxLag /\ MaxLag <= Horizon
  BY EventTypes, TimeAssumption DEF TypeOK, Queues
<1>2. \A d \in Due : d # Horizon => d + 1 \in Due
  BY <1>1 DEF Due
<1>3. -MaxLag # Horizon
  BY <1>1
<1>4. \A d \in Due :
        queue'["NotifyExpectedPresent"][d] =
          IF d = -MaxLag
          THEN queue["NotifyExpectedPresent"][d] + queue["NotifyExpectedPresent"][d + 1]
          ELSE IF d = Horizon THEN 0 ELSE queue["NotifyExpectedPresent"][d + 1]
  BY EventTypes DEF Tick, Shift
<1>5. NoNotification(queue) => NoNotification(queue')
  BY <1>2, <1>3, <1>4 DEF NoNotification
<1>6. UNCHANGED <<mState, mPowerMode>>
  BY DEF Tick, modeVars
<1> QED  BY <1>5, <1>6 DEF OffInv, DisabledWhileOff

(* The controller renders or hibernates only while the display is on, if   *)
(* notifyExpectedPresent is called only then: whatever events, frames and  *)
(* timers a power-off leaves behind, none revives it.                      *)
THEOREM StaysDisabledWhileOff ==
  ASSUME NotifyWhileOff = FALSE
  PROVE  Spec => []DisabledWhileOff
<1>1. Init => OffInv
  BY EventTypes DEF Init, OffInv, DisabledWhileOff, NoNotification, EmptyQueue, NoTimers
<1>2. TypeOK /\ OffInv /\ [Next]_vars => OffInv'
  <2> SUFFICES ASSUME TypeOK, OffInv, [Next]_vars
               PROVE  OffInv'
    OBVIOUS
  <2>1. CASE SpuriousWakeup \/ UNCHANGED vars
    BY <2>1 DEF SpuriousWakeup, ThreadUnchanged, vars, modeVars, OffInv, DisabledWhileOff, NoNotification
  <2> QED  BY <2>1, OffHal, OffPresent, OffThread, OffTick DEF Next
<1>3. OffInv => DisabledWhileOff
  BY DEF OffInv
<1> QED  BY <1>1, <1>2, <1>3, TypeCorrect, PTL DEF Spec

-----------------------------------------------------------------------------
(* The present states of a minimum refresh rate, the one timer that leaves *)
(* the peak rate, and the rate written to the panel.                       *)

OneTimer(timers) == \E d \in Due : timers = [NoTimers EXCEPT ![d] = 1]

MinRateInv ==
  /\ presentStates \in PeakStates => OneTimer(queue["MinLock"]) /\ mMaximumTimeout > 0
  /\ presentStates \notin PeakStates => queue["MinLock"] = NoTimers
  /\ presentStates = "Unset" <=> ~isMinimumRefreshRateActive(mMinimumRefreshRate)
  /\ PanelFollowsPresentState

LEMMA OtherTypes ==
  /\ "MinLock" \notin General /\ "MinLock" \notin Vendor /\ "MinLock" # "Calculator"
  /\ "VendorInit" # "MinLock" /\ "VendorPost" # "MinLock" /\ "SystemTimeout" # "MinLock"
  /\ "HibernateTimeout" # "MinLock" /\ "NotifyExpectedPresent" # "MinLock" /\ "UpdateDbi" # "MinLock"
BY DEF General, Vendor

LEMMA PostsOther ==
  ASSUME NEW q \in Queues, NEW t \in EventType, t # "MinLock", NEW d
  PROVE  PostEvent(q, t, d)["MinLock"] = q["MinLock"]
BY EventTypes DEF PostEvent, Queues

LEMMA PopsOther ==
  ASSUME NEW q \in Queues, NEW t \in EventType, t # "MinLock", NEW d
  PROVE  PopEvent(q, t, d)["MinLock"] = q["MinLock"]
BY EventTypes DEF PopEvent, Queues

LEMMA DropsOther ==
  ASSUME NEW q \in Queues, NEW types, "MinLock" \notin types
  PROVE  DropEvents(q, types)["MinLock"] = q["MinLock"]
BY EventTypes DEF DropEvents

LEMMA DropsTimer ==
  ASSUME NEW q \in Queues, NEW types, "MinLock" \in types
  PROVE  DropEvents(q, types)["MinLock"] = NoTimers
BY EventTypes DEF DropEvents

LEMMA DbiOther ==
  ASSUME NEW q \in Queues, NEW r \in WithDbiUpdate(q)
  PROVE  r \in Queues /\ r["MinLock"] = q["MinLock"]
BY DbiType, PostsOther, OtherTypes, EventTypes DEF WithDbiUpdate

LEMMA SystemTimeoutOther ==
  ASSUME NEW q \in Queues, NEW config
  PROVE  SystemTimeoutEvent(q, config) \in Queues /\ SystemTimeoutEvent(q, config)["MinLock"] = q["MinLock"]
BY SystemTimeoutType, PostsOther, OtherTypes, EventTypes DEF SystemTimeoutEvent

LEMMA PostsTheTimer ==
  ASSUME NEW q \in Queues, q["MinLock"] = NoTimers, NEW d \in Int
  PROVE  OneTimer(PostEvent(q, "MinLock", d)["MinLock"])
<1>1. DueAt(d) \in Due
  BY DueAtType
<1>2. PostEvent(q, "MinLock", d)["MinLock"] = [NoTimers EXCEPT ![DueAt(d)] = @ + 1]
  BY EventTypes DEF PostEvent, Queues
<1>3. [NoTimers EXCEPT ![DueAt(d)] = @ + 1] = [NoTimers EXCEPT ![DueAt(d)] = 1]
  BY <1>1 DEF NoTimers
<1> QED  BY <1>1, <1>2, <1>3 DEF OneTimer

LEMMA PopsTheTimer ==
  ASSUME NEW q \in Queues, OneTimer(q["MinLock"]), NEW d \in Due, q["MinLock"][d] > 0
  PROVE  PopEvent(q, "MinLock", d) \in Queues /\ PopEvent(q, "MinLock", d)["MinLock"] = NoTimers
<1>1. PICK e \in Due : q["MinLock"] = [NoTimers EXCEPT ![e] = 1]
  BY DEF OneTimer
<1>2. d = e
  BY <1>1 DEF NoTimers
<1>3. PopEvent(q, "MinLock", d)["MinLock"] = [q["MinLock"] EXCEPT ![d] = @ - 1]
  BY EventTypes DEF PopEvent, Queues
<1>4. [[NoTimers EXCEPT ![d] = 1] EXCEPT ![d] = @ - 1] = NoTimers
  BY DEF NoTimers
<1> QED  BY <1>1, <1>2, <1>3, <1>4, PopType, EventTypes

LEMMA TimerShifts ==
  ASSUME NEW d \in Due
  PROVE  OneTimer(Shift([NoTimers EXCEPT ![d] = 1])) /\ Shift(NoTimers) = NoTimers
<1>1. Horizon \in Nat /\ MaxLag \in Nat /\ 0 < MaxLag /\ MaxLag <= Horizon /\ d \in Int
  BY TimeAssumption DEF Due
<1>2. \A e \in Due : e \in Int /\ (e # Horizon => e + 1 \in Due)
  BY <1>1 DEF Due
<1>3. Shift(NoTimers) = NoTimers
  <2>1. \A e \in Due : Shift(NoTimers)[e] = 0
    <3>1. -MaxLag # Horizon /\ \A e \in Due : NoTimers[e] = 0
      BY <1>1 DEF NoTimers
    <3> QED  BY <1>2, <3>1 DEF Shift
  <2>2. Shift(NoTimers) = [e \in Due |-> Shift(NoTimers)[e]]
    BY DEF Shift
  <2> QED  BY <2>1, <2>2 DEF NoTimers
<1> DEFINE to == IF d = -MaxLag THEN d ELSE d - 1
<1>4. to \in Due
  BY <1>1 DEF Due
<1>5. \A e \in Due : Shift([NoTimers EXCEPT ![d] = 1])[e] = IF e = to THEN 1 ELSE 0
  <2> DEFINE timers == [NoTimers EXCEPT ![d] = 1]
  <2>1. \A e \in Due : timers[e] = IF e = d THEN 1 ELSE 0
    BY DEF NoTimers
  <2> HIDE DEF timers
  <2>2. \A e \in Due : Shift(timers)[e] = IF e = -MaxLag THEN timers[e] + timers[e + 1]
                                          ELSE IF e = Horizon THEN 0 ELSE timers[e + 1]
    BY DEF Shift
  <2>3. -MaxLag # Horizon /\ d >= -MaxLag /\ d <= Horizon
    BY <1>1 DEF Due
  <2> HIDE DEF to
  <2>4. to \in Int /\ (d = -MaxLag => to = d) /\ (d # -MaxLag => to = d - 1)
    BY <1>1 DEF to
  <2>5. ASSUME NEW e \in Due
        PROVE  Shift(timers)[e] = IF e = to THEN 1 ELSE 0
    <3>1. CASE e = -MaxLag
      <4>1. e + 1 \in Due /\ Shift(timers)[e] = timers[e] + timers[e + 1] /\ e \in Int
        BY <1>2, <2>2, <2>3, <3>1
      <4>2. timers[e] = (IF e = d THEN 1 ELSE 0) /\ timers[e + 1] = (IF e + 1 = d THEN 1 ELSE 0)
        BY <2>1, <4>1
      <4> QED  BY <1>1, <2>4, <3>1, <4>1, <4>2
    <3>2. CASE e = Horizon
      BY <1>1, <1>2, <2>2, <2>3, <2>4, <3>2
    <3>3. CASE e # -MaxLag /\ e # Horizon
      <4>1. e + 1 \in Due /\ Shift(timers)[e] = timers[e + 1] /\ e \in Int
        BY <1>2, <2>2, <3>3
      <4>2. timers[e + 1] = (IF e + 1 = d THEN 1 ELSE 0)
        BY <2>1, <4>1
      <4>3. e >= -MaxLag
        BY <1>1 DEF Due
      <4> QED  BY <1>1, <2>3, <2>4, <3>3, <4>1, <4>2, <4>3
    <3> QED  BY <3>1, <3>2, <3>3
  <2> QED  BY <2>5 DEF timers
<1>6. Shift([NoTimers EXCEPT ![d] = 1]) = [e \in Due |-> IF e = to THEN 1 ELSE 0]
  BY <1>5 DEF Shift
<1>7. [NoTimers EXCEPT ![to] = 1] = [e \in Due |-> IF e = to THEN 1 ELSE 0]
  BY <1>4 DEF NoTimers
<1> QED  BY <1>3, <1>4, <1>6, <1>7 DEF OneTimer

LEMMA TimerFacts ==
  ASSUME MinRateInv
  PROVE  MinLockMatchesState
<1>1. CASE presentStates \notin PeakStates
  BY <1>1 DEF MinRateInv, MinLockMatchesState, Queued, NoTimers
<1>2. CASE presentStates \in PeakStates
  <2>1. PICK d \in Due : queue["MinLock"] = [NoTimers EXCEPT ![d] = 1]
    BY <1>2 DEF MinRateInv, OneTimer
  <2>2. \A e \in Due : queue["MinLock"][e] = IF e = d THEN 1 ELSE 0
    BY <2>1 DEF NoTimers
  <2> QED  BY <1>2, <2>2 DEF MinLockMatchesState, Queued
<1> QED  BY <1>1, <1>2

LEMMA WriteMinimum ==
  ASSUME panel \in Commands, NEW ok \in BOOLEAN, NEW command \in Commands,
         WriteRefreshControl(ok, command)
  PROVE  panel'.minimum = IF ok THEN command.minimum ELSE panel.minimum
BY DEF WriteRefreshControl, Commands

(* What most actions do to the state of the minimum rate: nothing.         *)
MinRateKept ==
  /\ queue'["MinLock"] = queue["MinLock"]
  /\ UNCHANGED <<rateVars, mVrrActiveConfig>> /\ panel'.minimum = panel.minimum
  /\ UNCHANGED mLastRefreshRate \/ ~isMinimumRefreshRateActive(mMinimumRefreshRate)

LEMMA KeepsMinRate ==
  ASSUME TypeOK, MinRateInv, MinRateKept
  PROVE  MinRateInv'
<1>1. presentStates \in PeakStates => UNCHANGED mLastRefreshRate
  BY DEF MinRateKept, MinRateInv, PeakStates
<1> QED  BY <1>1 DEF MinRateKept, MinRateInv, PanelFollowsPresentState, rateVars

LEMMA ReportKeeps ==
  ASSUME CalculatorMayReport
  PROVE  UNCHANGED mLastRefreshRate \/ ~isMinimumRefreshRateActive(mMinimumRefreshRate)
BY DEF CalculatorMayReport

LEMMA MinRateHal ==
  ASSUME TypeOK, WriteMayFail = FALSE, FALSE \notin EnableValue, MinRateInv, HalCalls
  PROVE  MinRateInv'
<1> USE OtherTypes
<1>0. queue \in Queues /\ panel \in Commands
  BY DEF TypeOK
<1>1. CASE \/ notifyExpectedPresent \/ stopThread \/ (\E b \in EnableValue : setEnable(b))
           \/ (\E o : setPresentTimeoutParameters(o)) \/ (\E m \in PowerMode : postSetPowerMode(m))
  <2>1. UNCHANGED <<rateVars, panel, mLastRefreshRate, mVrrActiveConfig>>
    BY <1>1
       DEF notifyExpectedPresent, stopThread, setEnable, setPresentTimeoutParameters, postSetPowerMode
  <2>2. ASSUME notifyExpectedPresent
        PROVE  queue'["MinLock"] = queue["MinLock"]
    BY <1>0, <2>2, PostsOther, EventTypes DEF notifyExpectedPresent
  <2>3. ASSUME stopThread \/ (\E b \in EnableValue : setEnable(b)) \/ (\E o : setPresentTimeoutParameters(o))
        PROVE  queue'["MinLock"] = queue["MinLock"]
    <3>1. UNCHANGED queue
      BY <2>3, ConfigAssumption DEF stopThread, setEnable, setPresentTimeoutParameters
    <3> QED  BY <3>1
  <2>4. ASSUME NEW m \in PowerMode, postSetPowerMode(m)
        PROVE  queue'["MinLock"] = queue["MinLock"]
    <3>1. CASE queue' = DropGeneralEvents(queue)
      BY <1>0, <3>1, DropsOther DEF DropGeneralEvents
    <3>2. CASE queue' = ResumeCalculator(SystemTimeoutEvent(queue, mVrrActiveConfig))
      BY <1>0, <3>2, SystemTimeoutOther, PostsOther, EventTypes DEF ResumeCalculator
    <3> QED  BY <2>4, <3>1, <3>2 DEF postSetPowerMode
  <2> QED  BY <1>1, <2>1, <2>2, <2>3, <2>4, KeepsMinRate DEF MinRateKept
<1>2. ASSUME NEW c \in Config, setActiveVrrConfiguration(c)
      PROVE  MinRateInv'
  <2>1. UNCHANGED rateVars /\ mVrrActiveConfig' = c
    BY <1>2 DEF setActiveVrrConfiguration
  <2>2. queue'["MinLock"] = queue["MinLock"]
    <3>1. PICK q \in WithDbiUpdate(queue) :
            queue' = q \/ queue' = SystemTimeoutEvent(DropEvents(q, {"SystemTimeout"}), c)
      BY <1>2 DEF setActiveVrrConfiguration
    <3>2. q \in Queues /\ q["MinLock"] = queue["MinLock"]
      BY <1>0, DbiOther
    <3>3. DropEvents(q, {"SystemTimeout"}) \in Queues /\ DropEvents(q, {"SystemTimeout"})["MinLock"] = q["MinLock"]
      BY <3>2, DropType, DropsOther
    <3> QED  BY <3>1, <3>2, <3>3, SystemTimeoutOther
  <2>3. CASE presentStates \in PeakStates
    <3>1. isMinimumRefreshRateActive(mMinimumRefreshRate) /\ mMaximumTimeout > 0
      BY <2>3 DEF MinRateInv, PeakStates
    <3>2. /\ WriteRefreshControl(TRUE, [panel EXCEPT !.minimum = MaxFrameRate[c]])
          /\ onRefreshRateChangedInternal(c, MaxFrameRate[c])
      BY <1>2, <2>3, <3>1 DEF setActiveVrrConfiguration, FollowMaximumRate, WriteResult
    <3>3. [panel EXCEPT !.minimum = MaxFrameRate[c]] \in Commands
      BY <1>0, ConfigAssumption DEF Commands
    <3>4. panel'.minimum = MaxFrameRate[c]
      BY <1>0, <3>2, <3>3, WriteMinimum DEF Commands
    <3>5. presentStates # "AtMinimum"
      BY <2>3 DEF PeakStates
    <3> QED
      BY <2>1, <2>2, <2>3, <3>2, <3>4, <3>5
         DEF MinRateInv, PanelFollowsPresentState, onRefreshRateChangedInternal, rateVars
  <2>4. CASE presentStates \notin PeakStates
    <3>1. UNCHANGED <<panel, mLastRefreshRate>>
      BY <1>2, <2>4 DEF setActiveVrrConfiguration, FollowMaximumRate
    <3> QED  BY <2>1, <2>2, <2>4, <3>1 DEF MinRateInv, PanelFollowsPresentState, rateVars
  <2> QED  BY <2>3, <2>4
<1>3. ASSUME NEW m \in PowerMode, preSetPowerMode(m)
      PROVE  MinRateInv'
  <2>1. UNCHANGED <<rateVars, mVrrActiveConfig, mLastRefreshRate>>
    BY <1>3 DEF preSetPowerMode
  <2>2. queue'["MinLock"] = queue["MinLock"]
    BY <1>0, <1>3, DropsOther DEF preSetPowerMode, cancelPresentTimeoutHandlingLocked
  <2>3. panel'.minimum = panel.minimum
    BY <1>0, <1>3 DEF preSetPowerMode, WriteRefreshControl, Commands
  <2> QED  BY <2>1, <2>2, <2>3, KeepsMinRate DEF MinRateKept
<1>4. ASSUME NEW t \in ControllerType, setPresentTimeoutController(t)
      PROVE  MinRateInv'
  <2>1. UNCHANGED <<rateVars, mVrrActiveConfig, mLastRefreshRate>>
    BY <1>4 DEF setPresentTimeoutController
  <2>2. queue'["MinLock"] = queue["MinLock"]
    BY <1>0, <1>4, DropsOther DEF setPresentTimeoutController, cancelPresentTimeoutHandlingLocked
  <2>3. panel'.minimum = panel.minimum
    BY <1>0, <1>4 DEF setPresentTimeoutController, WriteRefreshControl, Commands
  <2> QED  BY <2>1, <2>2, <2>3, KeepsMinRate DEF MinRateKept
<1>5. ASSUME NEW r \in MinimumRate, NEW l \in LockTime, setFixedRefreshRateRange(r, l, TRUE)
      PROVE  MinRateInv'
  <2>0. DropEvents(queue, {"MinLock"}) \in Queues /\ DropEvents(queue, {"MinLock"})["MinLock"] = NoTimers
    BY <1>0, DropType, DropsTimer
  <2>1. CASE FixMinimumRate(r, l, TRUE)
    <3>1. [panel EXCEPT !.auto = TRUE, !.minimum = r] \in Commands
      BY <1>0, ConfigAssumption DEF Commands
    <3>2. panel'.minimum = r
      BY <1>0, <2>1, <3>1, WriteMinimum DEF FixMinimumRate, Commands
    <3>3. queue'["MinLock"] = NoTimers
      BY <2>0, <2>1, DropsOther DEF FixMinimumRate, cancelPresentTimeoutHandlingLocked
    <3>4. presentStates' = "AtMinimum" /\ mMinimumRefreshRate' = r /\ isMinimumRefreshRateActive(r)
      BY <2>1 DEF FixMinimumRate
    <3> QED  BY <3>2, <3>3, <3>4 DEF MinRateInv, PanelFollowsPresentState, PeakStates
  <2>2. CASE UnsetMinimumRate(r, l, TRUE)
    <3>1. presentStates' = "Unset" /\ mMinimumRefreshRate' = r /\ ~isMinimumRefreshRateActive(r)
      BY <2>2 DEF UnsetMinimumRate
    <3>2. queue'["MinLock"] = NoTimers
      BY <2>0, <2>2 DEF UnsetMinimumRate
    <3> QED  BY <3>1, <3>2 DEF MinRateInv, PanelFollowsPresentState, PeakStates
  <2> QED  BY <1>5, <2>1, <2>2 DEF setFixedRefreshRateRange
<1> QED  BY <1>1, <1>2, <1>3, <1>4, <1>5 DEF HalCalls, WriteResult

LEMMA MinRatePresent ==
  ASSUME TypeOK, WriteMayFail = FALSE, MinRateInv, Present
  PROVE  MinRateInv'
<1> USE OtherTypes
<1>0. queue \in Queues /\ panel \in Commands /\ mPending.time \in Int
  BY TimeAssumption DEF TypeOK, Time
<1>1. ASSUME NEW t \in PresentOffset, setExpectedPresentTime(t)
      PROVE  MinRateInv'
  <2>1. queue' = DropEvents(DropEvents(queue, {"SystemTimeout"}), Vendor)
    BY <1>1 DEF setExpectedPresentTime, cancelPresentTimeoutHandlingLocked
  <2>2. queue'["MinLock"] = queue["MinLock"]
    BY <1>0, <2>1, DropType, DropsOther
  <2> QED  BY <1>1, <2>2, KeepsMinRate DEF MinRateKept, setExpectedPresentTime
<1>2. CASE onPresentDisabled
  <2>1. queue'["MinLock"] = queue["MinLock"]
    BY <1>0, <1>2, DbiOther DEF onPresentDisabled
  <2> QED  BY <1>2, <2>1, KeepsMinRate, ReportKeeps DEF MinRateKept, onPresentDisabled
<1>3. CASE onPresentBegin
  <2>1. queue'["MinLock"] = queue["MinLock"]
    BY <1>0, <1>3, DbiOther, DropsOther DEF onPresentBegin, LeaveHibernate
  <2> QED  BY <1>3, <2>1, KeepsMinRate, ReportKeeps DEF MinRateKept, onPresentBegin
<1>4. CASE presentTakeFence \/ presentCloseFence
  BY <1>4, KeepsMinRate DEF MinRateKept, presentTakeFence, presentCloseFence
<1>5. CASE onPresentEnd
  <2> DEFINE q == PostEvent(queue, "SystemTimeout", NextRenderingTimeout)
  <2>1. NextRenderingTimeout \in Int
    BY TimeAssumption DEF NextRenderingTimeout
  <2>2. q \in Queues /\ q["MinLock"] = queue["MinLock"]
    BY <1>0, <2>1, PostType, PostsOther, EventTypes
  <2>3. queue' = q \/ queue' = PostEvent(q, "VendorInit", mPending.time + FirstTimeout - AheadOfTime)
    BY <1>5 DEF onPresentEnd
  <2> HIDE DEF q
  <2>4. queue'["MinLock"] = queue["MinLock"]
    BY <2>2, <2>3, PostsOther, EventTypes
  <2> QED  BY <1>5, <2>4, KeepsMinRate DEF MinRateKept, onPresentEnd
<1>6. CASE onPresentAtMinimumRate
  <2>1. /\ mMaximumTimeout > 0 /\ mMaximumTimeout \in Int /\ isMinimumRefreshRateActive(mMinimumRefreshRate)
        /\ UNCHANGED <<mMinimumRefreshRate, mMaximumTimeout, mVrrActiveConfig>>
    BY <1>6 DEF onPresentAtMinimumRate, TypeOK
  <2>2. PICK dbi \in WithDbiUpdate(queue) :
          \/ PromoteToMaximum(LeaveHibernate(dbi)) \/ ExtendTransition(LeaveHibernate(dbi))
          \/ KeepPresentState(LeaveHibernate(dbi))
    BY <1>6 DEF onPresentAtMinimumRate
  <2> DEFINE q == LeaveHibernate(dbi)
  <2>3. q \in Queues /\ q["MinLock"] = queue["MinLock"]
    <3>1. dbi \in Queues /\ dbi["MinLock"] = queue["MinLock"]
      BY <1>0, DbiOther
    <3> QED  BY <3>1, DropType, DropsOther DEF LeaveHibernate
  <2> HIDE DEF q
  <2>4. CASE PromoteToMaximum(q)
    <3> DEFINE command == [panel EXCEPT !.auto = TRUE, !.minimum = MaxFrameRate[mVrrActiveConfig]]
    <3>1. /\ presentStates = "AtMinimum" /\ presentStates' = "AtMaximum"
          /\ WriteRefreshControl(TRUE, command)
          /\ onRefreshRateChangedInternal(mVrrActiveConfig, MaxFrameRate[mVrrActiveConfig])
          /\ queue' = PostEvent(q, "MinLock", mPending.time + mMaximumTimeout)
      BY <2>4 DEF PromoteToMaximum, PromoteFrom, WriteResult
    <3>2. command \in Commands /\ command.minimum = MaxFrameRate[mVrrActiveConfig]
      BY <1>0, ConfigAssumption DEF Commands, TypeOK
    <3> HIDE DEF command
    <3>3. panel'.minimum = MaxFrameRate[mVrrActiveConfig]
      BY <1>0, <3>1, <3>2, WriteMinimum
    <3>4. q["MinLock"] = NoTimers
      BY <2>3, <3>1 DEF MinRateInv, PeakStates
    <3>5. OneTimer(queue'["MinLock"])
      BY <1>0, <2>1, <2>3, <3>1, <3>4, PostsTheTimer
    <3> QED
      BY <2>1, <3>1, <3>3, <3>5 DEF MinRateInv, PanelFollowsPresentState, onRefreshRateChangedInternal, PeakStates
  <2>5. CASE ExtendTransition(q)
    <3>1. /\ UNCHANGED <<panel, presentStates, mLastRefreshRate>> /\ presentStates = "Transition"
          /\ queue' = PostEvent(DropEvents(q, {"MinLock"}), "MinLock", mPending.time + TransitionDelay)
      BY <2>5 DEF ExtendTransition
    <3>2. DropEvents(q, {"MinLock"}) \in Queues /\ DropEvents(q, {"MinLock"})["MinLock"] = NoTimers
      BY <2>3, DropType, DropsTimer
    <3>3. mPending.time + TransitionDelay \in Int
      BY <1>0, TimeAssumption
    <3>4. OneTimer(queue'["MinLock"])
      BY <3>1, <3>2, <3>3, PostsTheTimer
    <3> QED  BY <2>1, <3>1, <3>4 DEF MinRateInv, PanelFollowsPresentState, PeakStates
  <2>6. CASE KeepPresentState(q)
    BY <2>1, <2>3, <2>6, KeepsMinRate DEF KeepPresentState, MinRateKept, rateVars
  <2> QED  BY <2>2, <2>4, <2>5, <2>6 DEF q
<1> QED  BY <1>1, <1>2, <1>3, <1>4, <1>5, <1>6 DEF Present, PresentUnlocked

(* The vendor's handlers post the next task and update the panel's mode.   *)
LEMMA ScheduleKeeps ==
  ASSUME NEW q \in Queues, NEW times \in Seq(Time), NEW next \in Nat, panel \in Commands,
         handlePresentTimeout(q, times, next)
  PROVE  queue'["MinLock"] = q["MinLock"] /\ panel'.minimum = panel.minimum
<1>1. PICK r \in WithDbiUpdate(q) : ScheduleNextTask(r, times, next)
  BY DEF handlePresentTimeout
<1>2. r \in Queues /\ r["MinLock"] = q["MinLock"]
  BY <1>1, DbiOther
<1>3. queue' = r \/ \E d : queue' = PostEvent(r, "VendorPost", d)
  BY <1>1 DEF ScheduleNextTask
<1>4. queue'["MinLock"] = q["MinLock"]
  BY <1>2, <1>3, PostsOther, OtherTypes, EventTypes
<1>5. panel'.minimum = panel.minimum
  BY DEF handlePresentTimeout, WriteRefreshControl, Commands
<1> QED  BY <1>4, <1>5

LEMMA MinRateThread ==
  ASSUME TypeOK, WriteMayFail = FALSE, MinRateInv, Thread
  PROVE  MinRateInv'
<1> USE OtherTypes
<1>0. queue \in Queues /\ panel \in Commands
  BY DEF TypeOK
<1>1. CASE ThreadExit \/ WaitForEnable \/ Continue \/ WaitForEvent \/ WaitForDueTime
           \/ threadTakeFence \/ threadCloseFence
  <2>1. UNCHANGED <<rateVars, mVrrActiveConfig, mLastRefreshRate, panel, queue>>
    BY <1>1 DEF ThreadExit, WaitForEnable, Continue, WaitForEvent, WaitForDueTime,
                ThreadUnchanged, threadTakeFence, threadCloseFence
  <2> QED  BY <2>1, KeepsMinRate DEF MinRateKept
<1>2. \A t \in EventType, d \in Due : Pops(t, d) =>
        /\ PopEvent(queue, t, d) \in Queues
        /\ t # "MinLock" => PopEvent(queue, t, d)["MinLock"] = queue["MinLock"]
  BY <1>0, PopType, PopsOther DEF Pops, IsTop
<1>3. CASE OnVendorTimeoutInit
  <2>1. UNCHANGED <<rateVars, mVrrActiveConfig, mLastRefreshRate>>
    BY <1>3 DEF OnVendorTimeoutInit
  <2>2. PICK d \in Due : Pops("VendorInit", d) /\
          IF mState = "Rendering" /\ Schedule # <<>>
          THEN handlePresentTimeout(PopEvent(queue, "VendorInit", d), AddedTasks, 1)
          ELSE queue' = PopEvent(queue, "VendorInit", d) /\ UNCHANGED panel
    BY <1>3 DEF OnVendorTimeoutInit
  <2>3. queue'["MinLock"] = queue["MinLock"] /\ panel'.minimum = panel.minimum
    BY <1>0, <1>2, <2>2, ScheduleKeeps, AddedTasksType, EventTypes
  <2> QED  BY <2>1, <2>3, KeepsMinRate DEF MinRateKept
<1>4. CASE OnVendorTimeoutPost
  <2>1. UNCHANGED <<rateVars, mVrrActiveConfig, mLastRefreshRate>>
    BY <1>4 DEF OnVendorTimeoutPost
  <2>2. PICK d \in Due : Pops("VendorPost", d) /\
          \/ queue' = PopEvent(queue, "VendorPost", d) /\ UNCHANGED panel
          \/ handlePresentTimeout(PopEvent(queue, "VendorPost", d), tasks, nextTaskIndex)
    BY <1>4 DEF OnVendorTimeoutPost
  <2>3. tasks \in Seq(Time) /\ nextTaskIndex \in Nat
    BY DEF TypeOK
  <2>4. queue'["MinLock"] = queue["MinLock"] /\ panel'.minimum = panel.minimum
    BY <1>0, <1>2, <2>2, <2>3, ScheduleKeeps, EventTypes
  <2> QED  BY <2>1, <2>4, KeepsMinRate DEF MinRateKept
<1>5. CASE OnSystemTimeout
  <2>1. UNCHANGED <<rateVars, mVrrActiveConfig, mLastRefreshRate, panel>>
    BY <1>5 DEF OnSystemTimeout
  <2>2. PICK d \in Due : Pops("SystemTimeout", d) /\
          \/ queue' = PopEvent(queue, "SystemTimeout", d)
          \/ \E q \in WithDbiUpdate(PopEvent(queue, "SystemTimeout", d)) :
               queue' = PostEvent(q, "HibernateTimeout", WakeUpPeriod)
    BY <1>5 DEF OnSystemTimeout
  <2>3. queue'["MinLock"] = queue["MinLock"]
    BY <1>2, <2>2, DbiOther, PostsOther, EventTypes
  <2> QED  BY <2>1, <2>3, KeepsMinRate DEF MinRateKept
<1>6. CASE OnNotifyExpectedPresent \/ OnHibernateTimeout \/ OnUpdateDbi \/ OnCalculator
  <2>1. UNCHANGED <<rateVars, mVrrActiveConfig, panel>>
    BY <1>6 DEF OnNotifyExpectedPresent, OnHibernateTimeout, OnUpdateDbi, OnCalculator
  <2>2. UNCHANGED mLastRefreshRate \/ ~isMinimumRefreshRateActive(mMinimumRefreshRate)
    BY <1>6, ReportKeeps DEF OnNotifyExpectedPresent, OnHibernateTimeout, OnUpdateDbi, OnCalculator
  <2>3. PICK t \in EventType \ {"MinLock"}, d \in Due : Pops(t, d) /\
          \/ queue' = PopEvent(queue, t, d)
          \/ queue' = PostEvent(PopEvent(queue, t, d), "HibernateTimeout", WakeUpPeriod)
          \/ queue' = PostEvent(PopEvent(queue, t, d), "Calculator", d + MeasurePeriod)
    BY <1>6, EventTypes DEF OnNotifyExpectedPresent, OnHibernateTimeout, OnUpdateDbi, OnCalculator
  <2>4. queue'["MinLock"] = queue["MinLock"]
    BY <1>2, <2>3, PostsOther, EventTypes
  <2> QED  BY <2>1, <2>2, <2>4, KeepsMinRate DEF MinRateKept
<1>7. CASE OnMinLock
  <2>1. UNCHANGED <<mMinimumRefreshRate, mMaximumTimeout, mVrrActiveConfig>>
    BY <1>7 DEF OnMinLock
  <2>2. PICK d \in Due : /\ queue["MinLock"][d] > 0 /\ Pops("MinLock", d)
                         /\ IF presentStates \in PeakStates
                            THEN \/ StartTransition(PopEvent(queue, "MinLock", d))
                                 \/ ReturnToMinimum(PopEvent(queue, "MinLock", d))
                            ELSE UNCHANGED presentStates
    BY <1>7 DEF OnMinLock, Pops, IsTop
  <2>3. presentStates \in PeakStates
    BY <2>2 DEF MinRateInv, NoTimers
  <2>4. OneTimer(queue["MinLock"]) /\ mMaximumTimeout > 0
    BY <2>3 DEF MinRateInv
  <2> DEFINE popped == PopEvent(queue, "MinLock", d)
  <2>5. popped \in Queues /\ popped["MinLock"] = NoTimers
    BY <1>0, <2>2, <2>4, PopsTheTimer
  <2>6. StartTransition(popped) \/ ReturnToMinimum(popped)
    BY <2>2, <2>3
  <2> HIDE DEF popped
  <2>7. CASE StartTransition(popped)
    <3>1. OneTimer(queue'["MinLock"])
      BY <2>5, <2>7, PostsTheTimer, TimeAssumption DEF StartTransition
    <3>2. presentStates = "AtMaximum" /\ presentStates' = "Transition" /\ UNCHANGED <<panel, mLastRefreshRate>>
      BY <2>7 DEF StartTransition
    <3> QED  BY <2>1, <2>4, <3>1, <3>2 DEF MinRateInv, PanelFollowsPresentState, PeakStates
  <2>8. CASE ReturnToMinimum(popped)
    <3>1. /\ presentStates = "Transition" /\ presentStates' = "AtMinimum" /\ queue' = popped
          /\ WriteRefreshControl(TRUE, [panel EXCEPT !.auto = TRUE, !.minimum = mMinimumRefreshRate])
      BY <2>8 DEF ReturnToMinimum, WriteResult
    <3>2. [panel EXCEPT !.auto = TRUE, !.minimum = mMinimumRefreshRate] \in Commands
      BY <1>0 DEF Commands, TypeOK
    <3>3. panel'.minimum = mMinimumRefreshRate
      BY <1>0, <3>1, <3>2, WriteMinimum DEF Commands
    <3> QED  BY <2>1, <2>5, <3>1, <3>3 DEF MinRateInv, PanelFollowsPresentState, PeakStates
  <2> QED  BY <2>6, <2>7, <2>8
<1> QED  BY <1>1, <1>3, <1>4, <1>5, <1>6, <1>7 DEF Thread

LEMMA MinRateInvariant ==
  ASSUME WriteMayFail = FALSE, FALSE \notin EnableValue
  PROVE  Spec => []MinRateInv
<1>1. Init => MinRateInv
  BY EventTypes DEF Init, MinRateInv, PanelFollowsPresentState, EmptyQueue, PeakStates, isMinimumRefreshRateActive
<1>2. TypeOK /\ MinRateInv /\ [Next]_vars => MinRateInv'
  <2> SUFFICES ASSUME TypeOK, MinRateInv, [Next]_vars
               PROVE  MinRateInv'
    OBVIOUS
  <2>1. CASE SpuriousWakeup \/ UNCHANGED vars
    BY <2>1, KeepsMinRate DEF SpuriousWakeup, ThreadUnchanged, vars, MinRateKept
  <2>2. CASE Tick
    <3>1. UNCHANGED <<rateVars, mVrrActiveConfig, panel, mLastRefreshRate>>
          /\ queue'["MinLock"] = Shift(queue["MinLock"])
      BY <2>2, EventTypes DEF Tick
    <3>2. CASE presentStates \in PeakStates
      <4>1. OneTimer(queue'["MinLock"])
        BY <3>1, <3>2, TimerShifts DEF MinRateInv, OneTimer
      <4> QED  BY <3>1, <3>2, <4>1 DEF MinRateInv, PanelFollowsPresentState, rateVars
    <3>3. CASE presentStates \notin PeakStates
      <4>1. 0 \in Due /\ queue["MinLock"] = NoTimers
        BY <3>3, TimeAssumption DEF Due, MinRateInv
      <4>2. queue'["MinLock"] = NoTimers
        BY <3>1, <4>1, TimerShifts
      <4> QED  BY <3>1, <3>3, <4>2 DEF MinRateInv, PanelFollowsPresentState, rateVars
    <3> QED  BY <3>2, <3>3
  <2> QED  BY <2>1, <2>2, MinRateHal, MinRatePresent, MinRateThread DEF Next
<1> QED  BY <1>1, <1>2, TypeCorrect, PTL DEF Spec

(* The peak rate's timer runs exactly while the peak rate is held or the   *)
(* transition lasts, if nothing disables the controller (which drops every *)
(* event) and the writes succeed.                                          *)
THEOREM TheTimerMatchesTheState ==
  ASSUME WriteMayFail = FALSE, FALSE \notin EnableValue
  PROVE  Spec => []MinLockMatchesState
BY MinRateInvariant, TimerFacts, PTL

(* Under the same assumptions the panel has the rate of the present state: *)
(* through new configurations, power modes and frames.                     *)
THEOREM ThePanelFollowsTheState ==
  ASSUME WriteMayFail = FALSE, FALSE \notin EnableValue
  PROVE  Spec => []PanelFollowsPresentState
<1>1. MinRateInv => PanelFollowsPresentState
  BY DEF MinRateInv
<1> QED  BY <1>1, MinRateInvariant, PTL

-----------------------------------------------------------------------------
(* TimelyWakeup is inductive: an operation that adds an urgent event also  *)
(* notifies, and a sleep chosen for the earliest event stays early enough  *)
(* for all of them.                                                        *)

Urgent == {"SystemTimeout", "VendorInit", "VendorPost", "NotifyExpectedPresent"}

NoNewUrgent(q, r) == \A t \in Urgent, d \in Due : r[t][d] > 0 => q[t][d] > 0

LEMMA UrgentTypes ==
  /\ Urgent \subseteq EventType
  /\ "UpdateDbi" \notin Urgent /\ "MinLock" \notin Urgent
BY DEF Urgent, EventType, General, Vendor

LEMMA WakesNotified ==
  ASSUME NotifyAll, UNCHANGED pc
  PROVE  TimelyWakeup'
BY DEF NotifyAll, TimelyWakeup, Sleeping

LEMMA WakesAwake ==
  ASSUME pc' \notin {"SleepEmpty", "SleepTimed"}
  PROVE  TimelyWakeup'
BY DEF TimelyWakeup

LEMMA WakesKept ==
  ASSUME TimelyWakeup, UNCHANGED <<pc, deadline, mEnabled>>, woken => woken', NoNewUrgent(queue, queue')
  PROVE  TimelyWakeup'
<1>1. SUFFICES ASSUME pc \in {"SleepEmpty", "SleepTimed"}, ~woken, mEnabled,
                      NEW t \in Urgent, NEW d \in Due, queue'[t][d] > 0
               PROVE  pc = "SleepTimed" /\ (deadline <= d \/ deadline = 0)
  BY DEF TimelyWakeup, Urgent
<1>2. queue[t][d] > 0
  BY <1>1 DEF NoNewUrgent
<1> QED  BY <1>1, <1>2 DEF TimelyWakeup, Urgent

LEMMA DropsNothingNew ==
  ASSUME NEW q \in Queues, NEW types
  PROVE  NoNewUrgent(q, DropEvents(q, types))
BY UrgentTypes DEF NoNewUrgent, DropEvents, NoTimers

LEMMA PostsNothingNew ==
  ASSUME NEW q \in Queues, NEW t \in EventType, t \notin Urgent, NEW d \in Int
  PROVE  NoNewUrgent(q, PostEvent(q, t, d))
BY UrgentTypes DEF NoNewUrgent, PostEvent, Queues

LEMMA DbiNothingNew ==
  ASSUME NEW q \in Queues, NEW r \in WithDbiUpdate(q)
  PROVE  r \in Queues /\ NoNewUrgent(q, r)
<1>1. NoNewUrgent(q, PostEvent(q, "UpdateDbi", 0)) /\ NoNewUrgent(q, q)
  BY PostsNothingNew, UrgentTypes, EventTypes DEF NoNewUrgent
<1> QED  BY <1>1, DbiType DEF WithDbiUpdate

LEMMA WakesHal ==
  ASSUME TypeOK, TimelyWakeup, HalCalls
  PROVE  TimelyWakeup'
<1>0. queue \in Queues
  BY DEF TypeOK
<1>1. CASE \/ notifyExpectedPresent \/ stopThread \/ (\E b \in EnableValue : setEnable(b))
           \/ (\E m \in PowerMode : postSetPowerMode(m))
  BY <1>1, WakesNotified DEF notifyExpectedPresent, stopThread, setEnable, postSetPowerMode, threadVars
<1>2. ASSUME NEW c \in Config, setActiveVrrConfiguration(c)
      PROVE  TimelyWakeup'
  <2>1. UNCHANGED <<pc, deadline, mEnabled>>
    BY <1>2 DEF setActiveVrrConfiguration, threadVars, modeVars
  <2>2. CASE mState = "Disable"
    <3>1. queue' \in WithDbiUpdate(queue) /\ UNCHANGED woken
      BY <1>2, <2>2 DEF setActiveVrrConfiguration
    <3> QED  BY <1>0, <2>1, <3>1, DbiNothingNew, WakesKept
  <2>3. CASE mState # "Disable"
    <3>1. NotifyAll
      BY <1>2, <2>3 DEF setActiveVrrConfiguration
    <3> QED  BY <2>1, <3>1, WakesNotified
  <2> QED  BY <2>2, <2>3
<1>3. ASSUME NEW m \in PowerMode, preSetPowerMode(m)
      PROVE  TimelyWakeup'
  <2>1. UNCHANGED <<pc, deadline, mEnabled, woken>>
    BY <1>3 DEF preSetPowerMode, threadVars, modeVars
  <2>2. queue' = queue \/ queue' = DropEvents(queue, Vendor)
    BY <1>3 DEF preSetPowerMode, cancelPresentTimeoutHandlingLocked
  <2>3. NoNewUrgent(queue, queue')
    BY <1>0, <2>2, DropsNothingNew DEF NoNewUrgent
  <2> QED  BY <2>1, <2>3, WakesKept
<1>4. ASSUME NEW o, setPresentTimeoutParameters(o)
      PROVE  TimelyWakeup'
  BY <1>4, WakesKept DEF setPresentTimeoutParameters, threadVars, modeVars, NoNewUrgent
<1>5. ASSUME NEW t \in ControllerType, setPresentTimeoutController(t)
      PROVE  TimelyWakeup'
  <2>1. UNCHANGED <<pc, deadline, mEnabled, woken>>
    BY <1>5 DEF setPresentTimeoutController, threadVars, modeVars
  <2>2. queue' = queue \/ queue' = DropEvents(queue, Vendor)
    BY <1>5 DEF setPresentTimeoutController, cancelPresentTimeoutHandlingLocked
  <2>3. NoNewUrgent(queue, queue')
    BY <1>0, <2>2, DropsNothingNew DEF NoNewUrgent
  <2> QED  BY <2>1, <2>3, WakesKept
<1>6. ASSUME NEW r \in MinimumRate, NEW l \in LockTime, NEW ok \in WriteResult,
             setFixedRefreshRateRange(r, l, ok)
      PROVE  TimelyWakeup'
  <2>1. UNCHANGED <<pc, deadline, mEnabled, woken>>
    BY <1>6 DEF setFixedRefreshRateRange, threadVars, modeVars
  <2> DEFINE q == DropEvents(queue, {"MinLock"})
  <2>2. queue' = q \/ queue' = DropEvents(q, Vendor)
    BY <1>6 DEF setFixedRefreshRateRange, FixMinimumRate, UnsetMinimumRate, cancelPresentTimeoutHandlingLocked
  <2>3. q \in Queues /\ NoNewUrgent(queue, q)
    BY <1>0, DropsNothingNew, DropType
  <2> HIDE DEF q
  <2>4. NoNewUrgent(q, DropEvents(q, Vendor))
    BY <2>3, DropsNothingNew
  <2>5. NoNewUrgent(queue, queue')
    BY <2>2, <2>3, <2>4 DEF NoNewUrgent
  <2> QED  BY <2>1, <2>5, WakesKept
<1> QED  BY <1>1, <1>2, <1>3, <1>4, <1>5, <1>6 DEF HalCalls

LEMMA WakesPresent ==
  ASSUME TypeOK, TimelyWakeup, Present
  PROVE  TimelyWakeup'
<1>0. queue \in Queues /\ mPending.time \in Int /\ mMaximumTimeout \in Int /\ TransitionDelay \in Int
  BY TimeAssumption DEF TypeOK, Time
<1>1. ASSUME NEW t \in PresentOffset, setExpectedPresentTime(t)
      PROVE  TimelyWakeup'
  <2> DEFINE q == DropEvents(queue, {"SystemTimeout"})
  <2>1. queue' = DropEvents(q, Vendor) /\ UNCHANGED <<pc, deadline, mEnabled, woken>>
    BY <1>1 DEF setExpectedPresentTime, cancelPresentTimeoutHandlingLocked, threadVars, modeVars
  <2>2. q \in Queues /\ NoNewUrgent(queue, q)
    BY <1>0, DropsNothingNew, DropType
  <2> HIDE DEF q
  <2>3. NoNewUrgent(q, DropEvents(q, Vendor))
    BY <2>2, DropsNothingNew
  <2>4. NoNewUrgent(queue, queue')
    BY <2>1, <2>2, <2>3 DEF NoNewUrgent
  <2> QED  BY <2>1, <2>4, WakesKept
<1>2. CASE onPresentDisabled
  BY <1>0, <1>2, DbiNothingNew, WakesKept DEF onPresentDisabled, threadVars, modeVars
<1>3. ASSUME NEW dbi \in WithDbiUpdate(queue)
      PROVE  LeaveHibernate(dbi) \in Queues /\ NoNewUrgent(queue, LeaveHibernate(dbi))
  <2>1. dbi \in Queues /\ NoNewUrgent(queue, dbi)
    BY <1>0, DbiNothingNew
  <2>2. LeaveHibernate(dbi) \in Queues /\ NoNewUrgent(dbi, LeaveHibernate(dbi))
    BY <2>1, DropType, DropsNothingNew DEF LeaveHibernate, NoNewUrgent
  <2> QED  BY <2>1, <2>2 DEF NoNewUrgent
<1>4. CASE onPresentBegin
  BY <1>3, <1>4, WakesKept DEF onPresentBegin, threadVars, modeVars
<1>5. CASE presentTakeFence \/ presentCloseFence
  BY <1>5, WakesKept DEF presentTakeFence, presentCloseFence, threadVars, modeVars, NoNewUrgent
<1>6. CASE onPresentEnd
  BY <1>6, WakesNotified DEF onPresentEnd, threadVars
<1>7. CASE onPresentAtMinimumRate
  <2>1. UNCHANGED <<pc, deadline, mEnabled, woken>>
    BY <1>7 DEF onPresentAtMinimumRate, threadVars, modeVars
  <2>2. PICK dbi \in WithDbiUpdate(queue) :
          \/ PromoteToMaximum(LeaveHibernate(dbi)) \/ ExtendTransition(LeaveHibernate(dbi))
          \/ KeepPresentState(LeaveHibernate(dbi))
    BY <1>7 DEF onPresentAtMinimumRate
  <2> DEFINE q == LeaveHibernate(dbi)
  <2>3. q \in Queues /\ NoNewUrgent(queue, q)
    BY <1>3
  <2>4. DropEvents(q, {"MinLock"}) \in Queues /\ NoNewUrgent(q, DropEvents(q, {"MinLock"}))
    BY <2>3, DropType, DropsNothingNew
  <2>5. \/ queue' = q \/ queue' = PostEvent(q, "MinLock", mPending.time + mMaximumTimeout)
        \/ queue' = PostEvent(DropEvents(q, {"MinLock"}), "MinLock", mPending.time + TransitionDelay)
    BY <2>2 DEF PromoteToMaximum, PromoteFrom, ExtendTransition, KeepPresentState
  <2> HIDE DEF q
  <2>6. NoNewUrgent(q, queue')
    <3>1. CASE queue' = q
      BY <3>1 DEF NoNewUrgent
    <3>2. CASE queue' = PostEvent(q, "MinLock", mPending.time + mMaximumTimeout)
      BY <1>0, <2>3, <3>2, PostsNothingNew, UrgentTypes, EventTypes
    <3>3. CASE queue' = PostEvent(DropEvents(q, {"MinLock"}), "MinLock", mPending.time + TransitionDelay)
      <4>1. NoNewUrgent(DropEvents(q, {"MinLock"}), queue')
        BY <1>0, <2>4, <3>3, PostsNothingNew, UrgentTypes, EventTypes
      <4> QED  BY <2>4, <4>1 DEF NoNewUrgent
    <3> QED  BY <2>5, <3>1, <3>2, <3>3
  <2>7. NoNewUrgent(queue, queue')
    BY <2>3, <2>6 DEF NoNewUrgent
  <2> QED  BY <2>1, <2>7, WakesKept
<1> QED  BY <1>1, <1>2, <1>4, <1>5, <1>6, <1>7 DEF Present, PresentUnlocked

LEMMA WakesThread ==
  ASSUME TypeOK, Thread
  PROVE  TimelyWakeup'
<1>1. CASE ThreadExit \/ Continue \/ threadTakeFence \/ threadCloseFence
  BY <1>1, WakesAwake DEF ThreadExit, Continue, threadTakeFence, threadCloseFence, GoTo
<1>2. CASE WaitForEnable
  BY <1>2, WakesAwake DEF WaitForEnable, Sleep
<1>3. CASE WaitForEvent
  <2>1. \A t \in EventType, d \in Due : queue'[t][d] = 0
    BY <1>3 DEF WaitForEvent, ThreadUnchanged, QueueIsEmpty
  <2>2. \A t \in Urgent, d \in Due : ~(queue'[t][d] > 0)
    BY <2>1, UrgentTypes
  <2> QED  BY <2>2 DEF TimelyWakeup, Urgent
<1>4. CASE WaitForDueTime
  <2>1. PICK t \in EventType, d \in Due : IsTop(queue, t, d) /\ Sleep("SleepTimed", d)
    BY <1>4 DEF WaitForDueTime
  <2>2. UNCHANGED queue
    BY <1>4 DEF WaitForDueTime, ThreadUnchanged
  <2>3. \A u \in Urgent, e \in Due : queue'[u][e] > 0 => d <= e
    BY <2>1, <2>2, UrgentTypes DEF IsTop
  <2>4. pc' = "SleepTimed" /\ deadline' = d
    BY <2>1 DEF Sleep
  <2> QED  BY <2>3, <2>4 DEF TimelyWakeup, Urgent
<1>5. CASE \/ OnVendorTimeoutInit \/ OnVendorTimeoutPost \/ OnSystemTimeout \/ OnNotifyExpectedPresent
           \/ OnHibernateTimeout \/ OnUpdateDbi \/ OnCalculator \/ OnMinLock
  <2>1. pc' \in {"Top", "TakeFence"}
    BY <1>5 DEF OnVendorTimeoutInit, OnVendorTimeoutPost, OnSystemTimeout, OnNotifyExpectedPresent,
                OnHibernateTimeout, OnUpdateDbi, OnCalculator, OnMinLock, GoTo
  <2> QED  BY <2>1, WakesAwake
<1> QED  BY <1>1, <1>2, <1>3, <1>4, <1>5 DEF Thread

LEMMA WakesTick ==
  ASSUME TypeOK, TimelyWakeup, Tick
  PROVE  TimelyWakeup'
<1>1. SUFFICES ASSUME pc \in {"SleepEmpty", "SleepTimed"}, ~woken, mEnabled,
                      NEW t \in Urgent, NEW d \in Due, queue'[t][d] > 0
               PROVE  pc = "SleepTimed" /\ (deadline' <= d \/ deadline' = 0)
  BY DEF TimelyWakeup, Urgent, Tick, modeVars
<1>2. Horizon \in Nat /\ MaxLag \in Nat /\ 0 < MaxLag /\ MaxLag <= Horizon /\ d \in Int /\ deadline \in Nat
  BY TimeAssumption DEF TypeOK, Due
<1>3. t \in EventType /\ \A e \in Due : queue[t][e] \in Nat
  BY UrgentTypes DEF TypeOK, Queues
<1>4. queue'[t][d] = IF d = -MaxLag THEN queue[t][d] + queue[t][d + 1]
                     ELSE IF d = Horizon THEN 0 ELSE queue[t][d + 1]
  BY <1>3 DEF Tick, Shift
<1>5. deadline' = IF deadline > 0 THEN deadline - 1 ELSE 0
  BY DEF Tick
<1>6. \A e \in Due : queue[t][e] > 0 => pc = "SleepTimed" /\ (deadline <= e \/ deadline = 0)
  BY <1>1 DEF TimelyWakeup, Urgent
<1>7. CASE d = -MaxLag
  <2>1. d + 1 \in Due
    BY <1>2, <1>7 DEF Due
  <2>2. queue[t][d] > 0 \/ queue[t][d + 1] > 0
    BY <1>1, <1>3, <1>4, <1>7, <2>1
  <2> QED  BY <1>2, <1>5, <1>6, <1>7, <2>1, <2>2
<1>8. CASE d # -MaxLag
  <2>1. d # Horizon /\ queue[t][d + 1] > 0
    BY <1>1, <1>4, <1>8
  <2>2. d + 1 \in Due
    BY <1>2, <2>1 DEF Due
  <2> QED  BY <1>2, <1>5, <1>6, <2>1, <2>2
<1> QED  BY <1>7, <1>8

(* No wake-up is lost: a thread that sleeps unnotified wakes by itself     *)
(* before any rendering timeout, vendor task or notification is overdue,   *)
(* whatever the operations and frames between.                             *)
THEOREM NoWakeupIsLost == Spec => []TimelyWakeup
<1>1. Init => TimelyWakeup
  BY DEF Init, TimelyWakeup
<1>2. TypeOK /\ TimelyWakeup /\ [Next]_vars => TimelyWakeup'
  <2> SUFFICES ASSUME TypeOK, TimelyWakeup, [Next]_vars
               PROVE  TimelyWakeup'
    OBVIOUS
  <2>1. CASE SpuriousWakeup
    BY <2>1, WakesKept DEF SpuriousWakeup, ThreadUnchanged, threadVars, modeVars, NoNewUrgent
  <2>2. CASE UNCHANGED vars
    BY <2>2, WakesKept DEF vars, threadVars, modeVars, NoNewUrgent
  <2> QED  BY <2>1, <2>2, WakesHal, WakesPresent, WakesThread, WakesTick DEF Next
<1> QED  BY <1>1, <1>2, TypeCorrect, PTL DEF Spec
=============================================================================
