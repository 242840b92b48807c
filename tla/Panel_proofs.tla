---------------------------- MODULE Panel_proofs ----------------------------
(***************************************************************************)
(* Theorems about what is set on a panel: its configuration, for every set *)
(* of configurations, and its brightness, for every set of values.  A      *)
(* change of the configuration stays tracked and its vsync awaited; HBM    *)
(* dimming is always going to end, and the panel follows the brightness    *)
(* requests.  The two components share no variable.                        *)
(***************************************************************************)
EXTENDS ConfigChange, BrightnessController, TLAPS

USE DEF powerVars, requestVars, configVars, modeVars, callbackVars, workerVars, displayVars

-----------------------------------------------------------------------------
(* The types of all variables are kept by every step.                      *)
LEMMA ModeState ==
  ASSUME NEW m \in Mode \union {None}, NEW f \in BOOLEAN
  PROVE  [mode |-> m, force |-> f] \in [mode : Mode \union {None}, force : BOOLEAN]
  OBVIOUS

LEMMA TypeInit == Init => TypeOK
  <1> SUFFICES ASSUME Init PROVE TypeOK
    OBVIOUS
  <1>1. mActiveModeState \in [mode : Mode \union {None}, force : BOOLEAN]
    BY ModeState DEF Init, Mode
  <1>2. mSkipFrame \in BOOLEAN /\ mVsyncEnabled \in BOOLEAN /\ mEnabled \in BOOLEAN
        /\ woken \in BOOLEAN
    BY Zenon DEF Init
  <1> QED BY <1>1, <1>2 DEF Init, TypeOK, Mode

LEMMA ControlTypes ==
  ASSUME NEW enabled \in BOOLEAN, VSyncControl(enabled)
  PROVE  mEnabled' \in BOOLEAN /\ woken' \in BOOLEAN
  BY Zenon DEF VSyncControl

LEMMA CommitTypes ==
  ASSUME TypeOK, NEW result, NEW mode \in Config \union {None}, Commit(result, mode)
  PROVE  /\ mActiveModeState' \in [mode : Mode \union {None}, force : BOOLEAN]
         /\ mDesiredModeState' \in Config \union {None}
         /\ mVsyncEnabled' \in BOOLEAN /\ mDesiredVsyncPeriod' \in Mode \union {None}
         /\ mModeSetFence' \in {"None", "Pending", "Over"}
         /\ mEnabled' \in BOOLEAN /\ woken' \in BOOLEAN
  <1>1. CASE result = "Delivered" /\ mode # None
    <2> DEFINE force == mActiveModeState.force \/ mActiveModeState.mode # mode
    <2>1. mActiveModeState' = [mode |-> mode, force |-> force]
      BY <1>1 DEF Commit
    <2>2. force \in BOOLEAN
      BY Zenon
    <2>3. mActiveModeState' \in [mode : Mode \union {None}, force : BOOLEAN]
      <3> HIDE DEF force
      <3> QED BY <2>1, <2>2, ModeState DEF Mode
    <2> QED BY <1>1, <2>3, ControlTypes DEF Commit, TypeOK, Mode
  <1>2. CASE ~(result = "Delivered" /\ mode # None)
    BY <1>2 DEF Commit, TypeOK
  <1> QED BY <1>1, <1>2

LEMMA ConfirmTypes ==
  ASSUME TypeOK, ConfirmSameMode
  PROVE  /\ mVsyncEnabled' \in BOOLEAN /\ mDesiredVsyncPeriod' \in Mode \union {None}
         /\ mModeSetFence' \in {"None", "Pending", "Over"}
         /\ mEnabled' \in BOOLEAN /\ woken' \in BOOLEAN
  BY ControlTypes DEF TypeOK, ConfirmSameMode

LEMMA DisplayTypes == TypeOK /\ Display => TypeOK'
  <1> SUFFICES ASSUME TypeOK, Display PROVE TypeOK'
    OBVIOUS
  <1>1. ASSUME NEW c \in Config, NEW tested \in BOOLEAN, setActiveConfigWithConstraints(c, tested)
        PROVE  TypeOK'
    <2>1. CASE tested /\ IsSameMode(c)
      BY <1>1, <2>1, ConfirmTypes DEF setActiveConfigWithConstraints, TypeOK
    <2>2. CASE ~(tested /\ IsSameMode(c))
      BY <1>1, <2>2 DEF setActiveConfigWithConstraints, TypeOK
    <2> QED BY <2>1, <2>2
  <1>2. ASSUME NEW c \in Config, setActiveConfigInternal(c)
        PROVE  /\ mActiveModeState' \in [mode : Mode \union {None}, force : BOOLEAN]
               /\ mActiveConfig' \in Config
               /\ mVsyncPeriod' \in Mode \union {None}
               /\ mConfigRequestState' \in {"Done", "Pending", "Requested"}
    BY <1>2 DEF setActiveConfigInternal, setActiveDrmMode, resetConfigRequestStateLocked,
                TypeOK, Mode
  <1>3. ASSUME NEW c \in Config, setActiveConfig(c) PROVE TypeOK'
    BY <1>2, <1>3 DEF setActiveConfig, TypeOK
  <1>4. CASE setPowerOn
    <2>1. CurrentConfig \in Config
      BY DEF CurrentConfig, TypeOK
    <2> QED BY <1>2, <1>4, <2>1 DEF setPowerOn, TypeOK
  <1>5. CASE setPowerOff
    BY <1>5 DEF setPowerOff, TypeOK
  <1>6. CASE setPowerDoze
    BY <1>6 DEF setPowerDoze, setActiveDrmMode, TypeOK, Mode
  <1>7. ASSUME NEW enabled \in BOOLEAN, setVsyncEnabled(enabled) PROVE TypeOK'
    <2>1. mEnabled' \in BOOLEAN /\ woken' \in BOOLEAN
      BY <1>7, ControlTypes DEF setVsyncEnabled, TypeOK
    <2> QED BY <1>7, <2>1 DEF setVsyncEnabled, TypeOK
  <1>8. ASSUME NEW result \in FrameResult, presentDisplay(result) PROVE TypeOK'
    <2>1. mDesiredModeState \in Config \union {None} /\ mDesiredConfig \in Config \union {None}
      BY DEF TypeOK
    <2>2. CASE PresentWithoutRequest(result)
      BY <1>8, <2>1, <2>2, CommitTypes
         DEF presentDisplay, PresentWithoutRequest, FollowRequest, TypeOK
    <2>3. CASE DeferRequest(result)
      BY <1>8, <2>1, <2>3, CommitTypes DEF presentDisplay, DeferRequest, FollowRequest, TypeOK
    <2>4. CASE ConfirmRequest(result)
      BY <1>8, <2>4, ConfirmTypes DEF presentDisplay, ConfirmRequest, FollowRequest, TypeOK
    <2>5. CASE RequestMode(result)
      BY <1>8, <2>1, <2>5, CommitTypes DEF presentDisplay, RequestMode, FollowRequest, TypeOK
    <2> QED BY <1>8, <2>2, <2>3, <2>4, <2>5 DEF presentDisplay
  <1> QED BY <1>1, <1>3, <1>4, <1>5, <1>6, <1>7, <1>8 DEF Display

LEMMA ThreadTypes == TypeOK /\ (Thread \/ SpuriousWakeUp \/ FenceSignals) => TypeOK'
  <1> SUFFICES ASSUME TypeOK, Thread \/ SpuriousWakeUp \/ FenceSignals PROVE TypeOK'
    OBVIOUS
  <1>1. CASE Routine
    BY <1>1 DEF Routine, TypeOK
  <1>2. CASE WakeUp
    <2>1. woken' \in BOOLEAN
      BY <1>2, Zenon DEF WakeUp
    <2> QED BY <1>2, <2>1 DEF WakeUp, TypeOK
  <1>3. CASE WaitVBlank
    BY <1>3 DEF WaitVBlank, TypeOK
  <1>4. CASE CheckEnabled
    BY <1>4 DEF CheckEnabled, TypeOK
  <1>5. ASSUME NEW match \in BOOLEAN, Callback(match) PROVE TypeOK'
    <2>1. CASE configApplied(match)
      <3>1. mEnabled' \in BOOLEAN /\ woken' \in BOOLEAN
        BY <1>5, <2>1, ControlTypes DEF Callback, TypeOK
      <3>2. mVsyncPeriod' \in Mode \union {None}
            /\ mConfigRequestState' \in {"Done", "Pending", "Requested"}
        BY <1>5, <2>1 DEF Callback, resetConfigRequestStateLocked, TypeOK, Mode
      <3> QED BY <1>5, <2>1, <3>1, <3>2 DEF Callback, TypeOK
    <2>2. CASE ~configApplied(match)
      BY <1>5, <2>2 DEF Callback, TypeOK
    <2> QED BY <2>1, <2>2
  <1>6. CASE SpuriousWakeUp
    BY <1>6 DEF SpuriousWakeUp, TypeOK
  <1>7. CASE FenceSignals
    BY <1>7 DEF FenceSignals, TypeOK
  <1> QED BY <1>1, <1>2, <1>3, <1>4, <1>5, <1>6, <1>7 DEF Thread

LEMMA TypeNext == TypeOK /\ [Next]_vars => TypeOK'
  <1>1. TypeOK /\ UNCHANGED vars => TypeOK'
    BY DEF vars, TypeOK
  <1> QED BY <1>1, DisplayTypes, ThreadTypes DEF Next

(* Every variable of the configuration change keeps its type.              *)
THEOREM TypeCorrect == Spec => []TypeOK
  <1> QED BY TypeInit, TypeNext, PTL DEF Spec

-----------------------------------------------------------------------------
(* The worker is enabled exactly while vsync is wanted: every step that    *)
(* changes one side changes the other.                                     *)
LEMMA CommitRunsVsync ==
  ASSUME TypeOK, VsyncRunsWhenWanted, NEW result, NEW mode \in Config \union {None},
         Commit(result, mode)
  PROVE  VsyncRunsWhenWanted'
  BY DEF Commit, VSyncControl, VsyncRunsWhenWanted, TypeOK

LEMMA ConfirmRunsVsync ==
  ASSUME ConfirmSameMode, mActiveModeState.mode # None
  PROVE  VsyncRunsWhenWanted'
  BY DEF ConfirmSameMode, VSyncControl, VsyncRunsWhenWanted

LEMMA VsyncNext == TypeOK /\ VsyncRunsWhenWanted /\ [Next]_vars => VsyncRunsWhenWanted'
  <1> SUFFICES ASSUME TypeOK, VsyncRunsWhenWanted, [Next]_vars PROVE VsyncRunsWhenWanted'
    OBVIOUS
  <1>1. ASSUME UNCHANGED <<callbackVars, workerVars>> PROVE VsyncRunsWhenWanted'
    BY <1>1 DEF VsyncRunsWhenWanted
  <1>2. ASSUME NEW c \in Config, NEW tested \in BOOLEAN, setActiveConfigWithConstraints(c, tested)
        PROVE  VsyncRunsWhenWanted'
    <2>1. CASE tested /\ IsSameMode(c)
      BY <1>2, <2>1, ConfirmRunsVsync, ConfigAssumption
         DEF setActiveConfigWithConstraints, IsSameMode
    <2>2. CASE ~(tested /\ IsSameMode(c))
      BY <1>1, <1>2, <2>2 DEF setActiveConfigWithConstraints
    <2> QED BY <2>1, <2>2
  <1>3. ASSUME NEW c \in Config, setActiveConfig(c) PROVE VsyncRunsWhenWanted'
    BY <1>1, <1>3 DEF setActiveConfig
  <1>4. CASE setPowerOn \/ setPowerOff \/ setPowerDoze
    BY <1>1, <1>4 DEF setPowerOn, setPowerOff, setPowerDoze
  <1>5. ASSUME NEW enabled \in BOOLEAN, setVsyncEnabled(enabled) PROVE VsyncRunsWhenWanted'
    BY <1>5 DEF setVsyncEnabled, VSyncControl, VsyncRunsWhenWanted, TypeOK
  <1>6. ASSUME NEW result \in FrameResult, presentDisplay(result) PROVE VsyncRunsWhenWanted'
    <2>1. mDesiredModeState \in Config \union {None} /\ mDesiredConfig \in Config \union {None}
      BY DEF TypeOK
    <2>2. CASE ConfirmRequest(result)
      BY <2>2, ConfirmRunsVsync, ConfigAssumption DEF ConfirmRequest, IsSameMode, TypeOK
    <2> QED BY <1>6, <2>1, <2>2, CommitRunsVsync
            DEF presentDisplay, PresentWithoutRequest, DeferRequest, RequestMode
  <1>7. CASE Routine \/ WaitVBlank \/ CheckEnabled \/ SpuriousWakeUp
    BY <1>1, <1>7 DEF Routine, WaitVBlank, CheckEnabled, SpuriousWakeUp
  <1>8. CASE WakeUp
    BY <1>8 DEF WakeUp, VsyncRunsWhenWanted
  <1>9. ASSUME NEW match \in BOOLEAN, Callback(match) PROVE VsyncRunsWhenWanted'
    <2>1. CASE configApplied(match)
      BY <1>9, <2>1 DEF Callback, VSyncControl, VsyncRunsWhenWanted, TypeOK
    <2>2. CASE ~configApplied(match)
      BY <1>9, <2>2 DEF Callback, VsyncRunsWhenWanted
    <2> QED BY <2>1, <2>2
  <1>10. CASE FenceSignals
    BY <1>10 DEF FenceSignals, VsyncRunsWhenWanted
  <1>11. CASE UNCHANGED vars
    BY <1>1, <1>11 DEF vars
  <1> QED BY <1>2, <1>3, <1>4, <1>5, <1>6, <1>7, <1>8, <1>9, <1>10, <1>11
          DEF Next, Display, Thread

(* The vsync worker is neither stopped while the client or a change of the *)
(* configuration waits for it, nor left running for nobody.                *)
THEOREM VsyncIsRunWhenWanted == Spec => []VsyncRunsWhenWanted
  <1>1. Init => VsyncRunsWhenWanted
    BY DEF Init, VsyncRunsWhenWanted
  <1> QED BY <1>1, TypeCorrect, VsyncNext, PTL DEF Spec

-----------------------------------------------------------------------------
(* A request that was handed over stays tied to the mode it asks for.      *)
LEMMA CommitTracks ==
  ASSUME TypeOK, NEW result, Commit(result, mDesiredConfig), UNCHANGED mDesiredConfig
  PROVE  RequestIsTracked'
  <1>1. mDesiredConfig # None
    BY ConfigAssumption DEF TypeOK
  <1>2. CASE result = "Delivered"
    BY <1>1, <1>2 DEF Commit, RequestIsTracked, needsModeSet
  <1>3. CASE result # "Delivered"
    BY <1>1, <1>3 DEF Commit, RequestIsTracked, needsModeSet
  <1> QED BY <1>2, <1>3

LEMMA TrackedByDisplay == TypeOK /\ RequestIsTracked /\ Display => RequestIsTracked'
  <1> SUFFICES ASSUME TypeOK, RequestIsTracked, Display PROVE RequestIsTracked'
    OBVIOUS
  <1> USE DEF RequestIsTracked
  <1>1. ASSUME NEW c \in Config, NEW tested \in BOOLEAN, setActiveConfigWithConstraints(c, tested)
        PROVE  RequestIsTracked'
    BY <1>1 DEF setActiveConfigWithConstraints
  <1>2. ASSUME NEW c \in Config, setActiveConfig(c) PROVE RequestIsTracked'
    BY <1>2 DEF setActiveConfig, setActiveConfigInternal, resetConfigRequestStateLocked
  <1>3. CASE setPowerOn
    BY <1>3 DEF setPowerOn, setActiveConfigInternal, resetConfigRequestStateLocked
  <1>4. CASE setPowerOff
    BY <1>4 DEF setPowerOff
  <1>5. CASE setPowerDoze
    BY <1>5 DEF setPowerDoze, setActiveDrmMode, needsModeSet
  <1>6. ASSUME NEW enabled \in BOOLEAN, setVsyncEnabled(enabled) PROVE RequestIsTracked'
    BY <1>6 DEF setVsyncEnabled, needsModeSet
  <1>7. ASSUME NEW result \in FrameResult, presentDisplay(result) PROVE RequestIsTracked'
    <2> UNCHANGED <<mPowerModeState, mDesiredConfig>>
      BY <1>7 DEF presentDisplay
    <2>1. CASE PresentWithoutRequest(result)
      <3>1. CASE mConfigRequestState = "Requested" /\ mPowerModeState = "On" /\ needsModeSet
        BY <2>1, <3>1, CommitTracks DEF PresentWithoutRequest
      <3>2. CASE mConfigRequestState = "Requested" /\ mPowerModeState = "On" /\ ~needsModeSet
        BY <2>1, <3>2 DEF PresentWithoutRequest, Commit, needsModeSet
      <3>3. CASE ~(mConfigRequestState = "Requested" /\ mPowerModeState = "On")
        BY <2>1, <3>3 DEF PresentWithoutRequest
      <3> QED BY <3>1, <3>2, <3>3
    <2>2. CASE DeferRequest(result)
      BY <2>2 DEF DeferRequest
    <2>3. CASE ConfirmRequest(result)
      <3>1. mDesiredConfig # None
        BY ConfigAssumption DEF TypeOK
      <3> QED BY <2>3, <3>1 DEF ConfirmRequest, ConfirmSameMode, IsSameMode, needsModeSet
    <2>4. CASE RequestMode(result)
      BY <2>4, CommitTracks DEF RequestMode
    <2> QED BY <1>7, <2>1, <2>2, <2>3, <2>4 DEF presentDisplay
  <1> QED BY <1>1, <1>2, <1>3, <1>4, <1>5, <1>6, <1>7 DEF Display

LEMMA TrackedByThread ==
  TypeOK /\ RequestIsTracked /\ (Thread \/ SpuriousWakeUp \/ FenceSignals) => RequestIsTracked'
  <1> SUFFICES ASSUME TypeOK, RequestIsTracked, Thread \/ SpuriousWakeUp \/ FenceSignals
               PROVE  RequestIsTracked'
    OBVIOUS
  <1> USE DEF RequestIsTracked, needsModeSet
  <1>1. ASSUME UNCHANGED displayVars PROVE RequestIsTracked'
    BY <1>1
  <1>2. CASE Routine \/ WakeUp \/ WaitVBlank \/ CheckEnabled \/ SpuriousWakeUp
    BY <1>1, <1>2 DEF Routine, WakeUp, WaitVBlank, CheckEnabled, SpuriousWakeUp
  <1>3. ASSUME NEW match \in BOOLEAN, Callback(match) PROVE RequestIsTracked'
    <2>1. CASE configApplied(match)
      BY <1>3, <2>1 DEF Callback, resetConfigRequestStateLocked
    <2>2. CASE ~configApplied(match)
      BY <1>3, <2>2 DEF Callback
    <2> QED BY <2>1, <2>2
  <1>4. CASE FenceSignals
    BY <1>4 DEF FenceSignals
  <1> QED BY <1>2, <1>3, <1>4 DEF Thread

(* A request that was handed over while the display is on is bound to be   *)
(* committed or to be confirmed, with the mode it asks for.                *)
THEOREM RequestStaysTracked == Spec => []RequestIsTracked
  <1>1. Init => RequestIsTracked
    BY DEF Init, RequestIsTracked
  <1>2. TypeOK /\ RequestIsTracked /\ [Next]_vars => RequestIsTracked'
    <2>1. RequestIsTracked /\ UNCHANGED vars => RequestIsTracked'
      BY DEF RequestIsTracked, needsModeSet, vars
    <2> QED BY <2>1, TrackedByDisplay, TrackedByThread DEF Next
  <1> QED BY <1>1, <1>2, TypeCorrect, PTL DEF Spec

-----------------------------------------------------------------------------
(* A thread that waits while vsync is enabled has been signalled: the      *)
(* worker tests mEnabled under the lock before it waits, and every         *)
(* VSyncControl that finds it waiting wakes it.                            *)
LEMMA ControlSignals ==
  ASSUME NEW enabled, VSyncControl(enabled), pc' = pc
  PROVE  NoLostSignal'
  BY Zenon DEF VSyncControl, NoLostSignal

LEMMA SignalNext == TypeOK /\ NoLostSignal /\ [Next]_vars => NoLostSignal'
  <1> SUFFICES ASSUME TypeOK, NoLostSignal, [Next]_vars PROVE NoLostSignal'
    OBVIOUS
  <1>1. ASSUME UNCHANGED <<workerVars, pc>> PROVE NoLostSignal'
    BY <1>1 DEF NoLostSignal
  <1>2. ASSUME NEW c \in Config, NEW tested \in BOOLEAN, setActiveConfigWithConstraints(c, tested)
        PROVE  NoLostSignal'
    BY <1>1, <1>2, ControlSignals DEF setActiveConfigWithConstraints, ConfirmSameMode
  <1>3. ASSUME NEW c \in Config, setActiveConfig(c) PROVE NoLostSignal'
    BY <1>1, <1>3 DEF setActiveConfig
  <1>4. CASE setPowerOn \/ setPowerOff \/ setPowerDoze
    BY <1>1, <1>4 DEF setPowerOn, setPowerOff, setPowerDoze
  <1>5. ASSUME NEW enabled \in BOOLEAN, setVsyncEnabled(enabled) PROVE NoLostSignal'
    BY <1>1, <1>5, ControlSignals DEF setVsyncEnabled
  <1>6. ASSUME NEW result \in FrameResult, presentDisplay(result) PROVE NoLostSignal'
    <2>1. pc' = pc
      BY <1>6 DEF presentDisplay
    <2>2. ASSUME NEW mode, Commit(result, mode) PROVE NoLostSignal'
      BY <1>1, <2>1, <2>2, ControlSignals DEF Commit
    <2> QED BY <1>6, <2>1, <2>2, ControlSignals
            DEF presentDisplay, PresentWithoutRequest, DeferRequest, RequestMode, ConfirmRequest,
                ConfirmSameMode
  <1>7. CASE Routine
    BY <1>7 DEF Routine, NoLostSignal
  <1>8. CASE WakeUp \/ WaitVBlank \/ CheckEnabled \/ SpuriousWakeUp
    BY <1>8 DEF WakeUp, WaitVBlank, CheckEnabled, SpuriousWakeUp, NoLostSignal
  <1>9. ASSUME NEW match \in BOOLEAN, Callback(match) PROVE NoLostSignal'
    BY <1>9 DEF Callback, NoLostSignal
  <1>10. CASE FenceSignals
    BY <1>1, <1>10 DEF FenceSignals
  <1>11. CASE UNCHANGED vars
    BY <1>1, <1>11 DEF vars
  <1> QED BY <1>2, <1>3, <1>4, <1>5, <1>6, <1>7, <1>8, <1>9, <1>10, <1>11
          DEF Next, Display, Thread

(* The vsync worker never sleeps through an enabled vsync.                 *)
THEOREM SignalIsNotLost == Spec => []NoLostSignal
  <1>1. Init => NoLostSignal
    BY DEF Init, NoLostSignal
  <1> QED BY <1>1, TypeCorrect, SignalNext, PTL DEF Spec

-----------------------------------------------------------------------------
(* The brightness controller.                                              *)
USE DEF brightnessVars, callers

HbmModes == {"OFF", "ON_IRC_ON", "ON_IRC_OFF"}
Ctrl(T) == [v : T, dirty : BOOLEAN]

States ==
  [enhance : BOOLEAN, lhbmReq : BOOLEAN, req : Brightness \union {Off}, reqDirty : BOOLEAN,
   instant : BOOLEAN, sdr : BOOLEAN, prevSdr : BOOLEAN, dim : BOOLEAN,
   level : Ctrl(Nat), ghbm : Ctrl(HbmModes), lhbm : Ctrl(BOOLEAN),
   hbmDimming : BOOLEAN, adj : BOOLEAN]

LEMMA StoreFacts ==
  ASSUME NEW T, NEW c \in Ctrl(T), NEW x \in T
  PROVE  /\ Store(c, x) \in Ctrl(T) /\ Clean(x) \in Ctrl(T)
         /\ Store(c, x).v = x
         /\ c.dirty => Store(c, x).dirty
         /\ ~Store(c, x).dirty => Store(c, x) = c
BY DEF Store, Clean, Ctrl

LEMMA LevelFacts ==
  ASSUME NEW s \in States, NEW b \in Brightness \union {Off}
  PROVE  /\ LevelOf(s, b) \in Nat
         /\ LevelOf(s, b) = 0 => b = Off
<1>1. b = Off \/ b \in Nat \ {0}
  BY BrightnessAssumption
<1> QED  BY <1>1 DEF LevelOf, Off

LEMMA WantedFacts ==
  ASSUME NEW s \in States
  PROVE  /\ Wanted(s) \in Brightness \union {Off} /\ WantedHbm(s) \in HbmModes
         /\ StartsDimming(s) \in BOOLEAN
BY BrightnessAssumption DEF States, Wanted, WantedHbm, HbmModes, StartsDimming

(* What updateStates stores, and what it leaves alone.                     *)
LEMMA UpdateFacts ==
  ASSUME NEW s \in States
  PROVE  LET u == UpdateStates(s) IN
         /\ u.level = Store(s.level, LevelOf(s, Wanted(s)))
         /\ u.lhbm = Store(s.lhbm, s.lhbmReq) /\ u.ghbm = Store(s.ghbm, WantedHbm(s))
         /\ u.hbmDimming = (s.hbmDimming \/ StartsDimming(s))
         /\ u.req = s.req /\ u.instant = s.instant /\ u.enhance = s.enhance /\ u.dim = s.dim
         /\ u.lhbmReq = s.lhbmReq /\ u.adj = s.adj /\ u.sdr = s.sdr /\ u.prevSdr = s.prevSdr
         /\ u.reqDirty = FALSE
BY DEF UpdateStates, States

LEMMA UpdateType ==
  ASSUME NEW s \in States
  PROVE  UpdateStates(s) \in States
<1>1. /\ Store(s.level, LevelOf(s, Wanted(s))) \in Ctrl(Nat)
      /\ Store(s.lhbm, s.lhbmReq) \in Ctrl(BOOLEAN)
      /\ Store(s.ghbm, WantedHbm(s)) \in Ctrl(HbmModes)
  <2>1. s.level \in Ctrl(Nat) /\ s.lhbm \in Ctrl(BOOLEAN) /\ s.ghbm \in Ctrl(HbmModes) /\ s.lhbmReq \in BOOLEAN
    BY DEF States
  <2> QED  BY <2>1, StoreFacts, WantedFacts, LevelFacts
<1> DEFINE d == s.hbmDimming \/ StartsDimming(s)
           u1 == [s EXCEPT !.level = Store(@, LevelOf(s, Wanted(s)))]
           u2 == [u1 EXCEPT !.lhbm = Store(@, s.lhbmReq)]
           u3 == [u2 EXCEPT !.ghbm = Store(@, WantedHbm(s))]
           u4 == [u3 EXCEPT !.hbmDimming = d]
           u5 == [u4 EXCEPT !.reqDirty = FALSE]
<1>2. u1 \in States /\ u1.lhbm = s.lhbm /\ u1.ghbm = s.ghbm /\ u1.hbmDimming = s.hbmDimming
  BY <1>1 DEF States
<1> HIDE DEF u1
<1>3. u2 \in States /\ u2.ghbm = s.ghbm /\ u2.hbmDimming = s.hbmDimming
  BY <1>1, <1>2 DEF States
<1> HIDE DEF u2
<1>4. u3 \in States /\ u3.hbmDimming = s.hbmDimming
  BY <1>1, <1>3 DEF States
<1> HIDE DEF u3
<1>5. d \in BOOLEAN
  OBVIOUS
<1> HIDE DEF d
<1>6. u4 \in States
  BY <1>4, <1>5 DEF States
<1> HIDE DEF u4
<1>7. u5 \in States
  BY <1>6 DEF States
<1>8. UpdateStates(s) = u5
  BY <1>3, <1>4 DEF UpdateStates, d, u1, u2, u3, u4, States
<1> QED  BY <1>7, <1>8

WriteType == [pc : {"idle", "poll", "write", "record"}, flush : BOOLEAN, level : Nat]
PollType ==
  [ghbm : HbmModes \union {"none"}, lhbm : {"none", "on", "off"}, level : Nat \union {NoLevel}]
CommitType ==
  [inFlight : BOOLEAN, level : Nat \union {NoLevel}, adj : BOOLEAN,
   ghbm : HbmModes \union {"none"}, lhbm : {"none", "on", "off"}]
PanelType == [level : Nat, adj : BOOLEAN, ghbm : HbmModes, lhbm : BOOLEAN]

TypeInv ==
  /\ bc \in States /\ poll \in PollType
  /\ setter \in [Writers -> WriteType]
  /\ power \in {"ON", "DOZE", "OFF"}
  /\ clearing \in {"no", "clear", "cleared", "off", "reset", "done"}
  /\ commit \in CommitType /\ panel \in PanelType

LEMMA PollForType ==
  ASSUME NEW s \in States, poll \in PollType
  PROVE  PollFor(s) \in PollType /\ PollFor(s).level = poll.level
<1>1. /\ (IF s.ghbm.dirty THEN s.ghbm.v ELSE poll.ghbm) \in HbmModes \union {"none"}
      /\ (IF ~s.lhbm.dirty THEN poll.lhbm ELSE IF s.lhbm.v THEN "on" ELSE "off") \in {"none", "on", "off"}
  <2>1. s.ghbm \in Ctrl(HbmModes)
    BY DEF States
  <2> QED  BY <2>1 DEF Ctrl, PollType
<1>2. PollFor(s) = [poll EXCEPT !.ghbm = IF s.ghbm.dirty THEN s.ghbm.v ELSE poll.ghbm,
                                !.lhbm = IF ~s.lhbm.dirty THEN poll.lhbm ELSE IF s.lhbm.v THEN "on" ELSE "off"]
  BY DEF PollFor, PollType
<1> QED  BY <1>1, <1>2 DEF PollType

(* The states an operation gives to updateStates.                          *)
LEMMA RequestTypes ==
  ASSUME NEW s \in States, NEW b \in Brightness \union {Off}, NEW x \in BOOLEAN
  PROVE  /\ [s EXCEPT !.level.dirty = @ \/ s.reqDirty, !.req = b, !.reqDirty = TRUE] \in States
         /\ [s EXCEPT !.enhance = x] \in States /\ [s EXCEPT !.dim = x] \in States
         /\ [s EXCEPT !.hbmDimming = FALSE] \in States /\ [s EXCEPT !.instant = x] \in States
         /\ [s EXCEPT !.lhbmReq = x, !.lhbm.dirty = @ \/ x] \in States
         /\ [s EXCEPT !.prevSdr = s.sdr, !.sdr = x] \in States
<1>1. (s.level.dirty \/ s.reqDirty) \in BOOLEAN /\ (s.lhbm.dirty \/ x) \in BOOLEAN /\ s.sdr \in BOOLEAN
  BY DEF States, Ctrl
<1>2. [s.level EXCEPT !.dirty = s.level.dirty \/ s.reqDirty] \in Ctrl(Nat)
  BY <1>1 DEF States, Ctrl
<1>3. [s.lhbm EXCEPT !.dirty = s.lhbm.dirty \/ x] \in Ctrl(BOOLEAN)
  BY <1>1 DEF States, Ctrl
<1>4. [s EXCEPT !.enhance = x] \in States /\ [s EXCEPT !.dim = x] \in States
      /\ [s EXCEPT !.hbmDimming = FALSE] \in States /\ [s EXCEPT !.instant = x] \in States
  BY DEF States
<1>5. [s EXCEPT !.prevSdr = s.sdr, !.sdr = x] \in States
  BY <1>1 DEF States
<1> DEFINE l == [s.level EXCEPT !.dirty = s.level.dirty \/ s.reqDirty]
           m == [s.lhbm EXCEPT !.dirty = s.lhbm.dirty \/ x]
<1>6. [s EXCEPT !.level.dirty = @ \/ s.reqDirty, !.req = b, !.reqDirty = TRUE]
        = [s EXCEPT !.level = l, !.req = b, !.reqDirty = TRUE]
  BY DEF States
<1>7. [s EXCEPT !.lhbmReq = x, !.lhbm.dirty = @ \/ x] = [s EXCEPT !.lhbmReq = x, !.lhbm = m]
  BY DEF States
<1>8. l \in Ctrl(Nat) /\ m \in Ctrl(BOOLEAN)
  BY <1>2, <1>3
<1> HIDE DEF l, m
<1>9. [s EXCEPT !.level = l, !.req = b, !.reqDirty = TRUE] \in States
  BY <1>8 DEF States
<1>10. [s EXCEPT !.lhbmReq = x, !.lhbm = m] \in States
  BY <1>8 DEF States
<1> QED  BY <1>4, <1>5, <1>6, <1>7, <1>9, <1>10

(* States that updateStates may be called with: what is clean in them is   *)
(* what it was.                                                            *)
Requested(s) ==
  /\ s \in States
  /\ ~s.level.dirty => s.level = bc.level
  /\ ~s.ghbm.dirty => s.ghbm = bc.ghbm
  /\ ~s.lhbm.dirty => s.lhbm = bc.lhbm
  /\ clearing = "reset" => s.instant = bc.instant

LEMMA UpdateOfRequested ==
  ASSUME NEW s, Requested(s)
  PROVE  Requested(UpdateStates(s))
<1>1. s \in States /\ UpdateStates(s) \in States
  BY UpdateType DEF Requested
<1>2. /\ s.level \in Ctrl(Nat) /\ s.ghbm \in Ctrl(HbmModes) /\ s.lhbm \in Ctrl(BOOLEAN) /\ s.lhbmReq \in BOOLEAN
      /\ LevelOf(s, Wanted(s)) \in Nat /\ WantedHbm(s) \in HbmModes
  BY <1>1, WantedFacts, LevelFacts DEF States
<1> DEFINE u == UpdateStates(s)
<1>3. /\ u.level = Store(s.level, LevelOf(s, Wanted(s))) /\ u.instant = s.instant
      /\ u.lhbm = Store(s.lhbm, s.lhbmReq) /\ u.ghbm = Store(s.ghbm, WantedHbm(s))
  BY <1>1, UpdateFacts
<1>4. /\ ~u.level.dirty => u.level = s.level
      /\ ~u.lhbm.dirty => u.lhbm = s.lhbm
      /\ ~u.ghbm.dirty => u.ghbm = s.ghbm
  BY <1>2, <1>3, StoreFacts
<1> HIDE DEF u
<1> QED  BY <1>1, <1>3, <1>4 DEF Requested, u

(* What starts dimming sends the message.                                  *)
LEMMA UpdateDims ==
  ASSUME NEW s \in States, s.hbmDimming => bc.hbmDimming, DimmingWillEnd,
         bc' = UpdateStates(s), NEW sent, SendOff(sent), StartsDimming(s) => sent
  PROVE  DimmingWillEnd'
<1>1. bc'.hbmDimming = (s.hbmDimming \/ StartsDimming(s))
  BY UpdateFacts
<1> QED  BY <1>1 DEF DimmingWillEnd, SendOff

Requests ==
  \/ EnhancedHbm \/ DimBrightness \/ DimmingOff \/ RequestLhbm
  \/ \E sdr \in SdrDims, instant \in InstantHbm : ValidateFrame(sdr, instant)

(* The requests go through updateStates, or leave everything alone.        *)
ByUpdate ==
  /\ \/ UNCHANGED <<bc, poll>>
     \/ \E s : Requested(s) /\ bc' = UpdateStates(s) /\ poll' = PollFor(bc')
  /\ UNCHANGED <<setter, power, clearing, commit, panel>>

LEMMA RequestsUpdate ==
  ASSUME TypeInv, Requests
  PROVE  ByUpdate /\ (DimmingWillEnd => DimmingWillEnd')
<1>0. bc \in States /\ Requested(bc)
  BY DEF TypeInv, Requested
<1>1. ASSUME NEW s \in States, s.level = bc.level, s.ghbm = bc.ghbm, s.lhbm = bc.lhbm,
             s.hbmDimming = bc.hbmDimming, s.instant = bc.instant, Updated(s),
             UNCHANGED <<setter, power, clearing, commit, panel>>
      PROVE  ByUpdate /\ (DimmingWillEnd => DimmingWillEnd')
  <2>1. Requested(s)
    BY <1>1 DEF Requested
  <2> QED  BY <1>1, <2>1, UpdateDims DEF Updated, ByUpdate
<1>2. CASE EnhancedHbm
  <2> DEFINE s == [bc EXCEPT !.enhance = ~@]
  <2>1. s \in States /\ s.level = bc.level /\ s.ghbm = bc.ghbm /\ s.lhbm = bc.lhbm
        /\ s.hbmDimming = bc.hbmDimming /\ s.instant = bc.instant
    BY <1>0 DEF States
  <2>2. Updated(s) /\ UNCHANGED <<setter, power, clearing, commit, panel>>
    BY <1>2 DEF EnhancedHbm
  <2> HIDE DEF s
  <2> QED  BY <1>1, <2>1, <2>2
<1>3. CASE DimBrightness
  <2> DEFINE x == DbmSupported /\ ~bc.dim
             s == [bc EXCEPT !.dim = x]
  <2>1. x \in BOOLEAN
    OBVIOUS
  <2>2. Updated(s) /\ UNCHANGED <<setter, power, clearing, commit, panel>>
    BY <1>0, <1>3 DEF DimBrightness, States
  <2> HIDE DEF x
  <2>3. s \in States /\ s.level = bc.level /\ s.ghbm = bc.ghbm /\ s.lhbm = bc.lhbm
        /\ s.hbmDimming = bc.hbmDimming /\ s.instant = bc.instant
    BY <1>0, <2>1 DEF States
  <2> HIDE DEF s
  <2> QED  BY <1>1, <2>2, <2>3
<1>4. CASE DimmingOff
  <2> DEFINE s == [bc EXCEPT !.hbmDimming = FALSE]
  <2>1. s \in States /\ s.level = bc.level /\ s.ghbm = bc.ghbm /\ s.lhbm = bc.lhbm
        /\ s.hbmDimming = FALSE /\ s.instant = bc.instant
    BY <1>0 DEF States
  <2>2. /\ IF bc.hbmDimming
           THEN /\ bc' = UpdateStates(s) /\ poll' = PollFor(bc')
                /\ offMsg' = IF StartsDimming(s) THEN "queued" ELSE "none"
           ELSE UNCHANGED <<bc, poll>>
        /\ UNCHANGED <<setter, power, clearing, commit, panel>>
    BY <1>4 DEF DimmingOff
  <2> HIDE DEF s
  <2>3. Requested(s) /\ UpdateStates(s).hbmDimming = (s.hbmDimming \/ StartsDimming(s))
    BY <2>1, UpdateFacts DEF Requested
  <2>4. ByUpdate
    BY <2>2, <2>3 DEF ByUpdate
  <2> QED  BY <2>1, <2>2, <2>3, <2>4 DEF DimmingWillEnd
<1>5. CASE RequestLhbm
  <2> DEFINE on == (sensor # "disable")
             s == [bc EXCEPT !.lhbmReq = on, !.lhbm.dirty = @ \/ on]
  <2>1. on \in BOOLEAN
    OBVIOUS
  <2>2. /\ Updated(s) \/ UNCHANGED <<bc, poll, offMsg>>
        /\ UNCHANGED <<setter, power, clearing, commit, panel>>
    BY <1>5 DEF RequestLhbm, LocalHbm, otherThanSensor
  <2> HIDE DEF on
  <2>3. s \in States
    BY <1>0, <2>1, RequestTypes
  <2>4. /\ s.level = bc.level /\ s.ghbm = bc.ghbm /\ s.instant = bc.instant
        /\ s.hbmDimming = bc.hbmDimming /\ s.lhbm = [bc.lhbm EXCEPT !.dirty = @ \/ on]
    BY <1>0 DEF States
  <2> HIDE DEF s
  <2>5. ~s.lhbm.dirty => s.lhbm = bc.lhbm
    <3>1. bc.lhbm \in Ctrl(BOOLEAN)
      BY <1>0 DEF States
    <3>2. s.lhbm.dirty = (bc.lhbm.dirty \/ on) /\ s.lhbm \in Ctrl(BOOLEAN) /\ s.lhbm.v = bc.lhbm.v
      BY <2>3, <2>4, <3>1 DEF Ctrl, States
    <3> QED  BY <3>1, <3>2 DEF Ctrl
  <2>6. Requested(s)
    BY <2>3, <2>4, <2>5 DEF Requested
  <2> QED  BY <2>2, <2>3, <2>4, <2>6, UpdateDims DEF ByUpdate, Updated, DimmingWillEnd
<1>6. ASSUME NEW sdr \in SdrDims, NEW instant \in InstantHbm, ValidateFrame(sdr, instant)
      PROVE  ByUpdate /\ (DimmingWillEnd => DimmingWillEnd')
  <2> DEFINE s == [bc EXCEPT !.prevSdr = bc.sdr, !.sdr = sdr]
             changed == s.sdr # bc.sdr \/ s.prevSdr # bc.prevSdr
             t == IF changed THEN UpdateStates(s) ELSE s
             u == [t EXCEPT !.instant = instant]
             sent == (changed /\ StartsDimming(s)) \/ (instant # bc.instant /\ StartsDimming(u))
  <2>1. sdr \in BOOLEAN /\ instant \in BOOLEAN /\ clearing = "no"
        /\ UNCHANGED <<setter, power, clearing, commit, panel>>
    BY <1>6, BrightnessAssumption DEF ValidateFrame
  <2>2. /\ bc' = IF instant # bc.instant THEN UpdateStates(u) ELSE t
        /\ poll' = IF changed \/ instant # bc.instant THEN PollFor(bc') ELSE poll
        /\ SendOff(sent)
    BY <1>6 DEF ValidateFrame
  <2>3. s \in States
    BY <1>0, <2>1, RequestTypes
  <2>4. s.level = bc.level /\ s.ghbm = bc.ghbm /\ s.lhbm = bc.lhbm /\ s.instant = bc.instant
        /\ s.hbmDimming = bc.hbmDimming
    BY <1>0 DEF States
  <2>5. ~changed => s = bc
    BY <1>0, <2>3 DEF States
  <2>6. /\ t = IF changed THEN UpdateStates(s) ELSE s
        /\ sent = ((changed /\ StartsDimming(s)) \/ (instant # bc.instant /\ StartsDimming(u)))
    OBVIOUS
  <2> HIDE DEF s, t, changed, sent
  <2>7. Requested(s)
    BY <2>1, <2>3, <2>4 DEF Requested
  <2>8. Requested(t) /\ t \in States /\ t.hbmDimming = (s.hbmDimming \/ (changed /\ StartsDimming(s)))
    <3>1. Requested(t)
      BY <2>6, <2>7, UpdateOfRequested
    <3> QED  BY <2>3, <2>6, <3>1, UpdateFacts DEF Requested, States
  <2>9. u \in States /\ u.level = t.level /\ u.ghbm = t.ghbm /\ u.lhbm = t.lhbm /\ u.hbmDimming = t.hbmDimming
    BY <2>1, <2>8 DEF States
  <2> HIDE DEF u
  <2>10. Requested(u) /\ UpdateStates(u).hbmDimming = (u.hbmDimming \/ StartsDimming(u))
    BY <2>1, <2>8, <2>9, UpdateFacts DEF Requested
  <2>11. ByUpdate
    <3>1. CASE instant # bc.instant
      BY <2>1, <2>2, <2>10, <3>1 DEF ByUpdate
    <3>2. CASE instant = bc.instant /\ changed
      BY <2>1, <2>2, <2>6, <2>7, <3>2 DEF ByUpdate
    <3>3. CASE instant = bc.instant /\ ~changed
      BY <2>1, <2>2, <2>5, <2>6, <3>3 DEF ByUpdate
    <3> QED  BY <3>1, <3>2, <3>3
  <2>12. bc'.hbmDimming => bc.hbmDimming \/ sent
    BY <2>2, <2>4, <2>6, <2>8, <2>9, <2>10
  <2> QED  BY <2>2, <2>11, <2>12 DEF DimmingWillEnd, SendOff
<1> QED  BY <1>2, <1>3, <1>4, <1>5, <1>6 DEF Requests

(* So does a brightness that comes with a frame or changes the HBM mode.   *)
LEMMA SettingUpdates ==
  ASSUME TypeInv, NEW t \in Threads, NEW b \in Brightness, SetBrightness(t, b)
  PROVE  /\ DimmingWillEnd => DimmingWillEnd'
         /\ \/ ByUpdate
            \/ /\ bc' \in States /\ bc'.req = b
               /\ bc'.level.v = bc.level.v /\ bc'.ghbm = bc.ghbm /\ bc'.lhbm = bc.lhbm
               /\ bc'.instant = bc.instant /\ bc'.dim = bc.dim /\ bc'.enhance = bc.enhance
               /\ setter[t].pc = "idle" /\ ~ByCommit(bc, b, t = "composer")
               /\ setter' = [setter EXCEPT ![t] = [pc |-> "poll", flush |-> FALSE, level |-> LevelOf(bc, b)]]
               /\ UNCHANGED <<poll, power, clearing, commit, panel>>
<1>0. bc \in States /\ bc.level \in Ctrl(Nat)
  BY DEF TypeInv, States
<1> DEFINE s == [bc EXCEPT !.level.dirty = @ \/ bc.reqDirty, !.req = b, !.reqDirty = TRUE]
<1>1. s \in States
  BY <1>0, RequestTypes
<1>2. s.ghbm = bc.ghbm /\ s.lhbm = bc.lhbm /\ s.level = [bc.level EXCEPT !.dirty = @ \/ bc.reqDirty]
      /\ s.instant = bc.instant /\ s.hbmDimming = bc.hbmDimming /\ s.dim = bc.dim
      /\ s.enhance = bc.enhance /\ s.req = b
  BY <1>0 DEF States
<1>3. s.level.v = bc.level.v /\ (~s.level.dirty => s.level = bc.level)
  <2>1. s.level \in Ctrl(Nat) /\ s.level.v = bc.level.v /\ s.level.dirty = (bc.level.dirty \/ bc.reqDirty)
    BY <1>0, <1>1, <1>2 DEF Ctrl, States
  <2> QED  BY <1>0, <2>1 DEF Ctrl
<1>4. /\ UNCHANGED <<power, clearing, commit, panel>> /\ setter[t].pc = "idle"
      /\ IF ByCommit(bc, b, t = "composer")
         THEN Updated(s) /\ UNCHANGED setter
         ELSE /\ bc' = [s EXCEPT !.reqDirty = FALSE]
              /\ setter' = [setter EXCEPT ![t] = [pc |-> "poll", flush |-> FALSE, level |-> LevelOf(bc, b)]]
              /\ UNCHANGED <<poll, offMsg>>
  BY DEF SetBrightness
<1> HIDE DEF s
<1>5. Requested(s)
  BY <1>1, <1>2, <1>3 DEF Requested
<1>6. CASE ByCommit(bc, b, t = "composer")
  BY <1>1, <1>2, <1>4, <1>5, <1>6, UpdateDims DEF ByUpdate, Updated
<1>7. CASE ~ByCommit(bc, b, t = "composer")
  <2> DEFINE r == [s EXCEPT !.reqDirty = FALSE]
  <2>1. /\ r \in States /\ r.level = s.level /\ r.ghbm = s.ghbm /\ r.lhbm = s.lhbm /\ r.req = s.req
        /\ r.instant = s.instant /\ r.dim = s.dim /\ r.enhance = s.enhance /\ r.hbmDimming = s.hbmDimming
    BY <1>1 DEF States
  <2>2. bc' = r
    BY <1>4, <1>7
  <2> HIDE DEF r
  <2> QED  BY <1>2, <1>3, <1>4, <1>7, <2>1, <2>2 DEF DimmingWillEnd
<1> QED  BY <1>6, <1>7

(* What a commit takes, it has.                                            *)
LEMMA PrepareFacts ==
  ASSUME TypeInv, NEW adjusted \in BOOLEAN, MayPresent(adjusted), PrepareFrameCommit(adjusted)
  PROVE  /\ bc.level.v \in Nat /\ CommitLevel(bc, adjusted) \in Nat \union {NoLevel}
         /\ bc.level.dirty => CommitLevel(bc, adjusted) # NoLevel
         /\ CommitLevel(bc, adjusted) # NoLevel => adjusted \/ CommitLevel(bc, adjusted) = bc.level.v
         /\ bc'.level.v = bc.level.v /\ ~bc'.level.dirty /\ (~bc.level.dirty => bc'.level = bc.level)
         /\ bc'.ghbm.v = bc.ghbm.v /\ ~bc'.ghbm.dirty /\ bc'.lhbm.v = bc.lhbm.v /\ ~bc'.lhbm.dirty
         /\ bc'.req = bc.req /\ bc'.instant = bc.instant /\ bc'.dim = bc.dim /\ bc'.enhance = bc.enhance
         /\ poll'.level = IF CommitLevel(bc, adjusted) = NoLevel THEN poll.level ELSE CommitLevel(bc, adjusted)
         /\ bc' \in States /\ poll' \in PollType
<1>0. /\ bc \in States /\ bc.level \in Ctrl(Nat) /\ bc.ghbm \in Ctrl(HbmModes) /\ bc.lhbm \in Ctrl(BOOLEAN)
      /\ poll \in PollType /\ Peak \in Nat
  BY BrightnessAssumption DEF TypeInv, States, Off
<1>1. /\ CommitLevel(bc, adjusted) \in Nat \union {NoLevel} /\ bc.level.v \in Nat
      /\ bc.level.dirty => CommitLevel(bc, adjusted) # NoLevel
  BY <1>0 DEF CommitLevel, Ctrl, NoLevel
<1>2. CommitLevel(bc, adjusted) # NoLevel => adjusted \/ CommitLevel(bc, adjusted) = bc.level.v
  BY DEF CommitLevel
<1> DEFINE a == IF bc.lhbm.dirty THEN bc.lhbm.v /\ (bc.adj \/ adjusted) ELSE bc.adj
           lv == [bc.level EXCEPT !.dirty = FALSE]
           gh == [bc.ghbm EXCEPT !.dirty = FALSE]
           lh == [bc.lhbm EXCEPT !.dirty = FALSE]
<1>3. a \in BOOLEAN
  BY <1>0 DEF States, Ctrl
<1>4. /\ lv \in Ctrl(Nat) /\ lv.v = bc.level.v /\ lv.dirty = FALSE /\ (~bc.level.dirty => lv = bc.level)
      /\ gh \in Ctrl(HbmModes) /\ gh.v = bc.ghbm.v /\ gh.dirty = FALSE
      /\ lh \in Ctrl(BOOLEAN) /\ lh.v = bc.lhbm.v /\ lh.dirty = FALSE
  BY <1>0 DEF Ctrl
<1>5. bc' = [bc EXCEPT !.lhbm = lh, !.level = lv, !.ghbm = gh, !.adj = a]
  BY <1>0 DEF PrepareFrameCommit, States
<1> HIDE DEF a, lv, gh, lh
<1>6. /\ bc' \in States /\ bc'.level = lv /\ bc'.ghbm = gh /\ bc'.lhbm = lh
      /\ bc'.req = bc.req /\ bc'.instant = bc.instant /\ bc'.dim = bc.dim /\ bc'.enhance = bc.enhance
  BY <1>0, <1>3, <1>4, <1>5 DEF States
<1> DEFINE c == CommitLevel(bc, adjusted)
<1>7. poll' = [poll EXCEPT !.level = IF c = NoLevel THEN @ ELSE c]
  BY DEF PrepareFrameCommit
<1>8. c \in Nat \union {NoLevel}
  BY <1>1
<1> HIDE DEF c
<1>9. poll' \in PollType /\ poll'.level = IF c = NoLevel THEN poll.level ELSE c
  BY <1>0, <1>7, <1>8 DEF PollType
<1> QED  BY <1>1, <1>2, <1>4, <1>6, <1>9 DEF c

(* What becomes of local HBM when it is reset.                             *)
LEMMA ResetFacts ==
  ASSUME NEW s \in States
  PROVE  LET r == ResetLhbm(s) IN
         /\ r \in States /\ r.lhbmReq = FALSE /\ r.lhbm = Clean(FALSE) /\ r.adj = FALSE
         /\ r.level = s.level /\ r.ghbm = s.ghbm /\ r.req = s.req /\ r.instant = s.instant
         /\ r.dim = s.dim /\ r.enhance = s.enhance /\ r.hbmDimming = s.hbmDimming
<1>1. Clean(FALSE) \in Ctrl(BOOLEAN)
  BY DEF Clean, Ctrl
<1> QED  BY <1>1 DEF ResetLhbm, States

LEMMA TypeStep ==
  ASSUME TypeInv, [BrightnessNext]_brightnessVars
  PROVE  TypeInv'
<1>0. bc \in States /\ bc.level \in Ctrl(Nat) /\ bc.ghbm \in Ctrl(HbmModes) /\ bc.lhbm \in Ctrl(BOOLEAN)
      /\ setter \in [Writers -> WriteType]
  BY DEF TypeInv, States
<1>1. NoWrite \in WriteType /\ bc.level.v \in Nat
      /\ Clean(FALSE) \in Ctrl(BOOLEAN) /\ Clean(0) \in Ctrl(Nat) /\ Clean("OFF") \in Ctrl(HbmModes)
  BY <1>0 DEF NoWrite, WriteType, Clean, Ctrl, HbmModes
<1>2. ASSUME ByUpdate PROVE TypeInv'
  <2>1. CASE UNCHANGED <<bc, poll>>
    BY <1>2, <2>1 DEF ByUpdate, TypeInv
  <2>2. ASSUME NEW s, Requested(s), bc' = UpdateStates(s), poll' = PollFor(bc')
        PROVE  bc' \in States /\ poll' \in PollType
    <3>1. bc' \in States
      BY <2>2, UpdateType DEF Requested
    <3> QED  BY <2>2, <3>1, PollForType DEF TypeInv
  <2> QED  BY <1>2, <2>1, <2>2 DEF ByUpdate, TypeInv
<1>3. CASE Requests
  BY <1>2, <1>3, RequestsUpdate
<1>4. ASSUME NEW t \in Threads, NEW b \in Brightness, SetBrightness(t, b)
      PROVE  TypeInv'
  <2>1. CASE ~ByUpdate
    <3> DEFINE r == [pc |-> "poll", flush |-> FALSE, level |-> LevelOf(bc, b)]
    <3>1. /\ bc' \in States /\ setter' = [setter EXCEPT ![t] = r]
          /\ UNCHANGED <<poll, power, clearing, commit, panel>>
      BY <1>4, <2>1, SettingUpdates
    <3>2. r \in WriteType
      BY <1>0, LevelFacts DEF WriteType
    <3> HIDE DEF r
    <3>3. setter' \in [Writers -> WriteType]
      BY <1>0, <3>1, <3>2
    <3> QED  BY <3>1, <3>3 DEF TypeInv
  <2> QED  BY <1>2, <2>1
<1>5. CASE FlushBrightness
  <2> DEFINE r == [pc |-> "poll", flush |-> TRUE, level |-> bc.level.v]
  <2>1. /\ UNCHANGED <<bc, poll, power, clearing, commit, panel>>
        /\ setter' = [setter EXCEPT !["composer"] = r]
    BY <1>5 DEF FlushBrightness
  <2>2. r \in WriteType
    BY <1>1 DEF WriteType
  <2> HIDE DEF r
  <2>3. setter' \in [Writers -> WriteType]
    BY <1>0, <2>1, <2>2
  <2> QED  BY <2>1, <2>3 DEF TypeInv
<1>6. ASSUME NEW t \in Threads, PollPanel(t)
      PROVE  TypeInv'
  <2>1. UNCHANGED <<bc, power, clearing, commit, panel>> /\ setter' = [setter EXCEPT ![t].pc = "write"]
    BY <1>6 DEF PollPanel
  <2>2. setter' \in [Writers -> WriteType]
    BY <1>0, <2>1 DEF WriteType
  <2>3. poll' \in PollType
    BY <1>6 DEF PollPanel, TypeInv, PollType
  <2> QED  BY <2>1, <2>2, <2>3 DEF TypeInv
<1>7. ASSUME NEW t \in Writers, WriteNode(t) \/ RecordWrite(t) \/ WriteFails(t)
      PROVE  TypeInv'
  <2>1. setter[t].level \in Nat
    BY <1>0 DEF WriteType
  <2>2. UNCHANGED <<poll, power, clearing, commit>>
    BY <1>7 DEF WriteFails, WriteNode, RecordWrite
  <2>3. setter' \in [Writers -> WriteType]
    <3>1. CASE WriteNode(t)
      BY <1>0, <3>1 DEF WriteNode, WriteType
    <3>2. CASE RecordWrite(t) \/ WriteFails(t)
      <4>1. setter' = [setter EXCEPT ![t] = NoWrite]
        BY <3>2 DEF RecordWrite, WriteFails
      <4> QED  BY <1>0, <1>1, <4>1
    <3> QED  BY <1>7, <3>1, <3>2
  <2>4. panel' \in PanelType
    BY <1>7, <2>1 DEF WriteFails, WriteNode, RecordWrite, TypeInv, PanelType
  <2>5. bc' \in States
    <3>1. Clean(setter[t].level) \in Ctrl(Nat)
      BY <2>1 DEF Clean, Ctrl
    <3>2. bc' = bc \/ bc' = [bc EXCEPT !.level = Clean(setter[t].level)]
      BY <1>7 DEF WriteFails, WriteNode, RecordWrite
    <3> QED  BY <1>0, <3>1, <3>2 DEF States
  <2> QED  BY <2>2, <2>3, <2>4, <2>5 DEF TypeInv
<1>8. ASSUME NEW adjusted \in BOOLEAN, PresentFrame(adjusted) \/ PresentFails(adjusted)
      PROVE  TypeInv'
  <2>1. UNCHANGED <<setter, power, panel>> /\ clearing' \in {clearing, "clear"}
        /\ bc' \in States /\ poll' \in PollType /\ CommitLevel(bc, adjusted) \in Nat \union {NoLevel}
    BY <1>8, PrepareFacts DEF PresentFrame, PresentFails
  <2>2. commit' \in CommitType
    <3>1. (IF bc.ghbm.dirty THEN bc.ghbm.v ELSE "none") \in HbmModes \union {"none"}
      BY <1>0 DEF Ctrl
    <3>2. CASE PresentFrame(adjusted)
      BY <2>1, <3>1, <3>2 DEF PresentFrame, CommitType
    <3>3. CASE PresentFails(adjusted)
      BY <3>3 DEF PresentFails, TypeInv
    <3> QED  BY <1>8, <3>2, <3>3
  <2> QED  BY <2>1, <2>2 DEF TypeInv
<1>9. CASE CommitDone
  <2>1. UNCHANGED <<bc, poll, setter, power, clearing>> /\ commit' = NoCommit
    BY <1>9 DEF CommitDone
  <2>2. panel' \in PanelType
    <3>1. panel' = [level |-> IF commit.level = NoLevel THEN panel.level ELSE commit.level,
                    adj |-> IF commit.level = NoLevel THEN panel.adj ELSE commit.adj,
                    ghbm |-> IF commit.ghbm = "none" THEN panel.ghbm ELSE commit.ghbm,
                    lhbm |-> IF commit.lhbm = "none" THEN panel.lhbm ELSE commit.lhbm = "on"]
      BY <1>9 DEF CommitDone
    <3>2. /\ (IF commit.level = NoLevel THEN panel.level ELSE commit.level) \in Nat
          /\ (IF commit.ghbm = "none" THEN panel.ghbm ELSE commit.ghbm) \in HbmModes
      BY DEF TypeInv, PanelType, CommitType
    <3>3. (IF commit.level = NoLevel THEN panel.adj ELSE commit.adj) \in BOOLEAN
      BY DEF TypeInv, PanelType, CommitType
    <3>4. (IF commit.lhbm = "none" THEN panel.lhbm ELSE commit.lhbm = "on") \in BOOLEAN
      BY DEF TypeInv, PanelType, CommitType
    <3> QED  BY <3>1, <3>2, <3>3, <3>4 DEF PanelType
  <2> QED  BY <2>1, <2>2 DEF TypeInv, CommitType, NoCommit
<1>10. CASE LhbmTimeout \/ LhbmEnabled \/ DimmingThreadStarts \/ (\E on \in BOOLEAN : SetLhbmState(on))
  BY <1>10 DEF LhbmTimeout, LhbmEnabled, DimmingThreadStarts, SetLhbmState, otherThanSensor, TypeInv, PanelType
<1>11. CASE LhbmFailed
  BY <1>0, <1>11, ResetFacts DEF LhbmFailed, otherThanSensor, TypeInv
<1>12. CASE OnClearDisplay
  <2> DEFINE r == [pc |-> "write", flush |-> FALSE, level |-> bc.level.v]
  <2>1. /\ UNCHANGED <<poll, power, commit, panel>> /\ clearing' \in {"reset", "cleared"}
        /\ bc' = [ResetLhbm(bc) EXCEPT !.instant = FALSE]
        /\ setter' = setter \/ setter' = [setter EXCEPT !["clear"] = r]
    BY <1>12 DEF OnClearDisplay, otherThanPower
  <2>2. r \in WriteType
    BY <1>1 DEF WriteType
  <2> HIDE DEF r
  <2>3. setter' \in [Writers -> WriteType]
    BY <1>0, <2>1, <2>2
  <2>4. bc' \in States
    <3>1. ResetLhbm(bc) \in States
      BY <1>0, ResetFacts
    <3> QED  BY <2>1, <3>1 DEF States
  <2> QED  BY <2>1, <2>3, <2>4 DEF TypeInv
<1>13. CASE ResetStates
  <2>1. bc' \in States
    BY <1>0, <1>1, <1>13 DEF ResetStates, States, Off
  <2> QED  BY <1>13, <2>1 DEF ResetStates, otherThanPower, TypeInv
<1>14. CASE ClearFrame \/ FrameCleared \/ ClearDisplay \/ PowerOff \/ PowerOn
  BY <1>14 DEF ClearFrame, FrameCleared, ClearDisplay, PowerOff, PowerOn, otherThanPower, TypeInv, PanelType, HbmModes
<1>15. CASE PowerDoze
  <2>1. bc' \in States
    BY <1>0, <1>15, ResetFacts DEF PowerDoze
  <2> QED  BY <1>15, <2>1 DEF PowerDoze, otherThanPower, TypeInv, PanelType
<1>16. CASE UNCHANGED brightnessVars
  BY <1>16 DEF TypeInv
<1>17. Request \/ Frame => TypeInv'
  BY <1>3, <1>4, <1>5, <1>6, <1>7, <1>8, <1>9, <1>10, <1>11 DEF Request, Frame, Requests
<1> QED
  BY <1>7, <1>8, <1>12, <1>13, <1>14, <1>15, <1>16, <1>17 DEF BrightnessNext, Power

LEMMA BrightnessTypes == BrightnessSpec => []TypeInv
<1>1. BrightnessInit => TypeInv
  BY BrightnessAssumption
     DEF BrightnessInit, TypeInv, States, Ctrl, Clean, NoCommit, HbmModes, Writers, Threads, NoLevel, Off,
         PollType, WriteType, CommitType, PanelType, NoWrite
<1>2. TypeInv /\ [BrightnessNext]_brightnessVars => TypeInv'
  BY TypeStep
<1> QED  BY <1>1, <1>2, PTL DEF BrightnessSpec

-----------------------------------------------------------------------------
(* HBM dimming is never left on for ever: while it is on, the message that *)
(* turns it off is queued, whichever requests, frames and power changes    *)
(* came between, or could not be sent because the dimming thread was not   *)
(* yet there.                                                              *)
THEOREM DimmingAlwaysEnds == BrightnessSpec => []DimmingWillEnd
<1>1. BrightnessInit => DimmingWillEnd
  BY DEF BrightnessInit, DimmingWillEnd
<1>2. TypeInv /\ DimmingWillEnd /\ [BrightnessNext]_brightnessVars => DimmingWillEnd'
  <2> SUFFICES ASSUME TypeInv, DimmingWillEnd, [BrightnessNext]_brightnessVars
               PROVE  DimmingWillEnd'
    OBVIOUS
  <2>0. bc \in States
    BY DEF TypeInv
  <2>1. CASE Requests
    BY <2>1, RequestsUpdate
  <2>2. ASSUME NEW t \in Threads, NEW b \in Brightness, SetBrightness(t, b)
        PROVE  DimmingWillEnd'
    BY <2>2, SettingUpdates
  <2>3. ASSUME NEW t \in Writers, WriteNode(t) \/ RecordWrite(t) \/ WriteFails(t)
        PROVE  bc'.hbmDimming = bc.hbmDimming /\ UNCHANGED offMsg
    BY <2>0, <2>3 DEF WriteFails, WriteNode, RecordWrite, States
  <2>4. ASSUME NEW adjusted \in BOOLEAN, PresentFrame(adjusted) \/ PresentFails(adjusted)
        PROVE  bc'.hbmDimming = bc.hbmDimming /\ UNCHANGED offMsg
    BY <2>0, <2>4 DEF PresentFrame, PresentFails, PrepareFrameCommit, States
  <2>5. CASE FlushBrightness \/ (\E t \in Threads : PollPanel(t)) \/ CommitDone \/ LhbmTimeout
             \/ DimmingThreadStarts \/ (\E on \in BOOLEAN : SetLhbmState(on)) \/ LhbmEnabled
    BY <2>5 DEF FlushBrightness, PollPanel, CommitDone, LhbmTimeout, DimmingThreadStarts, SetLhbmState,
       LhbmEnabled, DimmingWillEnd
  <2>6. CASE LhbmFailed
    BY <2>0, <2>6, ResetFacts DEF LhbmFailed, DimmingWillEnd
  <2>7. CASE OnClearDisplay
    <3>1. ResetLhbm(bc) \in States /\ ResetLhbm(bc).hbmDimming = bc.hbmDimming
      BY <2>0, ResetFacts
    <3>2. bc' = [ResetLhbm(bc) EXCEPT !.instant = FALSE] /\ UNCHANGED offMsg
      BY <2>7 DEF OnClearDisplay, otherThanPower
    <3> QED  BY <3>1, <3>2 DEF States, DimmingWillEnd
  <2>8. CASE ResetStates
    <3>1. bc'.hbmDimming = FALSE
      BY <2>0, <2>8 DEF ResetStates, States
    <3> QED  BY <3>1 DEF DimmingWillEnd
  <2>9. CASE ClearFrame \/ FrameCleared \/ ClearDisplay \/ PowerOff \/ PowerDoze \/ PowerOn
    BY <2>0, <2>9, ResetFacts DEF ClearFrame, FrameCleared, ClearDisplay, PowerOff, PowerDoze, PowerOn,
       otherThanPower, DimmingWillEnd
  <2>10. CASE UNCHANGED brightnessVars
    BY <2>10 DEF DimmingWillEnd
  <2>11. Request \/ Frame => DimmingWillEnd'
    BY <2>1, <2>2, <2>3, <2>4, <2>5, <2>6 DEF Request, Frame, Requests, DimmingWillEnd
  <2> QED
    BY <2>3, <2>4, <2>7, <2>8, <2>9, <2>10, <2>11 DEF BrightnessNext, Power, DimmingWillEnd
<1> QED  BY <1>1, <1>2, BrightnessTypes, PTL DEF BrightnessSpec

-----------------------------------------------------------------------------
(* PanelFollowsRequests.  What is clean has reached the panel or is in the *)
(* commit in flight; what is dirty is what the requests add up to; and a   *)
(* write of the node that is under way writes the level that is asked for. *)
(* Each of the three parts holds as long as it is not lost.                *)

Busy(t) == setter[t].pc # "idle"
Direct(t) == t \in Threads /\ ~setter[t].flush

(* The level, the HBM mode and local HBM that the panel is going to have.  *)
NextLevelIs(v) ==
  IF commit.level # NoLevel THEN commit.adj \/ commit.level = v ELSE panel.adj \/ panel.level = v
NextHbm == IF commit.ghbm # "none" THEN commit.ghbm ELSE panel.ghbm
NextLhbm == IF commit.lhbm # "none" THEN commit.lhbm = "on" ELSE panel.lhbm

ShapeInv ==
  /\ commit.inFlight => clearing = "no" /\ power = "ON"
  /\ ~commit.inFlight => commit = NoCommit
  /\ power # "ON" \/ clearing \in {"off", "reset", "done"} => ~panel.lhbm
  /\ clearing \in {"off", "reset"} => panel.ghbm = "OFF"
  /\ clearing = "reset" => ~bc.instant
  /\ \A t \in Writers : setter[t].flush => t = "composer"

HbmOk ==
  \/ clearing = "reset"
  \/ /\ bc.ghbm.v = WantedHbm(bc)
     /\ clearing = "off" \/ bc.ghbm.dirty \/ NextHbm = bc.ghbm.v

LhbmOk == bc.lhbm.dirty \/ ~NextLhbm \/ bc.lhbm.v

StateOk ==
  \/ clearing = "reset" \/ bc.instant \/ bc.level.v = LevelOf(bc, bc.req)
  \/ \E t \in Writers : Busy(t) /\ Direct(t)
RestOk ==
  Idle => \/ bc.level.dirty \/ NextLevelIs(bc.level.v)
          \/ bc.level.v = 0 /\ ~bc.instant /\ bc.req = Off
WriteOk(t) ==
  /\ IF Direct(t) THEN setter[t].level = LevelOf(bc, bc.req)
     ELSE bc.level.dirty /\ bc.level.v = setter[t].level
  /\ \A u \in Writers : Busy(u) => u = t
  /\ setter[t].pc \in {"write", "record"} => commit.level = NoLevel
  /\ setter[t].pc = "record" => panel.level = setter[t].level
LevelOk ==
  /\ commit.level # NoLevel => poll.level = commit.level
  /\ StateOk /\ RestOk
  /\ \A t \in Writers : Busy(t) => WriteOk(t)

PanelInv ==
  /\ ShapeInv
  /\ "ghbm" \notin lost => HbmOk
  /\ "lhbm" \notin lost => LhbmOk
  /\ "level" \notin lost => LevelOk

(* What a step that loses these parts has to keep.                         *)
KeepsBut(parts) ==
  /\ ShapeInv'
  /\ "ghbm" \notin parts /\ HbmOk => HbmOk'
  /\ "lhbm" \notin parts /\ LhbmOk => LhbmOk'
  /\ "level" \notin parts /\ ~Overtakes /\ LevelOk => LevelOk'

(* What was lost and is found is as it should be.                          *)
LEMMA FoundKeepsPanel ==
  ASSUME PanelInv, NEW parts, KeepsBut(parts), Loses(parts)
  PROVE  PanelInv'
<1>1. ShapeInv'
  BY DEF KeepsBut
<1>2. ASSUME Idle', ~commit'.inFlight
      PROVE  (HbmAgrees' => HbmOk') /\ (LhbmAgrees' => LhbmOk') /\ (LevelAgrees' => LevelOk')
  <2>1. commit' = NoCommit
    BY <1>1, <1>2 DEF ShapeInv
  <2>2. commit'.ghbm = "none" /\ commit'.lhbm = "none" /\ commit'.level = NoLevel
    BY <2>1 DEF NoCommit
  <2>3. HbmAgrees' => HbmOk'
    BY <2>2 DEF HbmAgrees, HbmOk, NextHbm
  <2>4. LhbmAgrees' => LhbmOk'
    BY <2>2 DEF LhbmAgrees, LhbmOk, NextLhbm
  <2>5. LevelAgrees' => LevelOk'
    BY <1>2, <2>2 DEF LevelAgrees, LevelOk, StateOk, RestOk, NextLevelIs, Idle, Busy
  <2> QED  BY <2>3, <2>4, <2>5
<1>3. ASSUME "ghbm" \notin lost' PROVE HbmOk'
  BY <1>2, <1>3 DEF Loses, KeepsBut, PanelInv
<1>4. ASSUME "lhbm" \notin lost' PROVE LhbmOk'
  BY <1>2, <1>4 DEF Loses, KeepsBut, PanelInv
<1>5. ASSUME "level" \notin lost' PROVE LevelOk'
  BY <1>2, <1>5 DEF Loses, KeepsBut, PanelInv
<1> QED  BY <1>1, <1>3, <1>4, <1>5 DEF PanelInv

(* The level is kept while what it follows from stays.                     *)
LEMMA SameLevel ==
  ASSUME LevelOk, bc.dim' = bc.dim, bc.level' = bc.level, bc.req' = bc.req, bc.instant' = bc.instant,
         UNCHANGED setter, commit'.level = commit.level, commit'.adj = commit.adj,
         panel'.level = panel.level, panel'.adj = panel.adj, poll'.level = poll.level,
         clearing' # clearing => clearing # "reset"
  PROVE  LevelOk'
<1>1. \A b : LevelOf(bc', b) = LevelOf(bc, b)
  BY DEF LevelOf
<1>2. \A v : NextLevelIs(v)' = NextLevelIs(v)
  BY DEF NextLevelIs
<1>3. StateOk'
  BY <1>1 DEF LevelOk, StateOk, Busy, Direct
<1>4. RestOk'
  BY <1>2 DEF LevelOk, RestOk, Idle
<1>5. \A t \in Writers : Busy(t)' => WriteOk(t)'
  BY <1>1 DEF LevelOk, WriteOk, Busy, Direct
<1> QED  BY <1>3, <1>4, <1>5 DEF LevelOk

(* An update makes the states follow from the requests.                    *)
LEMMA UpdatesKeepPanel ==
  ASSUME TypeInv, ShapeInv, ByUpdate
  PROVE  KeepsBut({})
<1>0. bc \in States
  BY DEF TypeInv
<1>1. UNCHANGED <<setter, power, clearing, commit, panel, NextHbm, NextLhbm>>
  BY DEF ByUpdate, NextHbm, NextLhbm
<1>2. CASE UNCHANGED <<bc, poll>>
  <2>1. ShapeInv' /\ (HbmOk => HbmOk') /\ (LhbmOk => LhbmOk')
    BY <1>1, <1>2 DEF ShapeInv, HbmOk, LhbmOk, WantedHbm, Wanted
  <2>2. LevelOk => LevelOk'
    BY <1>1, <1>2, SameLevel
  <2> QED  BY <2>1, <2>2 DEF KeepsBut
<1>3. ASSUME NEW s, Requested(s), bc' = UpdateStates(s), poll' = PollFor(bc')
      PROVE  KeepsBut({})
  <2>1. s \in States /\ bc' \in States
    BY <1>3, UpdateType DEF Requested
  <2>2. poll'.level = poll.level
    BY <1>3, <2>1, PollForType DEF TypeInv
  <2>3. /\ s.level \in Ctrl(Nat) /\ s.ghbm \in Ctrl(HbmModes) /\ s.lhbm \in Ctrl(BOOLEAN) /\ s.lhbmReq \in BOOLEAN
        /\ LevelOf(s, Wanted(s)) \in Nat /\ WantedHbm(s) \in HbmModes
    BY <2>1, WantedFacts, LevelFacts DEF States
  <2>4. /\ bc'.level = Store(s.level, LevelOf(s, Wanted(s)))
        /\ bc'.lhbm = Store(s.lhbm, s.lhbmReq) /\ bc'.ghbm = Store(s.ghbm, WantedHbm(s))
        /\ bc'.req = s.req /\ bc'.instant = s.instant /\ bc'.enhance = s.enhance /\ bc'.dim = s.dim
    BY <1>3, <2>1, UpdateFacts
  <2>5. /\ bc'.level.v = LevelOf(s, Wanted(s)) /\ bc'.ghbm.v = WantedHbm(s)
        /\ ~bc'.level.dirty => bc'.level = s.level /\ ~s.level.dirty
        /\ ~bc'.lhbm.dirty => bc'.lhbm = s.lhbm /\ ~s.lhbm.dirty
        /\ ~bc'.ghbm.dirty => bc'.ghbm = s.ghbm /\ ~s.ghbm.dirty
    BY <2>3, <2>4, StoreFacts
  <2>6. LevelOf(s, Wanted(s)) = LevelOf(bc', Wanted(bc')) /\ WantedHbm(bc') = WantedHbm(s)
        /\ Wanted(bc') = Wanted(s)
    BY <2>4 DEF LevelOf, WantedHbm, Wanted
  <2>7. ShapeInv'
    BY <1>1, <1>3, <2>4 DEF ShapeInv, Requested
  <2>8. HbmOk => HbmOk'
    BY <1>1, <1>3, <2>5, <2>6 DEF HbmOk, Requested
  <2>9. LhbmOk => LhbmOk'
    BY <1>1, <1>3, <2>5 DEF LhbmOk, Requested
  <2>10. ASSUME LevelOk, ~Overtakes PROVE LevelOk'
    <3>1. CASE ~Idle
      <4>1. Asked(bc') = Asked(bc)
        BY <1>1, <2>10, <3>1 DEF Overtakes, Idle
      <4> QED  BY <1>1, <2>2, <2>10, <4>1, SameLevel DEF Asked
    <3>2. CASE Idle
      <4>1. \A t \in Writers : ~Busy(t)'
        BY <1>1, <3>2 DEF Idle, Busy
      <4>2. StateOk'
        BY <2>5, <2>6 DEF StateOk, Wanted
      <4>3. \A v : NextLevelIs(v)' = NextLevelIs(v)
        BY <1>1 DEF NextLevelIs
      <4>4. ASSUME ~bc'.level.dirty
            PROVE  NextLevelIs(bc.level.v)' \/ (bc'.level.v = 0 /\ ~bc'.instant /\ bc'.req = Off)
        <5>1. bc'.level = bc.level /\ ~bc.level.dirty
          BY <1>3, <2>5, <4>4 DEF Requested
        <5>2. CASE NextLevelIs(bc.level.v)
          BY <4>3, <5>1, <5>2
        <5>3. CASE bc.level.v = 0
          <6>1. LevelOf(bc', Wanted(bc')) = 0 /\ Wanted(bc') \in Brightness \union {Off}
            BY <2>1, <2>5, <2>6, <5>1, <5>3, WantedFacts
          <6>2. Wanted(bc') = Off
            BY <2>1, <6>1, LevelFacts
          <6> QED  BY <5>1, <5>3, <6>2, BrightnessAssumption DEF Wanted
        <5> QED  BY <2>10, <3>2, <5>1, <5>2, <5>3 DEF LevelOk, RestOk
      <4> QED  BY <1>1, <2>2, <2>10, <4>1, <4>2, <4>4 DEF LevelOk, RestOk
    <3> QED  BY <3>1, <3>2
  <2> QED  BY <2>7, <2>8, <2>9, <2>10 DEF KeepsBut
<1> QED  BY <1>2, <1>3 DEF ByUpdate

(* A brightness that is written is in the write.                           *)
LEMMA SettingKeepsPanel ==
  ASSUME TypeInv, ShapeInv, NEW t \in Threads, NEW b \in Brightness, SetBrightness(t, b)
  PROVE  KeepsBut({})
<1>1. CASE ByUpdate
  BY <1>1, UpdatesKeepPanel
<1>2. CASE ~ByUpdate
  <2>1. /\ bc' \in States /\ bc'.req = b
        /\ bc'.level.v = bc.level.v /\ bc'.ghbm = bc.ghbm /\ bc'.lhbm = bc.lhbm
        /\ bc'.instant = bc.instant /\ bc'.dim = bc.dim /\ bc'.enhance = bc.enhance
        /\ setter[t].pc = "idle" /\ ~ByCommit(bc, b, t = "composer")
        /\ setter' = [setter EXCEPT ![t] = [pc |-> "poll", flush |-> FALSE, level |-> LevelOf(bc, b)]]
        /\ UNCHANGED <<poll, power, clearing, commit, panel>>
    BY <1>2, SettingUpdates
  <2>2. /\ setter'[t].pc = "poll" /\ ~setter'[t].flush /\ setter'[t].level = LevelOf(bc, b)
        /\ \A u \in Writers : u # t => setter'[u] = setter[u]
        /\ t \in Writers
    BY <2>1 DEF TypeInv, Writers
  <2>3. UNCHANGED <<NextHbm, NextLhbm>>
    BY <2>1 DEF NextHbm, NextLhbm
  <2>4. ShapeInv'
    BY <2>1, <2>2 DEF ShapeInv
  <2>5. HbmOk => HbmOk'
    <3>1. bc.ghbm.v = WantedHbm(bc) => WantedHbm(bc') = WantedHbm(bc)
      BY <2>1 DEF ByCommit, WantedHbm, Wanted
    <3> QED  BY <2>1, <2>3, <3>1 DEF HbmOk
  <2>6. LhbmOk => LhbmOk'
    BY <2>1, <2>3 DEF LhbmOk
  <2>7. ASSUME LevelOk, ~Overtakes PROVE LevelOk'
    <3>1. \A u \in Writers : Busy(u)' => u = t
      BY <2>2, <2>7 DEF Overtakes, Busy
    <3>2. Busy(t)' /\ Direct(t)' /\ WriteOk(t)'
      BY <2>1, <2>2, <3>1 DEF Busy, Direct, WriteOk, LevelOf
    <3>3. ~Idle'
      BY <2>2 DEF Idle
    <3> QED  BY <2>1, <2>2, <2>7, <3>1, <3>2, <3>3 DEF LevelOk, StateOk, RestOk
  <2> QED  BY <2>4, <2>5, <2>6, <2>7 DEF KeepsBut
<1> QED  BY <1>1, <1>2

(* The writes of the node.                                                 *)
LEMMA WritesKeepPanel ==
  ASSUME TypeInv, ShapeInv,
         \/ FlushBrightness \/ \E t \in Threads : PollPanel(t)
         \/ \E t \in Writers : WriteNode(t) \/ RecordWrite(t)
  PROVE  KeepsBut({})
<1>0. /\ bc \in States /\ bc.level \in Ctrl(Nat) /\ setter \in [Writers -> WriteType]
      /\ panel \in PanelType /\ commit \in CommitType /\ poll \in PollType
  BY DEF TypeInv, States
<1>1. CASE FlushBrightness
  <2>1. /\ UNCHANGED <<bc, poll, power, clearing, commit, panel, NextHbm, NextLhbm>>
        /\ bc.level.dirty /\ setter["composer"].pc = "idle"
        /\ setter' = [setter EXCEPT !["composer"] = [pc |-> "poll", flush |-> TRUE, level |-> bc.level.v]]
    BY <1>1 DEF FlushBrightness, ComposerIsFree, NextHbm, NextLhbm
  <2>2. /\ setter'["composer"].pc = "poll" /\ setter'["composer"].flush /\ setter'["composer"].level = bc.level.v
        /\ \A u \in Writers : u # "composer" => setter'[u] = setter[u]
        /\ "composer" \in Writers
    BY <1>0, <2>1 DEF Writers, Threads
  <2>3. ShapeInv' /\ (HbmOk => HbmOk') /\ (LhbmOk => LhbmOk')
    BY <2>1, <2>2 DEF ShapeInv, HbmOk, LhbmOk, WantedHbm, Wanted
  <2>4. ASSUME LevelOk, ~Overtakes PROVE LevelOk'
    <3>1. \A u \in Writers : Busy(u)' => u = "composer"
      BY <2>2, <2>4 DEF Overtakes, Busy
    <3>2. WriteOk("composer")' /\ ~Idle'
      BY <2>1, <2>2, <3>1 DEF Direct, WriteOk, Idle
    <3>3. StateOk'
      <4>1. ASSUME NEW t \in Writers, Busy(t) PROVE FALSE
        BY <2>1, <2>2, <3>1, <4>1 DEF Busy
      <4> QED  BY <2>1, <2>4, <4>1 DEF LevelOk, StateOk, LevelOf
    <3> QED  BY <2>1, <2>4, <3>1, <3>2, <3>3 DEF LevelOk, RestOk
  <2> QED  BY <2>3, <2>4 DEF KeepsBut
<1>2. ASSUME NEW t \in Threads, PollPanel(t)
      PROVE  KeepsBut({})
  <2>1. /\ UNCHANGED <<bc, power, clearing, commit, panel, NextHbm, NextLhbm>> /\ setter[t].pc = "poll"
        /\ setter' = [setter EXCEPT ![t].pc = "write"] /\ t \in Writers
    BY <1>2 DEF PollPanel, NextHbm, NextLhbm, Writers
  <2>2. /\ setter'[t].pc = "write" /\ setter'[t].flush = setter[t].flush /\ setter'[t].level = setter[t].level
        /\ \A u \in Writers : u # t => setter'[u] = setter[u]
    BY <1>0, <2>1 DEF WriteType
  <2>3. ShapeInv' /\ (HbmOk => HbmOk') /\ (LhbmOk => LhbmOk')
    BY <2>1, <2>2 DEF ShapeInv, HbmOk, LhbmOk, WantedHbm, Wanted
  <2>4. ASSUME LevelOk, ~Overtakes PROVE LevelOk'
    <3>1. Busy(t) /\ WriteOk(t)
      BY <2>1, <2>4 DEF Busy, LevelOk
    <3>2. commit.level = NoLevel
      <4>1. SUFFICES ASSUME commit.level # NoLevel PROVE FALSE
        OBVIOUS
      <4>2. setter[t].flush /\ commit.level # panel.level
        BY <2>1, <2>2, <2>4, <4>1 DEF Overtakes
      <4>3. poll.level \in {NoLevel, panel.level} \/ ~commit.inFlight
        BY <1>2, <4>2 DEF PollPanel
      <4>4. commit.inFlight
        BY <4>1 DEF ShapeInv, NoCommit
      <4> QED  BY <2>4, <4>1, <4>2, <4>3, <4>4 DEF LevelOk
    <3>3. (Direct(t))' = Direct(t) /\ (Busy(t))' /\ ~Idle'
      BY <2>1, <2>2 DEF Direct, Busy, Idle
    <3>4. (WriteOk(t))'
      BY <2>1, <2>2, <3>1, <3>2, <3>3 DEF WriteOk, LevelOf, Busy
    <3>5. StateOk'
      BY <2>1, <2>2, <2>4, <3>1, <3>3 DEF LevelOk, StateOk, WriteOk, LevelOf
    <3>6. \A u \in Writers : Busy(u)' => u = t
      BY <3>4 DEF WriteOk
    <3> QED  BY <2>1, <3>2, <3>3, <3>4, <3>5, <3>6 DEF LevelOk, RestOk
  <2> QED  BY <2>3, <2>4 DEF KeepsBut
<1>3. ASSUME NEW t \in Writers, WriteNode(t)
      PROVE  KeepsBut({})
  <2>1. /\ UNCHANGED <<bc, poll, power, clearing, commit>> /\ setter[t].pc = "write"
        /\ setter' = [setter EXCEPT ![t].pc = "record"]
        /\ panel'.level = setter[t].level /\ panel'.ghbm = panel.ghbm /\ panel'.lhbm = panel.lhbm
    BY <1>0, <1>3 DEF WriteNode, PanelType
  <2>2. /\ setter'[t].pc = "record" /\ setter'[t].flush = setter[t].flush /\ setter'[t].level = setter[t].level
        /\ \A u \in Writers : u # t => setter'[u] = setter[u]
    BY <1>0, <2>1 DEF WriteType
  <2>3. ShapeInv' /\ (HbmOk => HbmOk') /\ (LhbmOk => LhbmOk')
    BY <2>1, <2>2 DEF ShapeInv, HbmOk, LhbmOk, WantedHbm, Wanted, NextHbm, NextLhbm
  <2>4. ASSUME LevelOk PROVE LevelOk'
    <3>1. Busy(t) /\ WriteOk(t)
      BY <2>1, <2>4 DEF Busy, LevelOk
    <3>2. (Direct(t))' = Direct(t) /\ (Busy(t))' /\ ~Idle'
      BY <2>1, <2>2 DEF Direct, Busy, Idle
    <3>3. \A u \in Writers : Busy(u)' => u = t
      BY <2>2, <3>1 DEF WriteOk, Busy
    <3>4. (WriteOk(t))'
      BY <2>1, <2>2, <3>1, <3>2, <3>3 DEF WriteOk, LevelOf
    <3>5. StateOk'
      BY <2>1, <2>2, <2>4, <3>1, <3>2 DEF LevelOk, StateOk, WriteOk, LevelOf
    <3> QED  BY <2>1, <2>4, <3>2, <3>3, <3>4, <3>5 DEF LevelOk, RestOk
  <2> QED  BY <2>3, <2>4 DEF KeepsBut
<1>4. ASSUME NEW t \in Writers, RecordWrite(t)
      PROVE  KeepsBut({})
  <2>1. /\ UNCHANGED <<poll, power, clearing, commit, panel, NextHbm, NextLhbm>> /\ setter[t].pc = "record"
        /\ setter' = [setter EXCEPT ![t] = NoWrite]
    BY <1>4 DEF RecordWrite, NextHbm, NextLhbm
  <2>2. /\ bc'.level.v = setter[t].level /\ bc'.req = bc.req /\ bc'.instant = bc.instant /\ bc'.dim = bc.dim
        /\ bc'.ghbm = bc.ghbm /\ bc'.lhbm = bc.lhbm /\ bc'.enhance = bc.enhance
    BY <1>0, <1>4 DEF RecordWrite, States, Clean
  <2>3. /\ setter'[t].pc = "idle" /\ ~setter'[t].flush
        /\ \A u \in Writers : u # t => setter'[u] = setter[u]
    BY <1>0, <2>1 DEF NoWrite
  <2>4. ShapeInv' /\ (HbmOk => HbmOk') /\ (LhbmOk => LhbmOk')
    BY <2>1, <2>2, <2>3 DEF ShapeInv, HbmOk, LhbmOk, WantedHbm, Wanted
  <2>5. ASSUME LevelOk PROVE LevelOk'
    <3>1. Busy(t) /\ WriteOk(t)
      BY <2>1, <2>5 DEF Busy, LevelOk
    <3>2. \A u \in Writers : ~Busy(u)'
      BY <2>3, <3>1 DEF WriteOk, Busy
    <3>3. commit.level = NoLevel /\ panel.level = setter[t].level
      BY <2>1, <3>1 DEF WriteOk
    <3>4. RestOk'
      BY <2>1, <2>2, <3>3 DEF RestOk, NextLevelIs
    <3>5. StateOk'
      <4>1. CASE Direct(t)
        BY <2>2, <3>1, <4>1 DEF WriteOk, StateOk, LevelOf
      <4>2. CASE ~Direct(t)
        <5>1. bc'.level.v = bc.level.v /\ (\A u \in Writers : Busy(u) => ~Direct(u))
          BY <2>2, <3>1, <4>2 DEF WriteOk
        <5> QED  BY <2>1, <2>2, <2>5, <5>1 DEF LevelOk, StateOk, LevelOf
      <4> QED  BY <4>1, <4>2
    <3> QED  BY <2>1, <3>2, <3>3, <3>4, <3>5 DEF LevelOk
  <2> QED  BY <2>4, <2>5 DEF KeepsBut
<1> QED  BY <1>1, <1>2, <1>3, <1>4

LEMMA FailedWriteKeepsPanel ==
  ASSUME TypeInv, ShapeInv, NEW t \in Writers, WriteFails(t)
  PROVE  KeepsBut({"level"})
<1>1. /\ UNCHANGED <<bc, power, clearing, commit, panel, NextHbm, NextLhbm>>
      /\ \A u \in Writers : setter'[u] \in {setter[u], NoWrite}
  BY DEF WriteFails, NextHbm, NextLhbm, TypeInv
<1> QED
  BY <1>1 DEF KeepsBut, ShapeInv, HbmOk, LhbmOk, WantedHbm, Wanted, NoWrite

LEMMA PresentKeepsPanel ==
  ASSUME TypeInv, ShapeInv, NEW adjusted \in BOOLEAN, PresentFrame(adjusted)
  PROVE  KeepsBut({})
<1> DEFINE c == CommitLevel(bc, adjusted)
<1>1. /\ bc.level.dirty => c # NoLevel
      /\ c # NoLevel => adjusted \/ c = bc.level.v
      /\ bc'.level.v = bc.level.v /\ ~bc'.level.dirty /\ (~bc.level.dirty => bc'.level = bc.level)
      /\ bc'.ghbm.v = bc.ghbm.v /\ ~bc'.ghbm.dirty /\ bc'.lhbm.v = bc.lhbm.v /\ ~bc'.lhbm.dirty
      /\ bc'.req = bc.req /\ bc'.instant = bc.instant /\ bc'.dim = bc.dim /\ bc'.enhance = bc.enhance
      /\ poll'.level = IF c = NoLevel THEN poll.level ELSE c
  BY PrepareFacts DEF PresentFrame
<1>2. /\ power = "ON" /\ clearing = "no" /\ setter["composer"].pc = "idle" /\ ~commit.inFlight
      /\ UNCHANGED <<setter, power, clearing, panel>>
      /\ commit'.inFlight /\ commit'.level = c /\ commit'.adj = adjusted
      /\ commit'.ghbm = (IF bc.ghbm.dirty THEN bc.ghbm.v ELSE "none")
      /\ commit'.lhbm = (IF ~bc.lhbm.dirty THEN "none" ELSE IF bc.lhbm.v THEN "on" ELSE "off")
  BY DEF PresentFrame, MayPresent, ComposerIsFree, callers
<1> HIDE DEF c
<1>3. commit.ghbm = "none" /\ commit.lhbm = "none" /\ commit.level = NoLevel
  BY <1>2 DEF ShapeInv, NoCommit
<1>4. bc.ghbm.v # "none"
  BY DEF TypeInv, States, Ctrl, HbmModes
<1>5. ShapeInv'
  BY <1>1, <1>2 DEF ShapeInv
<1>6. HbmOk => HbmOk'
  BY <1>1, <1>2, <1>3, <1>4 DEF HbmOk, NextHbm, WantedHbm, Wanted
<1>7. LhbmOk => LhbmOk'
  BY <1>1, <1>2, <1>3 DEF LhbmOk, NextLhbm
<1>8. ASSUME LevelOk, ~Overtakes PROVE LevelOk'
  <2>1. StateOk'
    BY <1>1, <1>2, <1>8 DEF LevelOk, StateOk, LevelOf, Busy, Direct
  <2>2. RestOk'
    <3>1. SUFFICES ASSUME Idle
                   PROVE  NextLevelIs(bc.level.v)' \/ (bc.level.v = 0 /\ ~bc.instant /\ bc.req = Off)
      BY <1>1, <1>2 DEF RestOk, Idle, NextLevelIs
    <3>2. CASE c # NoLevel
      BY <1>1, <1>2, <3>2 DEF NextLevelIs
    <3>3. CASE c = NoLevel
      BY <1>1, <1>2, <1>3, <1>8, <3>1, <3>3 DEF LevelOk, RestOk, NextLevelIs
    <3> QED  BY <3>2, <3>3
  <2>3. ASSUME NEW t \in Writers, Busy(t)' PROVE WriteOk(t)'
    <3>1. Busy(t) /\ WriteOk(t) /\ ~Idle /\ ~Idle'
      BY <1>2, <1>8, <2>3 DEF Busy, Idle, LevelOk
    <3>2. bc'.level = bc.level
      BY <1>8, <3>1 DEF Overtakes, Asked
    <3>3. Direct(t) /\ Direct(t)'
      BY <1>1, <1>2, <3>1, <3>2 DEF WriteOk, Direct
    <3>4. setter[t].pc \in {"write", "record"} => commit'.level = NoLevel
      BY <1>2, <1>8, <3>3 DEF Overtakes, Direct
    <3> QED  BY <1>1, <1>2, <3>1, <3>3, <3>4 DEF WriteOk, LevelOf, Busy
  <2>4. commit'.level # NoLevel => poll'.level = commit'.level
    BY <1>1, <1>2
  <2> QED  BY <2>1, <2>2, <2>3, <2>4 DEF LevelOk
<1> QED  BY <1>5, <1>6, <1>7, <1>8 DEF KeepsBut

LEMMA RefusedKeepsPanel ==
  ASSUME TypeInv, ShapeInv, NEW adjusted \in BOOLEAN, PresentFails(adjusted)
  PROVE  KeepsBut(Refused(adjusted))
<1> DEFINE c == CommitLevel(bc, adjusted)
<1>1. /\ bc.level.dirty => c # NoLevel
      /\ ~bc.level.dirty => bc'.level = bc.level
      /\ bc'.ghbm.v = bc.ghbm.v /\ bc'.lhbm.v = bc.lhbm.v
      /\ bc'.req = bc.req /\ bc'.instant = bc.instant /\ bc'.dim = bc.dim /\ bc'.enhance = bc.enhance
      /\ poll'.level = IF c = NoLevel THEN poll.level ELSE c
  BY PrepareFacts DEF PresentFails
<1>2. /\ UNCHANGED <<setter, power, commit, panel, NextHbm, NextLhbm>> /\ power = "ON" /\ ~commit.inFlight
      /\ clearing = "no" /\ clearing' = "clear"
  BY DEF PresentFails, MayPresent, NextHbm, NextLhbm
<1>3. /\ "level" \notin Refused(adjusted) => c = NoLevel
      /\ "ghbm" \notin Refused(adjusted) => ~bc.ghbm.dirty
      /\ "lhbm" \notin Refused(adjusted) => ~bc.lhbm.dirty
  BY DEF Refused
<1> HIDE DEF c
<1>4. ShapeInv'
  BY <1>1, <1>2 DEF ShapeInv
<1>5. "ghbm" \notin Refused(adjusted) /\ HbmOk => HbmOk'
  BY <1>1, <1>2, <1>3 DEF HbmOk, WantedHbm, Wanted
<1>6. "lhbm" \notin Refused(adjusted) /\ LhbmOk => LhbmOk'
  BY <1>1, <1>2, <1>3 DEF LhbmOk
<1>7. "level" \notin Refused(adjusted) /\ LevelOk => LevelOk'
  BY <1>1, <1>2, <1>3, SameLevel
<1> QED  BY <1>4, <1>5, <1>6, <1>7 DEF KeepsBut

LEMMA KernelKeepsPanel ==
  ASSUME TypeInv, ShapeInv, CommitDone \/ LhbmTimeout
  PROVE  KeepsBut({})
<1>1. UNCHANGED <<bc, poll, setter, power, clearing>>
  BY DEF CommitDone, LhbmTimeout
<1>2. CASE CommitDone
  <2>1. commit.inFlight /\ commit' = NoCommit
        /\ commit'.level = NoLevel /\ commit'.ghbm = "none" /\ commit'.lhbm = "none"
    BY <1>2 DEF CommitDone, NoCommit
  <2>2. /\ panel'.level = (IF commit.level = NoLevel THEN panel.level ELSE commit.level)
        /\ panel'.adj = (IF commit.level = NoLevel THEN panel.adj ELSE commit.adj)
        /\ panel'.ghbm = (IF commit.ghbm = "none" THEN panel.ghbm ELSE commit.ghbm)
        /\ panel'.lhbm = (IF commit.lhbm = "none" THEN panel.lhbm ELSE commit.lhbm = "on")
    BY <1>2 DEF CommitDone
  <2>3. NextHbm' = NextHbm /\ NextLhbm' = NextLhbm
    BY <2>1, <2>2 DEF NextHbm, NextLhbm
  <2>4. \A v : NextLevelIs(v)' = NextLevelIs(v)
    BY <2>1, <2>2 DEF NextLevelIs
  <2>5. ShapeInv'
    BY <1>1, <2>1 DEF ShapeInv, NoCommit
  <2>6. (HbmOk => HbmOk') /\ (LhbmOk => LhbmOk')
    BY <1>1, <2>3 DEF HbmOk, LhbmOk, WantedHbm, Wanted
  <2>7. ASSUME LevelOk PROVE LevelOk'
    <3>1. StateOk' /\ RestOk'
      BY <1>1, <2>4, <2>7 DEF LevelOk, StateOk, RestOk, Idle, Busy, Direct, LevelOf
    <3>2. ASSUME NEW t \in Writers, Busy(t)' PROVE WriteOk(t)'
      <4>1. WriteOk(t)
        BY <1>1, <2>7, <3>2 DEF LevelOk, Busy
      <4> QED  BY <1>1, <2>1, <2>2, <4>1 DEF WriteOk, Direct, Busy, LevelOf
    <3> QED  BY <2>1, <3>1, <3>2 DEF LevelOk
  <2> QED  BY <2>5, <2>6, <2>7 DEF KeepsBut
<1>3. CASE LhbmTimeout
  <2>1. UNCHANGED commit
    BY <1>3 DEF LhbmTimeout
  <2>2. panel'.level = panel.level /\ panel'.adj = panel.adj /\ panel'.ghbm = panel.ghbm /\ panel'.lhbm = FALSE
    BY <1>3 DEF LhbmTimeout, TypeInv, PanelType
  <2>3. ShapeInv'
    BY <1>1, <2>1, <2>2 DEF ShapeInv
  <2>4. (HbmOk => HbmOk') /\ (LhbmOk => LhbmOk')
    BY <1>1, <2>1, <2>2 DEF HbmOk, LhbmOk, WantedHbm, Wanted, NextHbm, NextLhbm
  <2>5. LevelOk => LevelOk'
    BY <1>1, <2>1, <2>2, SameLevel
  <2> QED  BY <2>3, <2>4, <2>5 DEF KeepsBut
<1> QED  BY <1>2, <1>3

LEMMA NoLhbmKeepsPanel ==
  ASSUME TypeInv, ShapeInv, ~commit.inFlight, bc' = ResetLhbm(bc),
         UNCHANGED <<poll, setter, clearing, commit>>, power' # "ON",
         panel' = [panel EXCEPT !.lhbm = FALSE]
  PROVE  KeepsBut({})
<1>1. /\ bc'.level = bc.level /\ bc'.ghbm = bc.ghbm /\ bc'.req = bc.req /\ bc'.instant = bc.instant
      /\ bc'.dim = bc.dim /\ bc'.enhance = bc.enhance
  BY ResetFacts DEF TypeInv
<1>2. panel'.level = panel.level /\ panel'.adj = panel.adj /\ panel'.ghbm = panel.ghbm /\ panel'.lhbm = FALSE
  BY DEF TypeInv, PanelType
<1>3. commit.lhbm = "none"
  BY DEF ShapeInv, NoCommit
<1>4. ShapeInv'
  BY <1>1, <1>2 DEF ShapeInv
<1>5. HbmOk => HbmOk'
  BY <1>1, <1>2 DEF HbmOk, WantedHbm, Wanted, NextHbm
<1>6. LhbmOk'
  BY <1>2, <1>3 DEF LhbmOk, NextLhbm
<1>7. LevelOk => LevelOk'
  BY <1>1, <1>2, SameLevel
<1> QED  BY <1>4, <1>5, <1>6, <1>7 DEF KeepsBut

LEMMA SensorKeepsPanel ==
  ASSUME TypeInv, ShapeInv,
         DimmingThreadStarts \/ (\E on \in BOOLEAN : SetLhbmState(on)) \/ LhbmEnabled \/ LhbmFailed
  PROVE  KeepsBut({})
<1>1. UNCHANGED <<poll, setter, power, clearing, commit, panel>>
  BY DEF DimmingThreadStarts, SetLhbmState, LhbmEnabled, LhbmFailed, otherThanSensor
<1>2. CASE UNCHANGED bc
  <2>1. ShapeInv' /\ (HbmOk => HbmOk') /\ (LhbmOk => LhbmOk')
    BY <1>1, <1>2 DEF ShapeInv, HbmOk, LhbmOk, WantedHbm, Wanted, NextHbm, NextLhbm
  <2>2. LevelOk => LevelOk'
    BY <1>1, <1>2, SameLevel
  <2> QED  BY <2>1, <2>2 DEF KeepsBut
<1>3. CASE bc' # bc
  <2>1. bc' = ResetLhbm(bc) /\ power = "OFF"
    BY <1>3 DEF DimmingThreadStarts, SetLhbmState, LhbmEnabled, LhbmFailed
  <2>2. ~commit.inFlight /\ panel.lhbm = FALSE /\ panel \in PanelType
    BY <2>1 DEF ShapeInv, TypeInv, PanelType
  <2>3. panel' = [panel EXCEPT !.lhbm = FALSE]
    BY <1>1, <2>2 DEF PanelType
  <2> QED  BY <1>1, <2>1, <2>2, <2>3, NoLhbmKeepsPanel
<1> QED  BY <1>2, <1>3

LEMMA PowerKeepsPanel ==
  ASSUME TypeInv, ShapeInv,
         ClearFrame \/ FrameCleared \/ ClearDisplay \/ ResetStates \/ PowerOff \/ PowerDoze \/ PowerOn
  PROVE  KeepsBut({})
<1>1. CASE ClearFrame \/ FrameCleared \/ PowerOff \/ PowerOn
  <2>1. /\ UNCHANGED <<bc, poll, setter, commit, panel>> /\ clearing # "reset"
        /\ clearing' \in {"no", "clear"} /\ ~commit.inFlight
        /\ power' # "ON" => power # "ON" \/ clearing = "done"
        /\ HbmOk => clearing # "off"
    BY <1>1 DEF ClearFrame, FrameCleared, PowerOff, PowerOn, otherThanPower, ShapeInv
  <2>2. ShapeInv'
    BY <2>1 DEF ShapeInv
  <2>3. (HbmOk => HbmOk') /\ (LhbmOk => LhbmOk')
    BY <2>1 DEF HbmOk, LhbmOk, WantedHbm, Wanted, NextHbm, NextLhbm
  <2>4. LevelOk => LevelOk'
    BY <2>1, SameLevel
  <2> QED  BY <2>2, <2>3, <2>4 DEF KeepsBut
<1>2. CASE ClearDisplay
  <2>1. UNCHANGED <<bc, poll, setter, power, commit>> /\ ~commit.inFlight /\ clearing = "no" /\ clearing' = "off"
    BY <1>2 DEF ClearDisplay, otherThanPower
  <2>2. panel'.ghbm = "OFF" /\ panel'.lhbm = FALSE /\ panel'.level = panel.level /\ panel'.adj = panel.adj
    BY <1>2 DEF ClearDisplay, TypeInv, PanelType
  <2>3. commit.lhbm = "none"
    BY <2>1 DEF ShapeInv, NoCommit
  <2>4. ShapeInv'
    BY <2>1, <2>2 DEF ShapeInv
  <2>5. (HbmOk => HbmOk') /\ LhbmOk'
    BY <2>1, <2>2, <2>3 DEF HbmOk, LhbmOk, WantedHbm, Wanted, NextLhbm
  <2>6. LevelOk => LevelOk'
    BY <2>1, <2>2, SameLevel
  <2> QED  BY <2>4, <2>5, <2>6 DEF KeepsBut
<1>3. CASE ResetStates
  <2>1. UNCHANGED <<poll, setter, power, commit, panel>> /\ clearing = "reset" /\ clearing' = "done"
    BY <1>3 DEF ResetStates, otherThanPower
  <2>2. /\ bc'.level.v = 0 /\ ~bc'.level.dirty /\ bc'.ghbm.v = "OFF" /\ bc'.req = Off
        /\ bc'.instant = bc.instant /\ bc'.dim = bc.dim /\ bc'.lhbm = bc.lhbm
    BY <1>3 DEF ResetStates, TypeInv, States, Clean
  <2>3. ~bc.instant /\ panel.ghbm = "OFF" /\ commit = NoCommit /\ commit.ghbm = "none"
    BY <2>1 DEF ShapeInv, NoCommit
  <2>4. ShapeInv'
    BY <2>1, <2>2, <2>3 DEF ShapeInv
  <2>5. HbmOk'
    BY <2>1, <2>2, <2>3, BrightnessAssumption DEF HbmOk, WantedHbm, Wanted, IsHbm, Off, NextHbm
  <2>6. LhbmOk => LhbmOk'
    BY <2>1, <2>2 DEF LhbmOk, NextLhbm
  <2>7. ASSUME LevelOk, ~Overtakes PROVE LevelOk'
    <3>1. StateOk' /\ RestOk'
      BY <2>2, <2>3 DEF StateOk, RestOk, LevelOf
    <3>2. ASSUME NEW t \in Writers, Busy(t)' PROVE WriteOk(t)'
      <4>1. Busy(t) /\ WriteOk(t) /\ ~Idle /\ ~Idle'
        BY <2>1, <2>7, <3>2 DEF LevelOk, Busy, Idle
      <4>2. bc'.level = bc.level /\ bc'.req = bc.req
        BY <2>7, <4>1 DEF Overtakes, Asked
      <4> QED  BY <2>1, <2>2, <4>1, <4>2 DEF WriteOk, Direct, Busy, LevelOf
    <3> QED  BY <2>1, <2>7, <3>1, <3>2 DEF LevelOk
  <2> QED  BY <2>4, <2>5, <2>6, <2>7 DEF KeepsBut
<1>4. CASE PowerDoze
  <2>1. /\ bc' = ResetLhbm(bc) /\ power' = "DOZE" /\ ~commit.inFlight
        /\ UNCHANGED <<poll, setter, clearing, commit>> /\ panel' = [panel EXCEPT !.lhbm = FALSE]
    BY <1>4 DEF PowerDoze, otherThanPower
  <2> QED  BY <2>1, NoLhbmKeepsPanel
<1> QED  BY <1>1, <1>2, <1>3, <1>4

LEMMA ClearingKeepsPanel ==
  ASSUME TypeInv, ShapeInv, OnClearDisplay
  PROVE  KeepsBut(Forgotten)
<1>0. bc \in States /\ setter \in [Writers -> WriteType] /\ bc.level.v \in Nat /\ "clear" \in Writers
  BY DEF TypeInv, States, Ctrl, Writers
<1>1. /\ UNCHANGED <<poll, power, commit, panel, NextHbm, NextLhbm>> /\ clearing \in {"clear", "off"}
      /\ clearing' = IF clearing = "off" THEN "reset" ELSE "cleared"
  BY DEF OnClearDisplay, otherThanPower, NextHbm, NextLhbm
<1>2. /\ bc'.level = bc.level /\ bc'.ghbm = bc.ghbm /\ bc'.req = bc.req /\ bc'.instant = FALSE
      /\ bc'.dim = bc.dim /\ bc'.enhance = bc.enhance
  <2>1. bc' = [ResetLhbm(bc) EXCEPT !.instant = FALSE]
    BY DEF OnClearDisplay
  <2> DEFINE r == ResetLhbm(bc)
  <2>2. /\ r \in States /\ r.level = bc.level /\ r.ghbm = bc.ghbm /\ r.req = bc.req
        /\ r.dim = bc.dim /\ r.enhance = bc.enhance
    BY <1>0, ResetFacts
  <2> HIDE DEF r
  <2> QED  BY <2>1, <2>2 DEF States, r
<1>3. commit = NoCommit /\ commit.level = NoLevel /\ commit.lhbm = "none"
  BY <1>1 DEF ShapeInv, NoCommit
<1>4. IF ~bc.level.dirty THEN setter' = setter
      ELSE /\ setter'["clear"].pc = "write" /\ ~setter'["clear"].flush /\ setter'["clear"].level = bc.level.v
           /\ \A u \in Writers : u # "clear" => setter'[u] = setter[u]
  BY <1>0 DEF OnClearDisplay
<1>5. ShapeInv'
  BY <1>1, <1>2, <1>4 DEF ShapeInv
<1>6. "ghbm" \notin Forgotten /\ HbmOk => HbmOk'
  BY <1>1, <1>2 DEF Forgotten, HbmOk, WantedHbm, Wanted
<1>7. "lhbm" \notin Forgotten => LhbmOk'
  BY <1>1, <1>3 DEF Forgotten, LhbmOk, NextLhbm, ShapeInv
<1>8. ASSUME "level" \notin Forgotten, ~Overtakes, LevelOk PROVE LevelOk'
  <2>1. clearing' = "reset" \/ ~bc.instant
    BY <1>1, <1>8 DEF Forgotten
  <2>2. CASE ~bc.level.dirty
    <3>1. setter' = setter
      BY <1>4, <2>2
    <3>2. StateOk'
      BY <1>1, <1>2, <1>8, <2>1, <3>1 DEF LevelOk, StateOk, LevelOf, Busy, Direct
    <3>3. RestOk'
      BY <1>1, <1>2, <1>8, <3>1 DEF LevelOk, RestOk, NextLevelIs, Idle
    <3>4. \A t \in Writers : Busy(t)' => WriteOk(t)'
      BY <1>1, <1>2, <1>8, <3>1 DEF LevelOk, WriteOk, Busy, Direct, LevelOf
    <3> QED  BY <1>1, <1>3, <3>2, <3>3, <3>4 DEF LevelOk
  <2>3. CASE bc.level.dirty
    <3>1. \A u \in Writers : Busy(u)' => u = "clear"
      BY <1>0, <1>4, <1>8, <2>3 DEF Overtakes, Busy
    <3>2. \A u \in Writers : Busy(u) => u = "clear"
      BY <1>4, <2>3, <3>1 DEF Busy
    <3>3. ~Idle'
      BY <1>0, <1>4, <2>3 DEF Idle
    <3>4. StateOk'
      BY <1>1, <1>2, <1>8, <2>1, <3>2 DEF LevelOk, StateOk, LevelOf, Direct, Threads
    <3>5. WriteOk("clear")'
      BY <1>1, <1>2, <1>3, <1>4, <2>3, <3>1 DEF WriteOk, Direct, Threads
    <3> QED  BY <1>1, <1>3, <3>1, <3>3, <3>4, <3>5 DEF LevelOk, RestOk
  <2> QED  BY <2>2, <2>3
<1> QED  BY <1>5, <1>6, <1>7, <1>8 DEF KeepsBut

LEMMA PanelStep ==
  ASSUME TypeInv, PanelInv, [BrightnessNext]_brightnessVars
  PROVE  PanelInv'
<1>0. ShapeInv
  BY DEF PanelInv
<1>1. CASE (Request \/ Frame \/ Power) /\ Loses({})
  <2>1. Requests => KeepsBut({})
    BY <1>0, RequestsUpdate, UpdatesKeepPanel
  <2>2. KeepsBut({})
    BY <1>0, <1>1, <2>1, SettingKeepsPanel, WritesKeepPanel, PresentKeepsPanel, KernelKeepsPanel,
       SensorKeepsPanel, PowerKeepsPanel DEF Request, Frame, Power, Requests
  <2> QED  BY <1>1, <2>2, FoundKeepsPanel
<1>2. ASSUME NEW t \in Writers, WriteFails(t), Loses({"level"})
      PROVE  PanelInv'
  BY <1>0, <1>2, FailedWriteKeepsPanel, FoundKeepsPanel
<1>3. ASSUME NEW adjusted \in BOOLEAN, PresentFails(adjusted), Loses(Refused(adjusted))
      PROVE  PanelInv'
  BY <1>0, <1>3, RefusedKeepsPanel, FoundKeepsPanel
<1>4. CASE OnClearDisplay /\ Loses(Forgotten)
  BY <1>0, <1>4, ClearingKeepsPanel, FoundKeepsPanel
<1>5. CASE UNCHANGED brightnessVars
  <2>1. ShapeInv' /\ (HbmOk => HbmOk') /\ (LhbmOk => LhbmOk')
    BY <1>0, <1>5 DEF ShapeInv, HbmOk, LhbmOk, WantedHbm, Wanted, NextHbm, NextLhbm
  <2>2. LevelOk => LevelOk'
    BY <1>5, SameLevel
  <2> QED  BY <1>5, <2>1, <2>2 DEF PanelInv
<1> QED  BY <1>1, <1>2, <1>3, <1>4, <1>5 DEF BrightnessNext

LEMMA PanelAtRest ==
  ASSUME PanelInv
  PROVE  PanelFollowsRequests
<1> SUFFICES ASSUME AtRest
             PROVE  /\ "ghbm" \notin lost => HbmAgrees
                    /\ "lhbm" \notin lost => LhbmAgrees
                    /\ "level" \notin lost => LevelAgrees
  BY DEF PanelFollowsRequests
<1>1. clearing = "no" /\ Idle /\ bc.req # Off
      /\ commit.level = NoLevel /\ commit.ghbm = "none" /\ commit.lhbm = "none"
  BY DEF AtRest, PanelInv, ShapeInv, NoCommit
<1>2. HbmOk => HbmAgrees
  BY <1>1 DEF HbmOk, HbmAgrees, NextHbm
<1>3. LhbmOk => LhbmAgrees
  BY <1>1 DEF LhbmOk, LhbmAgrees, NextLhbm
<1>4. LevelOk => LevelAgrees
  BY <1>1 DEF LevelOk, LevelAgrees, StateOk, RestOk, NextLevelIs, Idle, Busy
<1> QED  BY <1>2, <1>3, <1>4 DEF PanelInv

(* Whenever nothing is on its way to it, the panel has the level, the HBM  *)
(* mode and at most the local HBM that the requests of the composer, the   *)
(* HWC service, the sensor and the dim and HBM modes add up to, whichever  *)
(* of the two paths each took, and whatever frames, clears and power       *)
(* changes came between.  Only a level whose write failed or was           *)
(* overtaken, what a refused commit had taken and HBM that a cleared frame *)
(* forgets are set apart, each until all agree again.                      *)
THEOREM ThePanelFollowsRequests == BrightnessSpec => []PanelFollowsRequests
<1>1. BrightnessInit => PanelInv
  BY BrightnessAssumption
     DEF BrightnessInit, PanelInv, ShapeInv, HbmOk, LhbmOk, LevelOk, StateOk, RestOk, Busy, NoCommit, NoWrite,
         Clean, NextLevelIs, NextHbm, NextLhbm, WantedHbm, Wanted, IsHbm, Off, LevelOf, Writers, Threads
<1>2. TypeInv /\ PanelInv /\ [BrightnessNext]_brightnessVars => PanelInv'
  BY PanelStep
<1>3. PanelInv => PanelFollowsRequests
  BY PanelAtRest
<1> QED  BY <1>1, <1>2, <1>3, BrightnessTypes, PTL DEF BrightnessSpec
=============================================================================
